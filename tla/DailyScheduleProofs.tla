------------------------ MODULE DailyScheduleProofs -------------------------
(***************************************************************************)
(* Theorems about DailySchedule for any number of days, any slots, window  *)
(* and round, and any faults.                                              *)
(***************************************************************************)
EXTENDS DailySchedule, TLAPS

(* The marker never goes back and never runs ahead of the clock.           *)
Marker(s) == s.lastScheduledDay

Ordered ==
  /\ \A d \in written : d <= Marker(disk)
  /\ Marker(disk) <= today
  /\ pc \in Up => Marker(disk) <= Marker(mem) /\ Marker(mem) <= today

(* A batch that is due or under way is of a day later than the marker.     *)
Ahead ==
  /\ pc \in {"wait", "verify"} \cup Running => day \in Days /\ day <= today
  /\ pc \in {"wait"} \cup Running => Marker(mem) < day

(* What this process has run is covered by the marker or still running.    *)
Covered ==
  /\ pc \in Up => \A d \in Days : runs[d] > 0 =>
                    d <= Marker(mem) \/ (pc \in Running /\ d = day)
  /\ pc \in Running => day \in begun

IInv == TypeOK /\ Ordered /\ Ahead /\ Covered /\ OncePerProcess /\ MarkerHonest

LEMMA WriteTyped ==
  ASSUME TypeOK, NEW s \in Settings, Write(s) \/ WriteFails
  PROVE  disk' \in Settings /\ written' \subseteq Days
  BY DEF TypeOK, Write, WriteFails, Settings

(* What a save of the settings s leaves of the invariants about the disk.  *)
LEMMA WriteOrdered ==
  ASSUME TypeOK, Ordered, MarkerHonest, NEW s \in Settings,
         Write(s) \/ WriteFails, pc \in Up,
         Marker(mem) <= Marker(s), Marker(s) <= today
  PROVE  /\ \A d \in written' : d <= Marker(disk')
         /\ Marker(disk') <= Marker(s)
         /\ Marker(disk') = Marker(s) \/ Marker(disk') = Marker(disk)
<1>1. CASE Write(s)
  <2>1. \A d \in written : d <= Marker(s)
    BY DEF Ordered, TypeOK, Settings, Marker, Days
  <2> QED BY <1>1, <2>1 DEF Write, Settings, Marker, Days
<1>2. CASE WriteFails
  BY <1>2 DEF WriteFails, Ordered, TypeOK, Settings, Marker, Days
<1> QED BY <1>1, <1>2

LEMMA InitInvariant == Init => IInv
<1> SUFFICES ASSUME Init PROVE IInv
  OBVIOUS
<1> USE ClockAssumption DEF Init
<1>1. disk \in Settings /\ Marker(disk) = 0 /\ mem = disk
  BY DEF Marker
<1>2. ticked \in BOOLEAN /\ manual \in BOOLEAN /\ steady \in BOOLEAN
  BY Zenon
<1>3. /\ today \in Days /\ slot \in Slots /\ spent \in 0 .. Round
      /\ day \in {0} \cup Days /\ runs \in [Days -> Nat]
      /\ begun \subseteq Days /\ written \subseteq Days
  BY DEF Days, Slots
<1>4. TypeOK
  BY <1>1, <1>2, <1>3 DEF TypeOK
<1> QED
  BY <1>1, <1>4 DEF IInv, Ordered, Ahead, Covered, OncePerProcess, MarkerHonest, Up, Running, Days, Marker

(* A round begins: the settings in memory are read, the log may be saved.  *)
LEMMA TickInvariant ==
  ASSUME IInv, TickNotDue \/ TickDone \/ TickDue
  PROVE  IInv'
<1>1. pc = "idle" /\ pc \in Up /\ mem \in Settings /\ today \in Days /\ UNCHANGED <<today, mem, runs, begun>>
  BY DEF IInv, TypeOK, TickNotDue, TickDone, TickDue, Begin, Up
<1>2. (Write(mem) \/ WriteFails) \/ UNCHANGED <<disk, written>>
  BY DEF TickNotDue, TickDone, TickDue
<1>3. pc' \in {"rechecks", "verify", "wait"} /\ pc' \in Up /\ pc' \notin Running
  BY DEF TickNotDue, TickDone, TickDue, Begin, Up, Running
<1>4. disk' \in Settings /\ written' \subseteq Days
  BY <1>1, <1>2, WriteTyped DEF IInv, TypeOK
<1>5. TypeOK'
  <2>1. ticked' \in BOOLEAN
    BY Zenon DEF TickNotDue, TickDone, TickDue, Begin
  <2>2. spent' \in 0 .. Round /\ day' \in {0} \cup Days
    BY <1>1, ClockAssumption DEF IInv, TypeOK, TickNotDue, TickDone, TickDue, Begin
  <2>3. UNCHANGED <<slot, manual, steady>>
    BY DEF TickNotDue, TickDone, TickDue, Begin
  <2> QED BY <1>1, <1>3, <1>4, <2>1, <2>2, <2>3 DEF IInv, TypeOK
<1>6. /\ \A d \in written' : d <= Marker(disk')
      /\ Marker(disk') <= Marker(mem)
      /\ Marker(disk') = Marker(mem) \/ Marker(disk') = Marker(disk)
      /\ Marker(mem) <= today
  <2>1. Marker(mem) <= today /\ Marker(mem) <= Marker(mem) /\ Marker(disk) <= Marker(mem)
    BY <1>1 DEF IInv, Ordered, Settings, Marker, Days
  <2>2. CASE Write(mem) \/ WriteFails
    BY <1>1, <2>1, <2>2, WriteOrdered DEF IInv
  <2>3. CASE UNCHANGED <<disk, written>>
    BY <2>1, <2>3 DEF IInv, Ordered, Marker
  <2> QED BY <1>2, <2>2, <2>3, <2>1
<1>7. Ordered'
  BY <1>1, <1>4, <1>6 DEF Ordered, Marker, Settings, Days
<1>8. Ahead'
  BY <1>1, <1>3, <1>6 DEF Ahead, TickNotDue, TickDone, TickDue, Begin, Marker, Settings, Days
<1>9. Covered' /\ OncePerProcess'
  BY <1>1, <1>3 DEF IInv, Covered, OncePerProcess, Running, Marker
<1>10. MarkerHonest'
  BY <1>1, <1>6 DEF IInv, MarkerHonest, Marker
<1> QED BY <1>5, <1>7, <1>8, <1>9, <1>10 DEF IInv

(* The rest of a round, a handler's step and the clock that moves on.      *)
LEMMA RoundInvariant ==
  ASSUME IInv, BeginBatch \/ EndBatch \/ Verified \/ Unverified \/ EndRechecks
  PROVE  IInv'
<1> USE DEF IInv, Step
<1>1. CASE BeginBatch
  <2> USE <1>1 DEF BeginBatch
  <2>1. day \in Days /\ Marker(mem) < day /\ day <= today /\ Marker(mem) \in Int
    BY DEF Ahead, TypeOK, Settings, Marker, Days
  <2>2. runs[day] = 0
    BY <2>1 DEF Covered, TypeOK, Up, Running, Days
  <2>3. \A d \in Days : runs'[d] = IF d = day THEN 1 ELSE runs[d]
    BY <2>1, <2>2 DEF TypeOK
  <2>4. pc' \in Running /\ pc' \in Up /\ UNCHANGED <<today, mem, disk, written, day>>
    BY DEF Running, Up, clock
  <2>5. TypeOK'
    BY <2>1, <2>4 DEF TypeOK, clock
  <2>6. Ordered' /\ Ahead'
    BY <2>1, <2>4 DEF Ordered, Ahead, Up, Marker
  <2>7. Covered' /\ OncePerProcess'
    BY <2>1, <2>3, <2>4 DEF Covered, OncePerProcess, Up, Running, Marker
  <2>8. MarkerHonest'
    BY DEF MarkerHonest
  <2> QED BY <2>5, <2>6, <2>7, <2>8
<1>2. CASE EndBatch
  BY <1>2 DEF EndBatch, TypeOK, Ordered, Ahead, Covered, OncePerProcess, MarkerHonest, Marker, Up, Running, clock
<1>3. CASE Verified \/ Unverified \/ EndRechecks
  BY <1>3 DEF Verified, Unverified, EndRechecks, TypeOK, Ordered, Ahead, Covered, OncePerProcess, MarkerHonest, Marker, Up, Running, clock
<1> QED BY <1>1, <1>2, <1>3

(* The marker is set in memory, or saved again.                            *)
LEMMA MarkInvariant ==
  ASSUME IInv, Mark \/ Rewrite
  PROVE  IInv'
<1>1. mem \in Settings /\ mem' \in Settings /\ today \in Days /\ pc \in Up
      /\ Marker(mem) <= Marker(mem') /\ Marker(mem') <= today
      /\ Marker(mem) <= today
      /\ (pc \in Running => Marker(mem') = day /\ day \in begun)
      /\ Marker(mem') \in begun \cup {0}
      /\ (Write(mem') \/ WriteFails \/ UNCHANGED <<disk, written>>)
  <2>1. CASE Mark
    <3> USE <2>1 DEF Mark, Step
    <3>1. day \in Days /\ Marker(mem) < day /\ day <= today /\ day \in begun
      BY DEF IInv, Ahead, Covered, Running
    <3>2. mem \in Settings /\ today \in Days
      BY DEF IInv, TypeOK
    <3>3. mem' \in Settings /\ Marker(mem') = day
      BY <3>1, <3>2 DEF Settings, Marker
    <3> QED BY <3>1, <3>2, <3>3 DEF Settings, Marker, Days, Up, Running
  <2>2. CASE Rewrite
    BY <2>2 DEF Rewrite, Step, IInv, TypeOK, Ordered, MarkerHonest, Settings, Marker, Days, Up, Running
  <2> QED BY <2>1, <2>2
<1>2. pc' = "rechecks" /\ UNCHANGED <<today, slot, ticked, spent, day, manual, steady, runs, begun>>
  BY DEF Mark, Rewrite, Step, clock
<1>3. disk' \in Settings /\ written' \subseteq Days
  BY <1>1, WriteTyped DEF IInv, TypeOK
<1>4. /\ \A d \in written' : d <= Marker(disk')
      /\ Marker(disk') <= Marker(mem')
      /\ Marker(disk') = Marker(mem') \/ Marker(disk') = Marker(disk)
  <2>1. CASE Write(mem') \/ WriteFails
    BY <1>1, <2>1, WriteOrdered DEF IInv
  <2>2. CASE UNCHANGED <<disk, written>>
    BY <1>1, <2>2 DEF IInv, TypeOK, Ordered, Marker, Settings, Days
  <2> QED BY <1>1, <2>1, <2>2
<1>5. TypeOK'
  BY <1>1, <1>2, <1>3 DEF IInv, TypeOK, Up
<1>6. Ordered' /\ Ahead'
  BY <1>1, <1>2, <1>3, <1>4 DEF Ordered, Ahead, Marker, Settings, Days, Up, Running
<1>7. Covered' /\ OncePerProcess'
  <2>1. \A d \in Days : runs[d] > 0 => d <= Marker(mem')
    BY <1>1 DEF IInv, Covered, Settings, Marker, Days
  <2> QED BY <1>2, <2>1 DEF IInv, Covered, OncePerProcess, Marker, Running
<1>8. MarkerHonest'
  BY <1>1, <1>2, <1>4 DEF IInv, MarkerHonest, Marker
<1> QED BY <1>5, <1>6, <1>7, <1>8 DEF IInv

LEMMA HandlerInvariant ==
  ASSUME IInv, (\E s \in Settings : Edit(s)) \/ SaveOther \/ BeginManual \/ EndManual
  PROVE  IInv'
<1>1. /\ mem' \in Settings /\ Marker(mem') = Marker(mem) /\ mem \in Settings
      /\ UNCHANGED <<today, slot, ticked, spent, pc, day, runs, begun>>
      /\ Write(mem') \/ UNCHANGED <<disk, written>>
      /\ pc \in Up /\ manual' \in BOOLEAN /\ steady' \in BOOLEAN
  <2>1. CASE \E s \in Settings : Edit(s)
    <3>1. PICK s \in Settings : Edit(s)
      BY <2>1
    <3>2. mem \in Settings /\ manual \in BOOLEAN
      BY DEF IInv, TypeOK
    <3> QED BY <3>1, <3>2 DEF Edit, Handler, Settings, Marker, clock
  <2>2. CASE SaveOther \/ BeginManual \/ EndManual
    BY <2>2 DEF SaveOther, BeginManual, EndManual, Handler, IInv, TypeOK, Marker, clock
  <2> QED BY <2>1, <2>2
<1>2. disk' \in Settings /\ written' \subseteq Days
  BY <1>1, WriteTyped DEF IInv, TypeOK
<1>3. /\ \A d \in written' : d <= Marker(disk')
      /\ Marker(disk') <= Marker(mem)
      /\ Marker(disk') = Marker(mem) \/ Marker(disk') = Marker(disk)
      /\ Marker(mem) <= today
  <2>1. Marker(mem) <= today /\ Marker(mem) <= Marker(mem') /\ Marker(disk) <= Marker(mem)
    BY <1>1 DEF IInv, Ordered, Settings, Marker, Days
  <2>2. CASE Write(mem')
    BY <1>1, <2>1, <2>2, WriteOrdered DEF IInv
  <2>3. CASE UNCHANGED <<disk, written>>
    BY <2>1, <2>3 DEF IInv, Ordered, Marker
  <2> QED BY <1>1, <2>1, <2>2, <2>3
<1>4. TypeOK'
  BY <1>1, <1>2 DEF IInv, TypeOK
<1>5. Ordered' /\ Ahead'
  BY <1>1, <1>3 DEF IInv, Ordered, Ahead, Marker
<1>6. Covered' /\ OncePerProcess'
  BY <1>1 DEF IInv, Covered, OncePerProcess, Marker
<1>7. MarkerHonest'
  BY <1>1, <1>3 DEF IInv, MarkerHonest, Marker
<1> QED BY <1>4, <1>5, <1>6, <1>7 DEF IInv

LEMMA BootInvariant ==
  ASSUME IInv, Boot \/ Crash
  PROVE  IInv'
<1> USE DEF IInv
<1>1. CASE Boot
  <2>1. steady' = (slot = 0)
    BY <1>1 DEF Boot
  <2>2. steady' \in BOOLEAN
    BY <2>1, Zenon
  <2>3. TypeOK'
    <3>1. ticked' \in BOOLEAN
      BY <1>1, Zenon DEF Boot
    <3>2. spent' \in 0 .. Round /\ runs' \in [Days -> Nat] /\ pc' \in Up
      BY <1>1, ClockAssumption DEF Boot, Up
    <3>3. UNCHANGED <<today, slot, disk, manual, begun, written>> /\ mem' = disk /\ day' = 0
      BY <1>1 DEF Boot
    <3> QED BY <2>2, <3>1, <3>2, <3>3 DEF TypeOK
  <2>4. Ordered' /\ Ahead' /\ Covered'
    BY <1>1 DEF Boot, TypeOK, Ordered, Ahead, Covered, Marker, Up, Running, Settings, Days
  <2> QED BY <1>1, <2>3, <2>4 DEF Boot, OncePerProcess, MarkerHonest
<1>2. CASE Crash
  BY <1>2 DEF Crash, TypeOK, Ordered, Ahead, Covered, OncePerProcess, MarkerHonest, Marker, Up, Running, clock
<1> QED BY <1>1, <1>2

LEMMA ClockInvariant ==
  ASSUME IInv, NextSlot \/ Midnight
  PROVE  IInv'
<1>1. /\ UNCHANGED <<mem, disk, pc, day, manual, runs, begun, written>>
      /\ today \in Days /\ today' \in Days /\ today <= today'
      /\ slot' \in Slots
  BY ClockAssumption DEF NextSlot, Midnight, Pass, IInv, TypeOK, Days, Slots
<1>2. spent' \in 0 .. Round
  BY ClockAssumption DEF NextSlot, Midnight, Pass, Timely, Busy, IInv, TypeOK
<1>3. ticked' \in BOOLEAN /\ steady' \in BOOLEAN
  <2>1. ticked' \in BOOLEAN
    BY DEF NextSlot, Midnight, Pass
  <2>2. CASE NextSlot
    BY <2>1, <2>2 DEF NextSlot, IInv, TypeOK
  <2>3. CASE Midnight
    <3>1. steady' = (pc # "off")
      BY <2>3 DEF Midnight
    <3>2. steady' \in BOOLEAN
      BY <3>1, Zenon
    <3> QED BY <2>1, <3>2
  <2> QED BY <2>2, <2>3
<1>4. TypeOK'
  BY <1>1, <1>2, <1>3 DEF IInv, TypeOK
<1>5. Ordered' /\ Ahead'
  BY <1>1 DEF IInv, Ordered, Ahead, Marker, TypeOK, Settings, Days
<1>6. Covered' /\ OncePerProcess' /\ MarkerHonest'
  BY <1>1 DEF IInv, Covered, OncePerProcess, MarkerHonest, Marker
<1> QED BY <1>4, <1>5, <1>6 DEF IInv

LEMMA StepInvariant == IInv /\ [Next]_vars => IInv'
<1> SUFFICES ASSUME IInv, [Next]_vars PROVE IInv'
  OBVIOUS
<1>1. CASE Next
  BY <1>1, TickInvariant, RoundInvariant, MarkInvariant, HandlerInvariant, BootInvariant, ClockInvariant
     DEF Next, Scheduler
<1>2. CASE UNCHANGED vars
  BY <1>2 DEF vars, clock, history, IInv, TypeOK, Ordered, Ahead, Covered, OncePerProcess, MarkerHonest, Marker
<1> QED BY <1>1, <1>2

THEOREM Invariance == Spec => []IInv
<1> QED BY InitInvariant, StepInvariant, PTL DEF Spec

(* Every variable of the scheduler keeps to its values.                    *)
THEOREM TypeCorrect == Spec => []TypeOK
<1> QED BY Invariance, PTL DEF IInv

(* runScheduledIfDue runs the batch of a day at most once in a process,    *)
(* however many saves of its marker fail.                                  *)
THEOREM BatchOnce == Spec => []OncePerProcess
<1> QED BY Invariance, PTL DEF IInv

(* The marker, in memory and on disk, names only days whose batch began.   *)
THEOREM MarkerNamesBegun == Spec => []MarkerHonest
<1> QED BY Invariance, PTL DEF IInv

(* After the marker of a day was written no process begins its batch.      *)
THEOREM WrittenIsFinal == Spec => NotAfterWritten
<1>1. IInv /\ [Next]_vars => [\A d \in written : runs'[d] <= runs[d]]_vars
  <2> SUFFICES ASSUME IInv, Next, NEW d \in written PROVE runs'[d] <= runs[d]
    OBVIOUS
  <2>1. d \in Days /\ runs[d] \in Nat
    BY DEF IInv, TypeOK
  <2>2. CASE BeginBatch
    <3>1. d <= Marker(disk) /\ Marker(disk) <= Marker(mem) /\ Marker(mem) < day
      BY <2>2 DEF BeginBatch, Step, IInv, Ordered, Ahead, Up
    <3>2. d # day
      BY <2>1, <3>1 DEF IInv, TypeOK, Settings, Marker, Days
    <3> QED BY <2>1, <2>2, <3>2 DEF BeginBatch, IInv, TypeOK
  <2>3. CASE Boot
    BY <2>1, <2>3 DEF Boot
  <2>4. CASE UNCHANGED runs
    BY <2>1, <2>4
  <2> QED
    BY <2>2, <2>3, <2>4
       DEF Next, Scheduler, TickNotDue, TickDone, TickDue, Begin, EndBatch, Mark, Verified, Unverified,
           Rewrite, EndRechecks, Edit, SaveOther, BeginManual, EndManual, Handler, Crash, NextSlot, Midnight, Pass
<1> QED BY Invariance, <1>1, PTL DEF Spec, NotAfterWritten

-----------------------------------------------------------------------------
(* As long as the day lacks its batch, every round of the loop has begun   *)
(* before the set time, and the next one begins before the window closes.  *)
Served == today \in begun \/ (pc = "wait" /\ day = today)

Punctual ==
  /\ steady => pc \in Up
  /\ Busy /\ ticked => spent = 0
  /\ steady /\ mem.enabled /\ RoundFits /\ ~Served =>
       /\ Busy => slot - spent < mem.time
       /\ pc = "idle" /\ ticked => slot < mem.time
       /\ pc = "idle" /\ ~ticked => slot <= mem.time + Window

(* What the arithmetic needs of the types.                                 *)
LEMMA SlotTypes ==
  ASSUME TypeOK
  PROVE  /\ slot \in Int /\ spent \in Int /\ mem.time \in Int /\ Round \in Int /\ Window \in Int
         /\ LastSlot \in Int /\ 0 <= slot /\ slot <= LastSlot /\ 0 <= spent /\ spent <= Round
         /\ 0 <= mem.time /\ mem.time <= LastSlot /\ 0 <= Window /\ 0 <= Round
  BY ClockAssumption DEF TypeOK, Settings, Slots

LEMMA TickPunctual ==
  ASSUME IInv, Punctual, TickNotDue \/ TickDone \/ TickDue
  PROVE  Punctual'
<1>1. /\ pc = "idle" /\ ticked' = TRUE /\ spent' = 0
      /\ UNCHANGED <<today, slot, mem, begun, steady>>
      /\ pc' \in {"rechecks", "verify", "wait"}
  BY DEF TickNotDue, TickDone, TickDue, Begin
<1>2. ~Served' /\ Due(mem) => today \in begun
  <2>1. CASE TickNotDue
    BY <2>1 DEF TickNotDue
  <2>2. CASE TickDone
    BY <2>2 DEF TickDone, IInv, MarkerHonest, TypeOK, Days
  <2>3. CASE TickDue
    BY <1>1, <2>3 DEF TickDue, Begin, Served
  <2> QED BY <2>1, <2>2, <2>3
<1>3. ASSUME steady, mem.enabled, RoundFits, ~Served' PROVE slot < mem.time
  <2>1. ~Served
    BY <1>1, <1>3 DEF Served
  <2>2. ~Due(mem)
    BY <1>1, <1>2, <1>3 DEF Served
  <2>3. slot <= mem.time + Window
    <3>1. CASE ticked
      BY <1>1, <1>3, <2>1, <3>1, SlotTypes DEF Punctual, IInv
    <3>2. CASE ~ticked
      BY <1>1, <1>3, <2>1, <3>2 DEF Punctual
    <3> QED BY <3>1, <3>2
  <2> QED BY <1>3, <2>2, <2>3, SlotTypes DEF Due, IInv
<1>4. pc' \in Up /\ Busy'
  BY <1>1 DEF Busy, Up, Running
<1>5. RoundFits' = RoundFits
  BY <1>1 DEF RoundFits
<1> QED BY <1>1, <1>3, <1>4, <1>5, SlotTypes DEF Punctual, IInv, Busy

LEMMA RoundPunctual ==
  ASSUME IInv, Punctual, BeginBatch \/ EndBatch \/ Mark \/ Verified \/ Unverified \/ Rewrite
  PROVE  Punctual'
<1>1. /\ UNCHANGED <<today, slot, ticked, spent, day, steady>>
      /\ Busy /\ Busy' /\ pc' \in Up /\ pc' # "idle"
  BY DEF BeginBatch, EndBatch, Mark, Verified, Unverified, Rewrite, Step, clock, Busy, Up, Running
<1>2. mem'.time = mem.time /\ mem'.enabled = mem.enabled
  BY DEF BeginBatch, EndBatch, Mark, Verified, Unverified, Rewrite, IInv, TypeOK, Settings
<1>3. Served => Served'
  BY <1>1 DEF Served, BeginBatch, EndBatch, Mark, Verified, Unverified, Rewrite, Step
<1>4. RoundFits' = RoundFits
  BY <1>2 DEF RoundFits
<1> QED BY <1>1, <1>2, <1>3, <1>4 DEF Punctual

LEMMA EndPunctual ==
  ASSUME IInv, Punctual, EndRechecks
  PROVE  Punctual'
<1>1. /\ UNCHANGED <<today, slot, ticked, spent, day, steady, mem, begun>>
      /\ Busy /\ ~Busy' /\ pc' \in Up /\ pc' = "idle" /\ pc = "rechecks"
  BY DEF EndRechecks, Step, clock, Busy, Up, Running
<1>2. Served' = Served /\ RoundFits' = RoundFits
  BY <1>1 DEF Served, RoundFits
<1>3. ASSUME steady, mem.enabled, RoundFits, ~Served
      PROVE  (ticked => slot < mem.time) /\ slot <= mem.time + Window
  <2>1. slot - spent < mem.time
    BY <1>1, <1>3 DEF Punctual
  <2>2. ticked => spent = 0
    BY <1>1 DEF Punctual
  <2>3. spent <= Window + 1
    BY <1>3, SlotTypes DEF RoundFits, IInv
  <2> QED BY <2>1, <2>2, <2>3, SlotTypes DEF IInv
<1> QED BY <1>1, <1>2, <1>3 DEF Punctual

LEMMA OthersPunctual ==
  ASSUME IInv, Punctual,
         (\E s \in Settings : Edit(s)) \/ SaveOther \/ BeginManual \/ EndManual \/ Boot \/ Crash
  PROVE  Punctual'
<1>1. CASE \E s \in Settings : Edit(s)
  BY <1>1 DEF Edit, Handler, clock, Punctual, Busy, Up, Running
<1>2. CASE SaveOther \/ BeginManual \/ EndManual
  <2>1. UNCHANGED <<today, slot, ticked, spent, day, steady, mem, begun, pc>>
    BY <1>2 DEF SaveOther, BeginManual, EndManual, Handler, clock
  <2> QED BY <2>1 DEF Punctual, Served, RoundFits, Busy
<1>3. CASE Boot
  <2>1. /\ pc' = "idle" /\ ticked' = FALSE /\ slot' = slot /\ mem' = disk
        /\ steady' => slot = 0
    BY <1>3 DEF Boot
  <2>2. 0 <= disk.time + Window
    BY ClockAssumption DEF IInv, TypeOK, Settings, Slots
  <2> QED BY <2>1, <2>2 DEF Punctual, Busy, Up
<1>4. CASE Crash
  BY <1>4 DEF Crash, clock, Punctual, Busy, Up, Running
<1> QED BY <1>1, <1>2, <1>3, <1>4

LEMMA ClockPunctual ==
  ASSUME IInv, Punctual, NextSlot \/ Midnight
  PROVE  Punctual'
<1>1. /\ UNCHANGED <<mem, pc, day, begun>> /\ ticked' = FALSE
      /\ spent' = IF Busy THEN spent + 1 ELSE spent
      /\ (pc = "idle" => ticked) /\ (Busy => spent < Round)
  BY DEF NextSlot, Midnight, Pass, Timely
<1>2. Busy' = Busy /\ RoundFits' = RoundFits
  BY <1>1 DEF Busy, RoundFits
<1>3. CASE NextSlot
  <2>1. slot' = slot + 1 /\ UNCHANGED <<today, steady>>
    BY <1>3 DEF NextSlot
  <2>2. Served' = Served
    BY <1>1, <2>1 DEF Served
  <2>3. ASSUME steady, mem.enabled, RoundFits, ~Served
        PROVE  /\ Busy => slot' - spent' < mem.time
               /\ pc = "idle" => slot' <= mem.time + Window
    BY <1>1, <2>1, <2>3, SlotTypes DEF Punctual, IInv
  <2> QED BY <1>1, <1>2, <2>1, <2>2, <2>3 DEF Punctual
<1>4. CASE Midnight
  <2>1. slot' = 0 /\ (steady' => pc # "off")
    BY <1>4 DEF Midnight
  <2>2. /\ Busy => slot' - spent' < mem.time
        /\ slot' <= mem.time + Window
    BY <1>1, <2>1, SlotTypes DEF IInv
  <2>3. pc \in Up \cup {"off"}
    BY DEF IInv, TypeOK
  <2> QED BY <1>1, <1>2, <2>1, <2>2, <2>3 DEF Punctual
<1> QED BY <1>3, <1>4

LEMMA NextPunctual == IInv /\ Punctual /\ [Next]_vars => Punctual'
<1> SUFFICES ASSUME IInv, Punctual, [Next]_vars PROVE Punctual'
  OBVIOUS
<1>1. CASE UNCHANGED vars
  BY <1>1 DEF vars, clock, history, Punctual, Served, RoundFits, Busy
<1> QED
  BY <1>1, TickPunctual, RoundPunctual, EndPunctual, OthersPunctual, ClockPunctual
  DEF Next, Scheduler

(* A day through which the process was up and the schedule enabled and     *)
(* unchanged has its batch (runScheduledIfDue), for any clock and faults,  *)
(* if rounds fit the window (RoundFits).                                   *)
THEOREM EveryDayServed == Spec => DayServed
<1>1. Init => Punctual
  BY DEF Init, Punctual, Busy, Up, Running
<1>2. IInv /\ Punctual /\ [Next]_vars =>
        [(today' # today /\ steady /\ mem.enabled /\ RoundFits)
           => today \in begun \/ (pc = "wait" /\ day = today)]_vars
  <2> SUFFICES ASSUME IInv, Punctual, Next, today' # today, steady, mem.enabled, RoundFits,
                      ~Served
               PROVE  FALSE
    BY DEF Served
  <2>1. Midnight
    BY DEF Next, Scheduler, Boot, TickNotDue, TickDone, TickDue, Begin, BeginBatch, EndBatch,
       Mark, Verified, Unverified, Rewrite, EndRechecks, Step, Edit, SaveOther, BeginManual,
       EndManual, Handler, Crash, NextSlot, clock
  <2>2. slot = LastSlot /\ (pc = "idle" => ticked) /\ (Busy => spent < Round)
    BY <2>1 DEF Midnight, Pass, Timely
  <2>3. pc = "idle" \/ Busy
    BY DEF Punctual, Busy
  <2>4. CASE pc = "idle"
    BY <2>2, <2>4, SlotTypes DEF Punctual, IInv
  <2>5. CASE Busy
    <3>1. slot - spent < mem.time /\ mem.time + Round <= LastSlot + 1
      BY <2>5 DEF Punctual, RoundFits
    <3> QED BY <2>2, <2>5, <3>1, SlotTypes DEF IInv
  <2> QED BY <2>3, <2>4, <2>5
<1> QED BY <1>1, <1>2, InitInvariant, StepInvariant, NextPunctual, PTL DEF Spec, DayServed
=============================================================================
