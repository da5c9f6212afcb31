-------------------------- MODULE StateFileProofs ---------------------------
(***************************************************************************)
(* Theorems about StateFile for every set of states and of failing calls.  *)
(* The store is atomic as long as the rename that puts the old file back   *)
(* does not fail and what was written stays readable; the inductive        *)
(* invariant says, step by step of writeRaw, which file holds which state. *)
(***************************************************************************)
EXTENDS StateFile, TLAPS

(* A running process has a state in memory, and a Save under way has the   *)
(* state it was given.                                                     *)
Loaded == (pc # "down" => mem \in States) /\ (pc \in WriteSteps => next \in States)

TInv == TypeOK /\ Loaded

(* A Load that succeeds returns a state, whatever the files hold.          *)
LEMMA LoadedState == \A r \in LoadOutcomes \ {Error} : r \in States
  BY DEF LoadOutcomes, Recoverable, Load, States

LEMMA InitTyped == Init => TInv
  BY DEF Init, TInv, TypeOK, Loaded, States, Contents, WriteSteps, Absent, Future,
         NoState

LEMMA NextTyped == TInv /\ [Next]_vars => TInv'
<1> SUFFICES ASSUME TInv, [Next]_vars PROVE TInv'
  OBVIOUS
<1> USE DEF TInv, TypeOK, Loaded, States, Contents, WriteSteps, Goto, Fail, Removed,
            Promote
<1>1. CASE Boot
  <2>1. mem' \in States /\ next' \in States
    BY <1>1, LoadedState DEF Boot
  <2> QED BY <1>1, <2>1 DEF Boot, Absent
<1>2. CASE BootRefused
  BY <1>2 DEF BootRefused, vars
<1>3. CASE Reload
  BY <1>3 DEF Reload, Absent
<1>4. CASE \E s \in Values : Save(s) \/ SaveMarker(s)
  BY <1>4 DEF Save, SaveMarker, BeginSave
<1>5. CASE WriteTmp
  BY <1>5 DEF WriteTmp
<1>6. CASE WriteTmpFails
  BY <1>6 DEF WriteTmpFails, Torn
<1>7. CASE Unlink \/ UnlinkFails
  BY <1>7 DEF Unlink, UnlinkFails, Absent
<1>8. CASE Stage \/ StageFails
  BY <1>8 DEF Stage, StageFails, Absent
<1>9. CASE Replace \/ ReplaceFails
  BY <1>9 DEF Replace, ReplaceFails, Absent
<1>10. CASE Restore \/ RestoreFails
  BY <1>10 DEF Restore, RestoreFails, files, Absent
<1>11. CASE Cleanup
  BY <1>11 DEF Cleanup, Absent
<1>12. CASE Crash
  BY <1>12 DEF Crash, Torn, NoState
<1>13. CASE Damage
  <2>1. path' \in Contents
    BY <1>13 DEF Damage, Torn
  <2>2. /\ healthy' \in BOOLEAN
        /\ UNCHANGED <<bak, tmp, pc, booting, mem, next, keeps, ahead, durable>>
    BY <1>13 DEF Damage
  <2> QED BY <2>1, <2>2
<1>14. CASE UNCHANGED vars
  BY <1>14 DEF vars
<1> QED
  BY <1>1, <1>2, <1>3, <1>4, <1>5, <1>6, <1>7, <1>8, <1>9, <1>10, <1>11, <1>12,
     <1>13, <1>14 DEF Next

(* Every variable keeps to its values, whichever calls fail.               *)
THEOREM TypeCorrect == Spec => []TypeOK
<1>1. TInv => TypeOK
  BY DEF TInv
<1> QED
  BY <1>1, InitTyped, NextTyped, PTL DEF Spec

-----------------------------------------------------------------------------
(* What may be renamed into place is complete.                             *)
Whole == NeverTorn /\ (pc \in {"unlink", "stage", "replace"} => tmp = next)

LEMMA NextWhole ==
  ASSUME "damage" \notin Faults
  PROVE  TInv /\ Whole /\ [Next]_vars => Whole'
<1> SUFFICES ASSUME TInv, Whole, [Next]_vars PROVE Whole'
  OBVIOUS
<1> USE DEF TInv, Loaded, Whole, NeverTorn, States, WriteSteps, Goto, Fail, Promote,
            Absent, Torn, Empty, Future, NoState, Error
<1>1. CASE Boot
  BY <1>1, ValuesAssumption DEF Boot
<1>2. CASE BootRefused \/ UNCHANGED vars
  BY <1>2 DEF BootRefused, vars
<1>3. CASE Reload
  BY <1>3, ValuesAssumption DEF Reload
<1>4. CASE \E s \in Values : Save(s) \/ SaveMarker(s)
  BY <1>4 DEF Save, SaveMarker, BeginSave
<1>5. CASE WriteTmp \/ WriteTmpFails
  BY <1>5 DEF WriteTmp, WriteTmpFails
<1>6. CASE Unlink \/ UnlinkFails
  BY <1>6 DEF Unlink, UnlinkFails
<1>7. CASE Stage \/ StageFails
  BY <1>7 DEF Stage, StageFails
<1>8. CASE Replace \/ ReplaceFails
  BY <1>8, ValuesAssumption DEF Replace, ReplaceFails
<1>9. CASE Restore \/ RestoreFails
  BY <1>9 DEF Restore, RestoreFails, files
<1>10. CASE Cleanup
  BY <1>10 DEF Cleanup, Removed
<1>11. CASE Crash
  BY <1>11 DEF Crash
<1>12. CASE Damage
  BY <1>12 DEF Damage
<1> QED
  BY <1>1, <1>2, <1>3, <1>4, <1>5, <1>6, <1>7, <1>8, <1>9, <1>10, <1>11, <1>12
  DEF Next

(* Whatever call of writeRaw fails and whenever the process is killed,     *)
(* neither state.bin nor its backup is ever half-written, unless something *)
(* outside the program damages them.                                       *)
THEOREM NoTornFile ==
  ASSUME "damage" \notin Faults
  PROVE  Spec => []NeverTorn
<1>1. Init => Whole
  BY ValuesAssumption DEF Init, Whole, NeverTorn, States, Absent, Torn, Future, Empty
<1>2. TInv /\ Whole /\ [Next]_vars => Whole'
  BY NextWhole
<1>3. Whole => NeverTorn
  BY DEF Whole
<1> QED
  BY <1>1, <1>2, <1>3, InitTyped, NextTyped, PTL DEF Spec

-----------------------------------------------------------------------------
(* A store whose files stay readable and whose rename back never fails.    *)
Reliable == {"restore", "read", "damage"} \cap Faults = {}

(* Which file holds the state a restart would load at each step of         *)
(* writeRaw: the last acknowledged one or, while service.New saves it back,*)
(* the one that was loaded; and when memory holds that state too.          *)
Held ==
  /\ pc # "down" => path \in States \cup {Absent}
  /\ pc \in {"idle", "write", "unlink"} => (path = Absent => bak = Absent)
  /\ pc = "stage" => bak = Absent
  /\ pc \in {"replace", "restore"} => path = Absent
  /\ pc = "cleanup" => path = next
  /\ pc \notin {"down", "cleanup"} => Recoverable = IF booting THEN mem ELSE durable
  /\ pc = "idle" => ~booting
  /\ pc = "down" => ~keeps /\ ~ahead
  /\ booting => mem = next /\ ~keeps /\ ~ahead
  /\ pc # "down" /\ ~booting /\ ~ahead => mem = durable

IInv == TInv /\ Whole /\ Held

LEMMA NextHeld ==
  ASSUME Reliable
  PROVE  IInv /\ [Next]_vars => Held'
<1> SUFFICES ASSUME IInv, [Next]_vars PROVE Held'
  OBVIOUS
<1>0. booting \in BOOLEAN /\ keeps \in BOOLEAN /\ ahead \in BOOLEAN
  BY DEF IInv, TInv, TypeOK
<1> USE ValuesAssumption, <1>0
<1> USE DEF Reliable, IInv, TInv, Loaded, Whole, NeverTorn, Held, Recoverable, Load,
            States, WriteSteps, Goto, Fail, Promote, Absent, Torn, Empty, Future,
            NoState, Error
<1>1. CASE Boot
  BY <1>1 DEF Boot, LoadOutcomes, TypeOK, Contents
<1>2. CASE BootRefused \/ UNCHANGED vars
  BY <1>2 DEF BootRefused, vars
<1>3. CASE Reload
  BY <1>3 DEF Reload
<1>4. CASE \E s \in Values : Save(s) \/ SaveMarker(s)
  BY <1>4 DEF Save, SaveMarker, BeginSave
<1>5. CASE WriteTmp \/ WriteTmpFails
  BY <1>5 DEF WriteTmp, WriteTmpFails
<1>6. CASE Unlink \/ UnlinkFails
  BY <1>6 DEF Unlink, UnlinkFails
<1>7. CASE Stage \/ StageFails
  BY <1>7 DEF Stage, StageFails
<1>8. CASE Replace \/ ReplaceFails
  BY <1>8 DEF Replace, ReplaceFails
<1>9. CASE Restore \/ RestoreFails
  BY <1>9 DEF Restore, RestoreFails, files, TypeOK, Contents
<1>10. CASE Cleanup
  BY <1>10 DEF Cleanup, Removed
<1>11. CASE Crash
  BY <1>11 DEF Crash
<1>12. CASE Damage
  BY <1>12 DEF Damage
<1> QED
  BY <1>1, <1>2, <1>3, <1>4, <1>5, <1>6, <1>7, <1>8, <1>9, <1>10, <1>11, <1>12
  DEF Next

LEMMA IInvariant ==
  ASSUME Reliable
  PROVE  Spec => []IInv
<1>1. Init => IInv
  <2>1. Init => Whole
    BY ValuesAssumption DEF Init, Whole, NeverTorn, States, Absent, Torn, Future, Empty
  <2>2. Init => Held
    BY DEF Init, Held
  <2> QED BY <2>1, <2>2, InitTyped DEF IInv
<1>2. IInv /\ [Next]_vars => IInv'
  <2>1. "damage" \notin Faults
    BY DEF Reliable
  <2> QED BY <2>1, NextTyped, NextWhole, NextHeld DEF IInv
<1> QED
  BY <1>1, <1>2, PTL DEF Spec

(* Between two saves a restart loads the state of the last Save that       *)
(* succeeded; memory holds that state too, unless a marker whose Save was  *)
(* refused is ahead of it.                                                 *)
THEOREM MemoryRecoverable ==
  ASSUME Reliable
  PROVE  Spec => []MemoryIsRecoverable
<1>1. IInv => MemoryIsRecoverable
  BY DEF IInv, Held, MemoryIsRecoverable
<1> QED
  BY <1>1, IInvariant, PTL

-----------------------------------------------------------------------------
LEMMA InitRefines == Init => Reg!Init
  BY ValuesAssumption
  DEF Init, Reg!Init, Disk, Phase, Recoverable, Load, States, WriteSteps, Absent, Torn,
      Future, Empty, Error

(* Every step of the store is a step of the register or changes nothing    *)
(* the register can see.                                                   *)
LEMMA NextRefines ==
  ASSUME Reliable
  PROVE  IInv /\ IInv' /\ [Next]_vars => [Reg!Next]_(Reg!vars)
<1> SUFFICES ASSUME IInv, IInv', [Next]_vars PROVE Reg!Next \/ UNCHANGED Reg!vars
  BY DEF Reg!vars
<1>0. ~RestoreFails /\ ~Damage
  BY DEF Reliable, RestoreFails, Damage
<1> USE ValuesAssumption
<1> USE DEF Reliable, IInv, TInv, Loaded, Whole, NeverTorn, Held, Disk, Phase,
            Recoverable, Load, States, WriteSteps, Goto, Fail, Promote, Absent, Torn,
            Empty, Future, NoState, Error
<1>1. CASE Boot
  <2>1. mem' = Disk /\ next' = Disk /\ Disk \in States
    BY <1>1 DEF Boot, LoadOutcomes, TypeOK, Contents
  <2>2. Disk' = Disk
    BY <1>1 DEF Boot, LoadOutcomes, TypeOK, Contents
  <2> QED BY <1>1, <2>1, <2>2 DEF Boot, Reg!Next, Reg!Start
<1>2. CASE BootRefused \/ UNCHANGED vars
  BY <1>2 DEF BootRefused, vars, Reg!vars
<1>3. CASE Reload
  BY <1>3 DEF Reload, Reg!vars
<1>4. CASE \E s \in Values : Save(s) \/ SaveMarker(s)
  BY <1>4 DEF Save, SaveMarker, BeginSave, Reg!Next, Reg!Begin
<1>5. CASE WriteTmp \/ Unlink \/ Stage
  BY <1>5 DEF WriteTmp, Unlink, Stage, Reg!vars
<1>6. CASE WriteTmpFails \/ UnlinkFails \/ StageFails
  BY <1>6 DEF WriteTmpFails, UnlinkFails, StageFails, Reg!Next, Reg!Refuse, Reg!Stop
<1>7. CASE Replace
  BY <1>7 DEF Replace, Reg!Next, Reg!Commit
<1>8. CASE ReplaceFails
  BY <1>8 DEF ReplaceFails, Reg!vars
<1>9. CASE Restore
  <2>1. Disk' = Disk
    BY <1>9 DEF Restore, TypeOK, Contents
  <2> QED BY <1>9, <2>1 DEF Restore, Reg!Next, Reg!Refuse, Reg!Stop
<1>10. CASE Cleanup
  BY <1>10 DEF Cleanup, Removed, Reg!Next, Reg!Ack
<1>11. CASE Crash
  BY <1>11 DEF Crash, Reg!Next, Reg!Stop
<1> QED
  BY <1>0, <1>1, <1>2, <1>3, <1>4, <1>5, <1>6, <1>7, <1>8, <1>9, <1>10, <1>11
  DEF Next

(* As long as the old file can be put back and what was written can be     *)
(* read, the store is a durable register: a Save commits at one instant or *)
(* not at all, and reports which.                                          *)
THEOREM StoreImplementsRegister ==
  ASSUME Reliable
  PROVE  Spec => ImplementsRegister
  BY InitRefines, NextRefines, IInvariant, PTL DEF Spec, ImplementsRegister, Reg!Spec

-----------------------------------------------------------------------------
(* No Load succeeds on the file of a newer binary, so none is ever there   *)
(* while a process runs.                                                   *)
NewerAlone ==
  /\ Future \in {path, bak} => pc = "down" /\ path \in {Future, Absent}
  /\ pc \in {"unlink", "stage", "replace"} => tmp = next

LEMMA NextNewer ==
  ASSUME "read" \notin Faults
  PROVE  TInv /\ NewerAlone /\ [Next]_vars =>
           NewerAlone' /\ (Future \in {path, bak} => Future \in {path', bak'})
<1> SUFFICES ASSUME TInv, NewerAlone, [Next]_vars
             PROVE  NewerAlone' /\ (Future \in {path, bak} => Future \in {path', bak'})
  OBVIOUS
<1> USE ValuesAssumption
<1> USE DEF TInv, Loaded, NewerAlone, States, WriteSteps, Goto, Fail, Promote,
            Absent, Torn, Empty, Future, NoState, Error
<1>1. CASE Boot
  BY <1>1 DEF Boot, LoadOutcomes, Recoverable, Load
<1>2. CASE BootRefused \/ UNCHANGED vars
  BY <1>2 DEF BootRefused, vars
<1>3. CASE Reload
  BY <1>3 DEF Reload
<1>4. CASE \E s \in Values : Save(s) \/ SaveMarker(s)
  BY <1>4 DEF Save, SaveMarker, BeginSave
<1>5. CASE WriteTmp \/ WriteTmpFails
  BY <1>5 DEF WriteTmp, WriteTmpFails
<1>6. CASE Unlink \/ UnlinkFails
  BY <1>6 DEF Unlink, UnlinkFails
<1>7. CASE Stage \/ StageFails
  BY <1>7 DEF Stage, StageFails
<1>8. CASE Replace \/ ReplaceFails
  BY <1>8 DEF Replace, ReplaceFails
<1>9. CASE Restore \/ RestoreFails
  BY <1>9 DEF Restore, RestoreFails, files
<1>10. CASE Cleanup
  BY <1>10 DEF Cleanup, Removed
<1>11. CASE Crash
  BY <1>11 DEF Crash
<1>12. CASE Damage
  BY <1>12 DEF Damage
<1> QED
  BY <1>1, <1>2, <1>3, <1>4, <1>5, <1>6, <1>7, <1>8, <1>9, <1>10, <1>11, <1>12
  DEF Next

(* A state file that a newer binary wrote survives this one (errFutureState*)
(* in Load): whatever calls of writeRaw fail, as long as files can be read.*)
THEOREM NewerFileKept ==
  ASSUME "read" \notin Faults
  PROVE  Spec => FutureKept
<1>1. Init => NewerAlone
  BY ValuesAssumption DEF Init, NewerAlone, States, Absent, Torn, Future, Empty
<1>2. TInv /\ NewerAlone /\ [Next]_vars =>
        NewerAlone' /\ [(Future \in {path, bak}) => (Future \in {path', bak'})]_vars
  BY NextNewer
<1> QED
  BY <1>1, <1>2, InitTyped, NextTyped, PTL DEF Spec, FutureKept

-----------------------------------------------------------------------------
(* What was saved is in one place at least, and the fresh state in none,   *)
(* once something was acknowledged.                                        *)
Somewhere ==
  /\ pc \in {"unlink", "stage", "replace"} => tmp = next
  /\ pc = "cleanup" => path = next
  /\ durable \in Values =>
       /\ Empty \notin {path, bak, mem, next}
       /\ pc \notin {"down", "replace", "restore"} => path # Absent
       /\ path = Absent => bak # Absent

LEMMA NextSomewhere ==
  ASSUME "remove" \notin Faults
  PROVE  TInv /\ Somewhere /\ [Next]_vars => Somewhere' /\ AckIsRead
<1> SUFFICES ASSUME TInv, Somewhere, [Next]_vars PROVE Somewhere' /\ AckIsRead
  OBVIOUS
<1> USE ValuesAssumption
<1> USE DEF TInv, Loaded, Somewhere, AckIsRead, States, WriteSteps, Goto, Fail, Promote,
            Absent, Torn, Empty, Future, NoState, Error
<1>1. CASE Boot
  BY <1>1 DEF Boot, LoadOutcomes, Recoverable, Load
<1>2. CASE BootRefused \/ UNCHANGED vars
  BY <1>2 DEF BootRefused, vars
<1>3. CASE Reload
  BY <1>3 DEF Reload
<1>4. CASE \E s \in Values : Save(s) \/ SaveMarker(s)
  BY <1>4 DEF Save, SaveMarker, BeginSave
<1>5. CASE WriteTmp \/ WriteTmpFails
  BY <1>5 DEF WriteTmp, WriteTmpFails
<1>6. CASE Unlink \/ UnlinkFails
  BY <1>6 DEF Unlink, UnlinkFails
<1>7. CASE Stage \/ StageFails
  BY <1>7 DEF Stage, StageFails
<1>8. CASE Replace \/ ReplaceFails
  BY <1>8 DEF Replace, ReplaceFails
<1>9. CASE Restore \/ RestoreFails
  BY <1>9 DEF Restore, RestoreFails, files
<1>10. CASE Cleanup
  BY <1>10 DEF Cleanup, Removed, Recoverable, Load
<1>11. CASE Crash
  BY <1>11 DEF Crash
<1>12. CASE Damage
  BY <1>12 DEF Damage
<1> QED
  BY <1>1, <1>2, <1>3, <1>4, <1>5, <1>6, <1>7, <1>8, <1>9, <1>10, <1>11, <1>12
  DEF Next

(* Whatever call fails but a removal, and even if the primary is damaged   *)
(* from outside or cannot be read: what Save acknowledges is what a restart*)
(* would load, and acknowledged data never turns into the fresh state of a *)
(* first run (until a rename back fails, when NeverSilentlyReset gives up).*)
THEOREM AcknowledgedNeverReset ==
  ASSUME "remove" \notin Faults
  PROVE  Spec => [][NeverSilentlyReset' /\ AckIsRead]_vars
<1>1. Init => Somewhere
  BY ValuesAssumption DEF Init, Somewhere, NoState
<1>2. Somewhere => NeverSilentlyReset
  BY ValuesAssumption
  DEF Somewhere, NeverSilentlyReset, Recoverable, Load, States, Absent, Torn, Future, Empty, Error
<1>3. TInv /\ Somewhere /\ [Next]_vars => Somewhere' /\ AckIsRead
  BY NextSomewhere
<1> QED
  BY <1>1, <1>2, <1>3, InitTyped, NextTyped, PTL DEF Spec
=============================================================================
