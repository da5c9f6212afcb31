---------------------------- MODULE DailySchedule ---------------------------
(***************************************************************************)
(* internal/service: the scheduler goroutine.  On every tick it runs the   *)
(* daily batch if the Beijing clock is inside the window that opens at     *)
(* ScheduleTime, marks the day as done, and works off the rechecks that    *)
(* are due.  The marker LastScheduledDay is set in memory first and is     *)
(* written by a save that may fail; a later tick repairs only the save.    *)
(* Handlers edit the settings, save the state and run batches of their own *)
(* meanwhile, and the process may be killed and started again.             *)
(***************************************************************************)
EXTENDS Integers

CONSTANTS LastDay,  \* bound: the last day of a run
          LastSlot, \* a day is the slots 0 .. LastSlot, each longer than a tick
          Window,   \* the 30 minutes of runScheduledIfDue, in slots
          Round,    \* assumed: the midnights and slots one round of the loop may see pass
          Faults    \* the faults that may happen: "save", "read", "crash"

ASSUME ClockAssumption == /\ LastDay \in Nat \ {0} /\ LastSlot \in Nat
                          /\ Window \in Nat /\ Round \in Nat
ASSUME FaultsAssumption == Faults \subseteq {"save", "read", "crash"}

VARIABLES today, slot, \* the Beijing clock
          ticked,      \* a round of the scheduler began in this slot
          spent,       \* the slots that passed since the round began
          mem, disk,   \* Service.state.Settings and its copy in state.bin
          pc,          \* the next step of the scheduler, "off": no process
          day,         \* runScheduledIfDue's day
          manual,      \* a handler's RunAll holds runMu
          runs,        \* history: the scheduled batches of each day, in this process
          begun,       \* history: the days whose scheduled batch was begun, ever
          written,     \* history: the days whose marker reached the disk
          steady       \* history: up, and on the same schedule, since midnight

clock   == <<today, slot, ticked, spent>>
history == <<runs, begun, written, steady>>
vars == <<clock, mem, disk, pc, day, manual, history>>

Days  == 1 .. LastDay
Slots == 0 .. LastSlot
Settings == [enabled: BOOLEAN, time: Slots, lastScheduledDay: {0} \cup Days]

Running == {"batch", "mark"}
Up == {"idle", "wait", "verify", "rewrite", "rechecks"} \cup Running

TypeOK ==
  /\ today \in Days /\ slot \in Slots
  /\ ticked \in BOOLEAN /\ spent \in 0 .. Round
  /\ mem \in Settings /\ disk \in Settings
  /\ pc \in Up \cup {"off"}
  /\ day \in {0} \cup Days
  /\ manual \in BOOLEAN
  /\ runs \in [Days -> Nat]
  /\ begun \subseteq Days /\ written \subseteq Days
  /\ steady \in BOOLEAN

Init ==
  /\ today = 1 /\ slot = 0
  /\ ticked = FALSE /\ spent = 0
  /\ disk \in {s \in Settings : s.lastScheduledDay = 0}
  /\ mem = disk
  /\ pc = "off"
  /\ day = 0
  /\ manual = FALSE
  /\ runs = [d \in Days |-> 0]
  /\ begun = {} /\ written = {}
  /\ steady = FALSE

-----------------------------------------------------------------------------
(* store.Save of the state with the settings s: it succeeds or fails.      *)
Write(s) == disk' = s /\ written' = written \cup ({s.lastScheduledDay} \ {0})
WriteFails == "save" \in Faults /\ UNCHANGED <<disk, written>>

(* New: the settings are what the file holds, and no lock is taken yet.    *)
Boot ==
  /\ pc = "off"
  /\ mem' = disk
  /\ pc' = "idle"
  /\ ticked' = FALSE /\ spent' = 0 /\ day' = 0
  /\ runs' = [d \in Days |-> 0]
  /\ steady' = (slot = 0)
  /\ UNCHANGED <<today, slot, disk, manual, begun, written>>

(* Mutated Due: the last minute of the window is left out.                 *)
DueExclusive(s) ==
  /\ s.enabled
  /\ s.time <= slot /\ slot < s.time + Window

(* now is inside the window of the same calendar day.                      *)
Due(s) ==
  /\ s.enabled
  /\ s.time <= slot /\ slot <= s.time + Window

(* A tick: runScheduledIfDue reads the settings and the clock.             *)
Begin(step) ==
  /\ pc = "idle"
  /\ pc' = step
  /\ ticked' = TRUE /\ spent' = 0
  /\ UNCHANGED <<today, slot, mem, manual, runs, begun, steady>>

TickNotDue ==
  /\ Begin("rechecks")
  /\ ~Due(mem)
  /\ UNCHANGED <<disk, written, day>>

TickDone ==
  /\ Begin("verify")
  /\ Due(mem) /\ mem.lastScheduledDay = today
  /\ day' = today
  /\ UNCHANGED <<disk, written>>

(* The line written to the log saves the state, or is rolled back.         *)
TickDue ==
  /\ Begin("wait")
  /\ Due(mem) /\ mem.lastScheduledDay # today
  /\ day' = today
  /\ Write(mem) \/ WriteFails

Step(from, to) ==
  /\ pc = from
  /\ pc' = to
  /\ UNCHANGED <<clock, day, manual, steady>>

(* RunAll takes runMu.                                                     *)
BeginBatch ==
  /\ Step("wait", "batch")
  /\ ~manual
  /\ runs' = [runs EXCEPT ![day] = @ + 1]
  /\ begun' = begun \cup {day}
  /\ UNCHANGED <<mem, disk, written>>

EndBatch ==
  /\ Step("batch", "mark")
  /\ UNCHANGED <<mem, disk, runs, begun, written>>

(* Mutated Mark: the marker is rolled back when it could not be saved.     *)
MarkRolledBack ==
  /\ Step("mark", "rechecks")
  /\ UNCHANGED <<runs, begun>>
  /\ \/ mem' = [mem EXCEPT !.lastScheduledDay = day] /\ Write(mem')
     \/ WriteFails /\ UNCHANGED mem

(* Mutated Mark: the day is taken when the batch has ended.                *)
MarkToday ==
  /\ Step("mark", "rechecks")
  /\ mem' = [mem EXCEPT !.lastScheduledDay = today]
  /\ Write(mem') \/ WriteFails
  /\ UNCHANGED <<runs, begun>>

(* LastScheduledDay is set, and kept in memory whether the save succeeds.  *)
Mark ==
  /\ Step("mark", "rechecks")
  /\ mem' = [mem EXCEPT !.lastScheduledDay = day]
  /\ Write(mem') \/ WriteFails
  /\ UNCHANGED <<runs, begun>>

(* store.Load: the file holds the marker, or lacks it or cannot be read.   *)
Verified ==
  /\ Step("verify", "rechecks")
  /\ disk.lastScheduledDay = day
  /\ UNCHANGED <<mem, disk, runs, begun, written>>

Unverified ==
  /\ Step("verify", "rewrite")
  /\ disk.lastScheduledDay # day \/ "read" \in Faults
  /\ UNCHANGED <<mem, disk, runs, begun, written>>

(* Under the lock again: only the save is done over.                       *)
Rewrite ==
  /\ Step("rewrite", "rechecks")
  /\ \/ mem.lastScheduledDay = day /\ (Write(mem) \/ WriteFails)
     \/ mem.lastScheduledDay # day /\ UNCHANGED <<disk, written>>
  /\ UNCHANGED <<mem, runs, begun>>

(* runPendingRechecks has returned: the goroutine waits for the ticker.    *)
EndRechecks ==
  /\ Step("rechecks", "idle")
  /\ UNCHANGED <<mem, disk, runs, begun, written>>

-----------------------------------------------------------------------------
Handler ==
  /\ pc \in Up
  /\ UNCHANGED <<clock, pc, day, runs, begun>>

(* Mutated Edit: the settings are built from the request alone.            *)
EditAfresh(s) ==
  /\ Handler
  /\ mem' = [s EXCEPT !.lastScheduledDay = 0]
  /\ Write(mem')
  /\ steady' = FALSE
  /\ UNCHANGED manual

(* UpdateSettings: memory follows only a save that succeeded.              *)
Edit(s) ==
  /\ Handler
  /\ mem' = [s EXCEPT !.lastScheduledDay = mem.lastScheduledDay]
  /\ Write(mem')
  /\ steady' = FALSE
  /\ UNCHANGED manual

(* Any other handler that saves the state.                                 *)
SaveOther ==
  /\ Handler
  /\ Write(mem)
  /\ UNCHANGED <<mem, manual, steady>>

(* RunAll for a click.  The scheduler's own batch holds runMu too.         *)
BeginManual ==
  /\ Handler
  /\ ~manual /\ pc # "batch"
  /\ manual' = TRUE
  /\ UNCHANGED <<mem, disk, written, steady>>

EndManual ==
  /\ Handler
  /\ manual
  /\ manual' = FALSE
  /\ UNCHANGED <<mem, disk, written, steady>>

Crash ==
  /\ "crash" \in Faults
  /\ pc \in Up
  /\ pc' = "off"
  /\ manual' = FALSE
  /\ steady' = FALSE
  /\ UNCHANGED <<clock, mem, disk, day, runs, begun, written>>

(* The clock moves on.  An idle scheduler has ticked in every slot; a round *)
(* of the loop, the wait for runMu included, sees at most Round slots pass. *)
Busy == pc \in Up \ {"idle"}
Timely ==
  /\ pc = "idle" => ticked
  /\ Busy => spent < Round

Pass ==
  /\ Timely
  /\ ticked' = FALSE
  /\ spent' = IF Busy THEN spent + 1 ELSE spent
  /\ UNCHANGED <<mem, disk, pc, day, manual, runs, begun, written>>

NextSlot ==
  /\ Pass
  /\ slot < LastSlot
  /\ slot' = slot + 1
  /\ UNCHANGED <<today, steady>>

Midnight ==
  /\ Pass
  /\ slot = LastSlot /\ today < LastDay
  /\ today' = today + 1 /\ slot' = 0
  /\ steady' = (pc # "off")

Scheduler ==
  \/ TickNotDue \/ TickDone \/ TickDue
  \/ BeginBatch \/ EndBatch \/ Mark
  \/ Verified \/ Unverified \/ Rewrite \/ EndRechecks

Next ==
  \/ Boot \/ Scheduler
  \/ \E s \in Settings : Edit(s)
  \/ SaveOther \/ BeginManual \/ EndManual
  \/ Crash \/ NextSlot \/ Midnight

Spec == Init /\ [][Next]_vars

-----------------------------------------------------------------------------
(* A process never runs the daily batch of a day twice, although the save  *)
(* of its marker may fail again and again (runScheduledIfDue).             *)
OncePerProcess == \A d \in Days : runs[d] <= 1

(* Once the marker of a day is on disk no process begins the batch of that *)
(* day again, whatever is edited, saved or killed in between.              *)
NotAfterWritten ==
  [][\A d \in written : runs'[d] <= runs[d]]_vars

(* The marker only ever names a day whose batch was begun: a batch that    *)
(* runs past midnight does not cost the next day its own.                  *)
MarkerHonest ==
  /\ mem.lastScheduledDay \in begun \cup {0}
  /\ disk.lastScheduledDay \in begun \cup {0}

(* A day on which the process was up and the schedule stood unchanged and  *)
(* enabled does not end without its batch, if no round of the loop lasts   *)
(* longer than the window and the window does not reach midnight before    *)
(* such a round can end.                                                   *)
RoundFits == Round <= Window + 1 /\ mem.time + Round <= LastSlot + 1
DayServed ==
  [][(today' # today /\ steady /\ mem.enabled /\ RoundFits)
       => today \in begun \/ (pc = "wait" /\ day = today)]_vars
=============================================================================
