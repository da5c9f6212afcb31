------------------------------ MODULE Register ------------------------------
(***************************************************************************)
(* What internal/store promises to the service: a durable register.  A     *)
(* Save either commits the new state at one instant or leaves the old one  *)
(* there; it reports success exactly when it committed; a crash at any     *)
(* moment leaves a state that the next Load returns.  What was not saved   *)
(* leaves memory again, but for the saves that say they keep it.           *)
(* StateFile implements this with a file, a temporary file and a backup.   *)
(***************************************************************************)
CONSTANTS States,     \* states that can be saved
          Unreadable, \* what Load answers when it can find no state
          NoState     \* no process, hence no state in memory

VARIABLES disk,   \* what Load returns
          mem,    \* the state in the memory of the running process
          next,   \* the state handed to the Save under way
          keeps,  \* that state stays in memory even when it is refused
          phase   \* "down", "idle", "saving" or "committed"

vars == <<disk, mem, next, keeps, phase>>

Init ==
  /\ disk \in States \cup {Unreadable}
  /\ mem = NoState
  /\ next = NoState
  /\ keeps = FALSE
  /\ phase = "down"

(* The process starts: Load, then the Save of the state it loaded.         *)
Start ==
  /\ phase = "down"
  /\ disk \in States
  /\ phase' = "saving"
  /\ mem' = disk
  /\ next' = disk
  /\ UNCHANGED <<disk, keeps>>

Begin(s, k) ==
  /\ phase = "idle"
  /\ phase' = "saving"
  /\ next' = s
  /\ keeps' = k
  /\ UNCHANGED <<disk, mem>>

Commit ==
  /\ phase = "saving"
  /\ phase' = "committed"
  /\ disk' = next
  /\ UNCHANGED <<mem, next, keeps>>

(* Save returned nil: it was committed, and is in memory.                  *)
Ack ==
  /\ phase = "committed"
  /\ phase' = "idle"
  /\ mem' = next
  /\ next' = NoState /\ keeps' = FALSE
  /\ UNCHANGED disk

(* Save returned an error: nothing was committed, and memory is what it    *)
(* was before, unless the save keeps its state there.                      *)
Refuse ==
  /\ phase = "saving"
  /\ phase' = "idle"
  /\ mem' = IF keeps THEN next ELSE mem
  /\ next' = NoState /\ keeps' = FALSE
  /\ UNCHANGED disk

(* The process ends: killed at any moment, or it gives up because the Save *)
(* of its start-up failed.                                                 *)
Stop ==
  /\ phase # "down"
  /\ phase' = "down"
  /\ mem' = NoState
  /\ next' = NoState /\ keeps' = FALSE
  /\ UNCHANGED disk

Next ==
  \/ Start \/ Commit \/ Ack \/ Refuse \/ Stop
  \/ \E s \in States, k \in BOOLEAN : Begin(s, k)

Spec == Init /\ [][Next]_vars
=============================================================================
