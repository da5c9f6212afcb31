---------------------------- MODULE InstanceLock ----------------------------
(***************************************************************************)
(* internal/instance: the lock on one data directory, in its three builds. *)
(* Unix locks an open file description (flock), Solaris and AIX a process  *)
(* (fcntl) behind a table of the process's own locks, Windows opens the    *)
(* file without sharing.  Acquire and Close are taken one system call or   *)
(* critical section at a time, by any number of goroutines in any number   *)
(* of processes, each of which may die at any moment.                      *)
(***************************************************************************)
CONSTANTS Processes,  \* processes that use the directory
          Acquirers,  \* callers of Acquire
          ProcessOf,  \* the process a caller runs in
          Unlocked    \* nobody holds the lock of the file

ASSUME ProcessOfAssumption == ProcessOf \in [Acquirers -> Processes]
ASSUME NamesAssumption ==
  /\ Acquirers \cap Processes = {}
  /\ Unlocked \notin Acquirers \cup Processes

VARIABLES build,   \* the platform of the binary
          guard,   \* processLocks of each process: it has the path
          holder,  \* what the operating system lets hold the file's lock
          at       \* how far each caller has come

lockVars == <<build, guard, holder, at>>

Builds == {"flock", "fcntl", "share"}
Places == {"out", "open", "lock", "held", "refused", "unlocked", "closed"}

LockTypeOK ==
  /\ build \in Builds
  /\ guard \in [Processes -> BOOLEAN]
  /\ holder \in Acquirers \cup Processes \cup {Unlocked}
  /\ at \in [Acquirers -> Places]

LockInit ==
  /\ build \in Builds
  /\ guard = [p \in Processes |-> FALSE]
  /\ holder = Unlocked
  /\ at = [a \in Acquirers |-> "out"]

-----------------------------------------------------------------------------
(* What owns the lock that a takes: its descriptor or its process.         *)
Owner(a) == IF build = "fcntl" THEN ProcessOf[a] ELSE a

(* The lock once a has given it up or closed a descriptor of the file: an  *)
(* fcntl lock goes with whichever descriptor its process closes.           *)
Dropped(a) == IF holder = Owner(a) THEN Unlocked ELSE holder

Goes(a, place) == at' = [at EXCEPT ![a] = place]

(* Where a closed descriptor leads: fcntl has its table to tidy.           *)
AfterClose == IF build = "fcntl" THEN "closed" ELSE "out"

SetGuard(a, there) == guard' = [guard EXCEPT ![ProcessOf[a]] = there]

(* Mutated Enter: no table, the descriptor's lock is trusted.              *)
EnterUnguarded(a) ==
  /\ at[a] = "out"
  /\ Goes(a, "open")
  /\ UNCHANGED <<build, guard, holder>>

(* Acquire up to the opening of the file: a path that is in the table of   *)
(* the process is refused.                                                 *)
Enter(a) ==
  /\ at[a] = "out"
  /\ IF build = "fcntl"
       THEN ~guard[ProcessOf[a]] /\ SetGuard(a, TRUE)
       ELSE UNCHANGED guard
  /\ Goes(a, "open")
  /\ UNCHANGED <<build, holder>>

(* Windows opens and locks at once, and fails while the file is open.      *)
Open(a) ==
  /\ at[a] = "open"
  /\ IF build = "share"
       THEN /\ holder' = IF holder = Unlocked THEN a ELSE holder
            /\ Goes(a, IF holder = Unlocked THEN "held" ELSE "out")
       ELSE Goes(a, "lock") /\ UNCHANGED holder
  /\ UNCHANGED <<build, guard>>

(* Mutated OpenFails: the early return leaves the path in the table.       *)
OpenFailsGuarded(a) ==
  /\ at[a] = "open"
  /\ Goes(a, "out")
  /\ UNCHANGED <<build, guard, holder>>

(* The file cannot be opened: the path leaves the table again.             *)
OpenFails(a) ==
  /\ at[a] = "open"
  /\ Goes(a, "out")
  /\ IF build = "fcntl" THEN SetGuard(a, FALSE) ELSE UNCHANGED guard
  /\ UNCHANGED <<build, holder>>

(* flock(LOCK_EX|LOCK_NB) or F_SETLK: neither waits.                       *)
Lock(a) ==
  /\ at[a] = "lock"
  /\ holder \in {Unlocked, Owner(a)}
  /\ holder' = Owner(a)
  /\ Goes(a, "held")
  /\ UNCHANGED <<build, guard>>

(* Another holds it, or the call fails for a reason of its own.            *)
LockFails(a) ==
  /\ at[a] = "lock"
  /\ Goes(a, "refused")
  /\ UNCHANGED <<build, guard, holder>>

(* Mutated Unlock: Close takes the path out of the table first.            *)
UnlockForgets(a) ==
  /\ at[a] = "held"
  /\ build # "share"
  /\ Goes(a, "unlocked")
  /\ holder' = Dropped(a)
  /\ SetGuard(a, FALSE)
  /\ UNCHANGED build

(* Close begins by unlocking; an error of that call is only reported.      *)
Unlock(a) ==
  /\ at[a] = "held"
  /\ build # "share"
  /\ Goes(a, "unlocked")
  /\ holder' \in {holder, Dropped(a)}
  /\ UNCHANGED <<build, guard>>

(* The descriptor is closed: the last step of Close, the only one on       *)
(* Windows, and the way out of an Acquire that got no lock.                *)
CloseFile(a) ==
  /\ \/ at[a] \in {"refused", "unlocked"}
     \/ at[a] = "held" /\ build = "share"
  /\ holder' = Dropped(a)
  /\ Goes(a, AfterClose)
  /\ UNCHANGED <<build, guard>>

(* fcntl: delete(processLocks, path), after the descriptor was closed.     *)
Forget(a) ==
  /\ at[a] = "closed"
  /\ SetGuard(a, FALSE)
  /\ Goes(a, "out")
  /\ UNCHANGED <<build, holder>>

(* A process dies and another takes its place: the operating system closes *)
(* its descriptors, its memory is gone.                                    *)
Die(p) ==
  LET its == {a \in Acquirers : ProcessOf[a] = p} IN
  /\ at' = [a \in Acquirers |-> IF a \in its THEN "out" ELSE at[a]]
  /\ holder' = IF holder \in its \cup {p} THEN Unlocked ELSE holder
  /\ guard' = [guard EXCEPT ![p] = FALSE]
  /\ UNCHANGED build

Caller(a) ==
  \/ Enter(a) \/ Open(a) \/ OpenFails(a) \/ Lock(a) \/ LockFails(a)
  \/ Unlock(a) \/ CloseFile(a) \/ Forget(a)

LockNext ==
  \/ \E a \in Acquirers : Caller(a)
  \/ \E p \in Processes : Die(p)

LockSpec == LockInit /\ [][LockNext]_lockVars

-----------------------------------------------------------------------------
(* At most one caller anywhere has what Acquire returned, in one process   *)
(* or in several, on every platform.                                       *)
OneOwner ==
  \A a, b \in Acquirers : at[a] = "held" /\ at[b] = "held" => a = b

(* Nothing outlives its use: a lock or an entry in a table always belongs  *)
(* to a caller that is still at it, so that a directory nobody holds or    *)
(* tries can be locked, whatever failed or died before.                    *)
TablesUsed ==
  \A p \in Processes : guard[p] =>
    \E a \in Acquirers : ProcessOf[a] = p /\ at[a] # "out"

LockUsed ==
  holder # Unlocked =>
    \E a \in Acquirers : holder = Owner(a) /\ at[a] \in {"held", "unlocked"}

NothingLeftLocked == TablesUsed /\ LockUsed
=============================================================================
