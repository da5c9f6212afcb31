----------------------------- MODULE StateFile ------------------------------
(***************************************************************************)
(* internal/store: state.bin, its temporary file and its backup, written   *)
(* by writeRaw one file-system call at a time and read back by Load.       *)
(* Save and Load are serialised by store.mu, so one Save is under way at   *)
(* most; the process can be killed between any two calls and each call can *)
(* fail.  A file's content is abstracted to the state it decodes to, and   *)
(* the log line about a refused save is left out of the state.             *)
(***************************************************************************)
EXTENDS FiniteSets

CONSTANTS Values,  \* states other than the fresh one that the service saves
          Faults   \* the calls that may fail, and the damage that may occur

(* "damage" is a primary file that no longer decodes (storage fault, power *)
(* loss after an unsynced write, an outside program); the others name the  *)
(* file-system call of writeRaw or Load that returns an error.             *)
FaultKinds ==
  {"write", "remove", "stage", "replace", "restore", "read", "damage"}

Empty   == "empty"    \* model.NewState(), what Load answers on a first run
Absent  == "absent"   \* no such file
Torn    == "torn"     \* content that does not decode
Future  == "future"   \* written by a newer binary (errFutureState)
Error   == "error"    \* Load returned an error
NoState == "none"     \* nothing in memory

ASSUME ValuesAssumption ==
  Values \cap {Empty, Absent, Torn, Future, Error, NoState} = {}
ASSUME FaultsAssumption == Faults \subseteq FaultKinds

States   == Values \cup {Empty}
Contents == States \cup {Absent, Torn, Future}
WriteSteps == {"write", "unlink", "stage", "replace", "restore", "cleanup"}

VARIABLES path,     \* content of state.bin
          bak,      \* content of state.bin.bak
          tmp,      \* content of state.bin.tmp
          pc,       \* "down", "idle" or the next call of writeRaw
          booting,  \* the Save under way is the one of service.New
          mem,      \* Service.state
          next,     \* the state being saved
          keeps,    \* the Save under way leaves it in memory when it is refused
          ahead,    \* history: a refused Save left its state in memory, and none
                    \* succeeded since
          durable,  \* history: the state last acknowledged by Save,
                    \* given up when the rename back fails too
          healthy   \* history: a Load or Save succeeded since the last damage

files == <<path, bak, tmp>>
vars  == <<path, bak, tmp, pc, booting, mem, next, keeps, ahead, durable, healthy>>

-----------------------------------------------------------------------------
(* Mutated Load: a newer file falls back to the backup like a torn one.    *)
LoadDowngrades(p, b) ==
  CASE p \in States                     -> p
    [] p \in {Absent, Torn, Future} /\ b \in States -> b
    [] p = Absent /\ b = Absent         -> Empty
    [] OTHER                            -> Error

(* Mutated Load: no usable file means a fresh state.                       *)
LoadStartsAfresh(p, b) ==
  CASE p \in States                     -> p
    [] p = Future                       -> Error
    [] p \in {Absent, Torn} /\ b \in States -> b
    [] OTHER                            -> Empty

(* What Load returns when path holds p and the backup holds b.             *)
Load(p, b) ==
  CASE p \in States                     -> p
    [] p = Future                       -> Error
    [] p \in {Absent, Torn} /\ b \in States -> b
    [] p = Absent /\ b = Absent         -> Empty
    [] OTHER                            -> Error

(* What a Load would return now, every call succeeding.                    *)
Recoverable == Load(path, bak)

(* Unreadable files: a primary that cannot be read counts as not decoding, *)
(* and so does the backup.                                                 *)
LoadOutcomes ==
  {Recoverable} \cup
  (IF "read" \in Faults
     THEN {IF path = Absent THEN Recoverable ELSE Load(Torn, bak), Error}
     ELSE {})

(* The result of a best-effort os.Remove of a file that holds f.           *)
Removed(f) == IF "remove" \in Faults THEN {Absent, f} ELSE {Absent}

-----------------------------------------------------------------------------
TypeOK ==
  /\ path \in Contents
  /\ bak \in Contents
  /\ tmp \in Contents
  /\ pc \in WriteSteps \cup {"down", "idle"}
  /\ booting \in BOOLEAN
  /\ mem \in States \cup {NoState}
  /\ next \in States \cup {NoState}
  /\ keeps \in BOOLEAN
  /\ ahead \in BOOLEAN
  /\ durable \in States \cup {NoState}
  /\ healthy \in BOOLEAN

(* A data directory nobody used yet, one left by an earlier run, or one    *)
(* left by a newer binary, which may have been killed inside its own Save. *)
Init ==
  /\ \/ path \in States \cup {Absent} /\ bak = Absent
     \/ path = Future /\ bak \in States \cup {Absent}
     \/ path = Absent /\ bak = Future
  /\ tmp = Absent
  /\ pc = "down"
  /\ booting = FALSE
  /\ mem = NoState
  /\ next = NoState
  /\ keeps = FALSE
  /\ ahead = FALSE
  /\ durable = NoState
  /\ healthy = FALSE

(* Load promotes a validated backup when the primary is missing.  When the *)
(* rename fails Load returns an error and nothing has changed.             *)
Promote ==
  IF path = Absent /\ bak \in States
    THEN path' = bak /\ bak' = Absent
    ELSE UNCHANGED <<path, bak>>

(* service.New: Load, then Save of what was loaded.                        *)
Boot ==
  /\ pc = "down"
  /\ \E r \in LoadOutcomes \ {Error} :
       /\ mem' = r
       /\ next' = r
  /\ Promote
  /\ pc' = "write"
  /\ booting' = TRUE
  /\ healthy' = TRUE
  /\ UNCHANGED <<tmp, keeps, ahead, durable>>

(* Load returned an error: main reports it and exits, nothing is touched.  *)
BootRefused ==
  /\ pc = "down"
  /\ Error \in LoadOutcomes
  /\ UNCHANGED vars

(* A Load by the running process (the scheduler comparing its marker with  *)
(* the file): only the promotion leaves a trace.                           *)
Reload ==
  /\ pc = "idle"
  /\ Promote
  /\ UNCHANGED <<tmp, pc, booting, mem, next, keeps, ahead, durable, healthy>>

BeginSave(s, k) ==
  /\ pc = "idle"
  /\ pc' = "write"
  /\ next' = s
  /\ keeps' = k
  /\ UNCHANGED <<path, bak, tmp, booting, mem, ahead, durable, healthy>>

(* saveMutationLocked, or the candidate state of UpdateSettings.           *)
Save(s) == BeginSave(s, FALSE)

(* The scheduler's _ = s.saveLocked(): the day's marker, which stays in    *)
(* memory whether it is saved or not, or the retry of a later tick (s = mem*)
(* then).  DailySchedule says at which ticks.                              *)
SaveMarker(s) == BeginSave(s, TRUE)

(* Mutated Fail: every mutation stays in memory although it was not saved. *)
FailWithoutRollback ==
  /\ pc' = IF booting THEN "down" ELSE "idle"
  /\ mem' = IF booting THEN NoState ELSE next
  /\ ahead' = (ahead \/ keeps)
  /\ booting' = FALSE /\ next' = NoState /\ keeps' = FALSE
  /\ UNCHANGED healthy

(* writeRaw returned an error: New gives the process up; a running service *)
(* has the state before the mutation in memory again, or keeps the marker. *)
Fail ==
  /\ pc' = IF booting THEN "down" ELSE "idle"
  /\ mem' = CASE booting -> NoState [] keeps -> next [] OTHER -> mem
  /\ ahead' = (ahead \/ keeps)
  /\ booting' = FALSE /\ next' = NoState /\ keeps' = FALSE
  /\ UNCHANGED healthy

Goto(step) ==
  /\ pc' = step
  /\ UNCHANGED <<booting, mem, next, keeps, ahead, durable, healthy>>

WriteTmp ==
  /\ pc = "write"
  /\ tmp' = next
  /\ Goto("unlink")
  /\ UNCHANGED <<path, bak>>

(* MkdirAll, the check of the temporary file or WriteFile failed; a        *)
(* WriteFile that failed half-way leaves what it wrote.                    *)
WriteTmpFails ==
  /\ pc = "write"
  /\ "write" \in Faults
  /\ tmp' \in {tmp, Torn}
  /\ Fail
  /\ UNCHANGED <<path, bak, durable>>

(* removeRegularFile(backup)                                               *)
Unlink ==
  /\ pc = "unlink"
  /\ bak' = Absent
  /\ Goto("stage")
  /\ UNCHANGED <<path, tmp>>

UnlinkFails ==
  /\ pc = "unlink"
  /\ "remove" \in Faults
  /\ tmp' \in Removed(tmp)
  /\ Fail
  /\ UNCHANGED <<path, bak, durable>>

(* if hadOriginal, os.Rename(path, backup)                                 *)
Stage ==
  /\ pc = "stage"
  /\ IF path # Absent
       THEN bak' = path /\ path' = Absent
       ELSE UNCHANGED <<path, bak>>
  /\ Goto("replace")
  /\ UNCHANGED tmp

StageFails ==
  /\ pc = "stage"
  /\ "stage" \in Faults
  /\ path # Absent
  /\ tmp' \in Removed(tmp)
  /\ Fail
  /\ UNCHANGED <<path, bak, durable>>

(* os.Rename(tmp, path)                                                    *)
Replace ==
  /\ pc = "replace"
  /\ path' = tmp
  /\ tmp' = Absent
  /\ Goto("cleanup")
  /\ UNCHANGED bak

(* Mutated ReplaceFails: the error of the rename is dropped.               *)
ReplaceErrorDropped ==
  /\ pc = "replace"
  /\ "replace" \in Faults
  /\ tmp' \in Removed(tmp)
  /\ Goto("cleanup")
  /\ UNCHANGED <<path, bak>>

ReplaceFails ==
  /\ pc = "replace"
  /\ "replace" \in Faults
  /\ tmp' \in Removed(tmp)
  /\ Goto("restore")
  /\ UNCHANGED <<path, bak>>

(* _ = os.Rename(backup, path), which has nothing to do without a backup.  *)
Restore ==
  /\ pc = "restore"
  /\ IF bak # Absent
       THEN path' = bak /\ bak' = Absent
       ELSE UNCHANGED <<path, bak>>
  /\ Fail
  /\ UNCHANGED <<tmp, durable>>

(* Only the backup is left, and the next Save begins by removing it: there *)
(* is nothing any more that the store could be held to.                    *)
RestoreFails ==
  /\ pc = "restore"
  /\ "restore" \in Faults
  /\ Fail
  /\ durable' = NoState
  /\ UNCHANGED files

(* _ = os.Remove(backup), then Save returns nil.                           *)
Cleanup ==
  /\ pc = "cleanup"
  /\ bak' \in Removed(bak)
  /\ pc' = "idle"
  /\ booting' = FALSE
  /\ mem' = next
  /\ durable' = next
  /\ healthy' = TRUE
  /\ next' = NoState /\ keeps' = FALSE /\ ahead' = FALSE
  /\ UNCHANGED <<path, tmp>>

(* The process is killed; in the middle of WriteFile the temporary file    *)
(* can be left half-written.                                               *)
Crash ==
  /\ pc # "down"
  /\ pc' = "down"
  /\ booting' = FALSE
  /\ mem' = NoState
  /\ next' = NoState /\ keeps' = FALSE /\ ahead' = FALSE
  /\ tmp' \in {tmp} \cup (IF pc = "write" THEN {next, Torn} ELSE {})
  /\ UNCHANGED <<path, bak, durable, healthy>>

(* The primary stops decoding while no Save is under way.                  *)
Damage ==
  /\ "damage" \in Faults
  /\ pc \in {"down", "idle"}
  /\ path \in States
  /\ path' = Torn
  /\ healthy' = FALSE
  /\ UNCHANGED <<bak, tmp, pc, booting, mem, next, keeps, ahead, durable>>

Next ==
  \/ Boot \/ BootRefused \/ Reload
  \/ \E s \in Values : Save(s) \/ SaveMarker(s)
  \/ WriteTmp \/ WriteTmpFails \/ Unlink \/ UnlinkFails
  \/ Stage \/ StageFails \/ Replace \/ ReplaceFails
  \/ Restore \/ RestoreFails \/ Cleanup \/ Crash \/ Damage

Spec == Init /\ [][Next]_vars

-----------------------------------------------------------------------------
(* Whatever call fails and whenever the process dies, neither the primary  *)
(* nor the backup ever holds half-written content: writeRaw only renames   *)
(* complete files into place.                                              *)
NeverTorn == path # Torn /\ bak # Torn

(* Between two saves a restart would load the state of the last Save that  *)
(* succeeded, and that is the state in memory too, unless it is the        *)
(* scheduler's marker whose own Save was refused that is ahead of it.      *)
MemoryIsRecoverable ==
  pc = "idle" => Recoverable = durable /\ (~ahead => mem = durable)

(* When Save returns nil, a restart loads exactly that state.              *)
AckIsRead == pc = "cleanup" /\ pc' = "idle" => Recoverable' = next

(* A state file of a newer binary survives this one: Load refuses it and   *)
(* never falls back to an older backup that New would then save over it.   *)
FutureKept ==
  [][(Future \in {path, bak}) => (Future \in {path', bak'})]_vars

(* A damaged primary is reported or replaced by a backup; data that was    *)
(* once acknowledged never turns into the fresh state of a first run,      *)
(* unless a refused Save could not even rename the backup back.            *)
NeverSilentlyReset == durable \in Values => Recoverable # Empty

(* Once a Load has served the validated backup of a damaged primary, the   *)
(* service stays able to start.                                            *)
StaysAvailable == healthy => Recoverable # Error

(* The store implements the durable register it promises.                  *)
Disk  == Recoverable
Phase == CASE pc = "cleanup" -> "committed"
           [] pc \in WriteSteps \ {"cleanup"} -> "saving"
           [] OTHER -> pc
Reg == INSTANCE Register WITH Unreadable <- Error, disk <- Disk, phase <- Phase
ImplementsRegister == Reg!Spec
=============================================================================
