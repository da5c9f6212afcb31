---------------------------- MODULE MCDirectory -----------------------------
(***************************************************************************)
(* What lies in a data directory beside the protocol of state.bin: its     *)
(* lock, its key file and the programs that use it, an import's merge and  *)
(* the settings files.  They are four specifications of their own; TLC     *)
(* explores one of them at a time, the others rest.                        *)
(***************************************************************************)
EXTENDS SettingsFiles, InstanceLock, DataDirectory, ImportMerge

CONSTANTS direct, proxyA, proxyB, early, late, \* settings; three proxies, so
                                               \* that an old one can come back
          r1, r2, c1, c2, c3,                  \* processes and callers
          k1, k2, k3, a, b                     \* keys and accounts

AllFaults == {"call", "restore", "crash"}

(* Two callers in one process, one in another.                             *)
Callers == c1 :> r1 @@ c2 :> r1 @@ c3 :> r2

KeySymmetry == Permutations({k1, k2, k3}) \cup Permutations({a, b})

VARIABLE part

allVars == <<vars, lockVars, dirVars, mergeVars, part>>

(* A part that rests has one state.                                        *)
SettingsRest == state = [proxy |-> direct, other |-> early] /\ Init
LockRests    == build = "flock" /\ LockInit
DirRests     == /\ key = [d \in Dirs |-> NoKey]
                /\ stored = [d \in Dirs |-> NoState]
                /\ DirInit
MergeRests   == /\ source = <<>> /\ target = <<>> /\ toImport = <<>>
                /\ limit = 2 /\ turn = 1 /\ outcome = "running"

PartsInit ==
  \/ part = "settings" /\ LockRests /\ DirRests /\ MergeRests /\ Init
  \/ part = "lock" /\ SettingsRest /\ DirRests /\ MergeRests /\ LockInit
  \/ part = "directory" /\ SettingsRest /\ LockRests /\ MergeRests /\ DirInit
  \/ part = "merge" /\ SettingsRest /\ LockRests /\ DirRests /\ MergeInit

PartsNext ==
  \/ part = "settings" /\ Next
     /\ UNCHANGED <<lockVars, dirVars, mergeVars, part>>
  \/ part = "lock" /\ LockNext
     /\ UNCHANGED <<vars, dirVars, mergeVars, part>>
  \/ part = "directory" /\ DirNext
     /\ UNCHANGED <<vars, lockVars, mergeVars, part>>
  \/ part = "merge" /\ MergeNext
     /\ UNCHANGED <<vars, lockVars, dirVars, part>>
  \/ part = "merge" /\ outcome # "running"    \* the import is over
     /\ UNCHANGED allVars

PartsSpec == PartsInit /\ [][PartsNext]_allVars
=============================================================================
