-------------------------- MODULE DirectoryProofs ---------------------------
(***************************************************************************)
(* Theorems about what lies in a data directory: its lock, its key file and *)
(* the merge of an import, for any processes, programs and accounts.       *)
(***************************************************************************)
EXTENDS InstanceLock, DataDirectory, ImportMerge, SequenceTheorems,
        FiniteSetTheorems, TLAPS

(***************************************************************************)
(* InstanceLock: the lock, on every platform it is built for.              *)
(***************************************************************************)

Busy(a) == at[a] # "out"

(* Whoever holds what Acquire returned is the owner the system knows of.   *)
HeldIsLocked == \A a \in Acquirers : at[a] = "held" => holder = Owner(a)

(* The table of a process, where there is one, covers a caller from its    *)
(* entry on ...                                                            *)
Tabled ==
  IF build = "fcntl"
    THEN \A a \in Acquirers : Busy(a) => guard[ProcessOf[a]]
    ELSE \A p \in Processes : ~guard[p]

(* ... and lets one caller of the process at the file at a time.           *)
Alone ==
  build = "fcntl" => \A a, b \in Acquirers :
    Busy(a) /\ Busy(b) /\ ProcessOf[a] = ProcessOf[b] => a = b

LockInv ==
  LockTypeOK /\ HeldIsLocked /\ Tabled /\ Alone /\ TablesUsed /\ LockUsed

LEMMA OneOwnerFollows ==
  ASSUME LockInv PROVE OneOwner
<1> SUFFICES ASSUME NEW a \in Acquirers, NEW b \in Acquirers,
                    at[a] = "held", at[b] = "held"
             PROVE  a = b
  BY DEF OneOwner
<1>1. Owner(a) = Owner(b) /\ Busy(a) /\ Busy(b)
  BY DEF LockInv, HeldIsLocked, Busy
<1>2. CASE build = "fcntl"
  BY <1>1, <1>2 DEF LockInv, Alone, Owner
<1>3. CASE build # "fcntl"
  BY <1>1, <1>3 DEF Owner
<1> QED BY <1>2, <1>3

LEMMA LockInitInvariant == LockInit => LockInv
  BY DEF LockInit, LockInv, LockTypeOK, Builds, Places, HeldIsLocked, Tabled,
         Alone, Busy, TablesUsed, LockUsed

(* An owner is no name for "unlocked".                                     *)
LEMMA OwnerTyped ==
  \A a \in Acquirers :
    Owner(a) \in Acquirers \cup Processes /\ Owner(a) # Unlocked
  BY ProcessOfAssumption, NamesAssumption DEF Owner

LEMMA EnterInvariant ==
  ASSUME LockInv, NEW a \in Acquirers, Enter(a)
  PROVE  LockInv'
<1> USE DEF Enter, Goes, SetGuard, LockInv, LockTypeOK
<1>1. LockTypeOK'
  BY ProcessOfAssumption DEF Places
<1>2. HeldIsLocked'
  BY DEF HeldIsLocked, Owner
<1>3. Tabled'
  BY ProcessOfAssumption DEF Tabled, Busy
<1>4. Alone'
  BY DEF Alone, Tabled, Busy
<1>5. TablesUsed'
  BY ProcessOfAssumption DEF TablesUsed
<1>6. LockUsed'
  BY DEF LockUsed, Owner
<1> QED BY <1>1, <1>2, <1>3, <1>4, <1>5, <1>6

(* Steps between the opening of the file and its lock.                     *)
LEMMA TakeInvariant ==
  ASSUME LockInv, NEW a \in Acquirers, Open(a) \/ Lock(a) \/ LockFails(a)
  PROVE  LockInv'
<1> USE DEF Open, Lock, LockFails, Goes, LockInv, LockTypeOK
<1>1. \A b \in Acquirers : Owner(b)' = Owner(b)
  BY DEF Owner
<1>2. LockTypeOK'
  BY OwnerTyped DEF Places
<1>3. HeldIsLocked'
  <2> SUFFICES ASSUME NEW b \in Acquirers, at'[b] = "held"
               PROVE  holder' = Owner(b)
    BY <1>1 DEF HeldIsLocked
  <2>1. CASE b = a
    BY <2>1 DEF Owner
  <2>2. CASE b # a
    <3>1. at[b] = "held" /\ holder = Owner(b) /\ holder # Unlocked
      BY <2>2, OwnerTyped DEF HeldIsLocked
    <3>2. holder = holder' \/ Lock(a)
      BY <3>1
    <3>3. ~Lock(a)
      BY <2>2, <3>1 DEF Alone, Busy, Owner
    <3> QED BY <3>1, <3>2, <3>3
  <2> QED BY <2>1, <2>2
<1>4. Tabled' /\ Alone'
  BY DEF Tabled, Alone, Busy
<1>5. TablesUsed'
  BY DEF TablesUsed, Tabled
<1>6. LockUsed'
  <2>1. CASE holder' = holder
    BY <1>1, <2>1 DEF LockUsed
  <2>2. CASE holder' # holder
    <3>1. holder' = Owner(a) /\ at'[a] = "held"
      BY <2>2 DEF Owner
    <3> QED BY <1>1, <3>1 DEF LockUsed
  <2> QED BY <2>1, <2>2
<1> QED BY <1>2, <1>3, <1>4, <1>5, <1>6

LEMMA GiveInvariant ==
  ASSUME LockInv, NEW a \in Acquirers, Unlock(a) \/ CloseFile(a)
  PROVE  LockInv'
<1> USE DEF Unlock, CloseFile, AfterClose, Goes, LockInv, LockTypeOK
<1>1. \A b \in Acquirers : Owner(b)' = Owner(b)
  BY DEF Owner
<1>2. LockTypeOK'
  BY DEF Places, Dropped
<1>3. HeldIsLocked'
  <2> SUFFICES ASSUME NEW b \in Acquirers, at'[b] = "held"
               PROVE  holder' = Owner(b)
    BY <1>1 DEF HeldIsLocked
  <2>1. b # a /\ at[b] = "held" /\ holder = Owner(b)
    BY DEF HeldIsLocked
  <2>2. Owner(a) # Owner(b)
    BY <2>1 DEF Alone, Busy, Owner
  <2> QED BY <2>1, <2>2 DEF Dropped
<1>4. Tabled' /\ Alone'
  BY DEF Tabled, Alone, Busy
<1>5. TablesUsed'
  BY DEF TablesUsed, Tabled
<1>6. LockUsed'
  <2> SUFFICES ASSUME holder' # Unlocked
               PROVE  \E b \in Acquirers : holder' = Owner(b)' /\ at'[b] \in {"held", "unlocked"}
    BY DEF LockUsed
  <2>1. holder' = holder
    BY DEF Dropped
  <2>2. PICK b \in Acquirers : holder = Owner(b) /\ at[b] \in {"held", "unlocked"}
    BY <2>1 DEF LockUsed
  <2>3. at'[b] \in {"held", "unlocked"}
    BY <2>1, <2>2 DEF Dropped
  <2> QED BY <1>1, <2>1, <2>2, <2>3
<1> QED BY <1>2, <1>3, <1>4, <1>5, <1>6

LEMMA LeaveInvariant ==
  ASSUME LockInv, NEW a \in Acquirers, OpenFails(a) \/ Forget(a)
  PROVE  LockInv'
<1> USE DEF OpenFails, Forget, SetGuard, Goes, LockInv, LockTypeOK
<1>1. LockTypeOK'
  BY DEF Places
<1>2. HeldIsLocked'
  BY DEF HeldIsLocked, Owner
<1>3. Tabled' /\ Alone'
  BY ProcessOfAssumption DEF Tabled, Alone, Busy
<1>4. TablesUsed'
  BY ProcessOfAssumption DEF TablesUsed, Tabled
<1>5. LockUsed'
  BY DEF LockUsed, Owner
<1> QED BY <1>1, <1>2, <1>3, <1>4, <1>5

LEMMA DieInvariant ==
  ASSUME LockInv, NEW p \in Processes, Die(p)
  PROVE  LockInv'
<1> USE DEF Die, LockInv, LockTypeOK
<1>1. LockTypeOK'
  BY DEF Places
<1>2. HeldIsLocked'
  BY ProcessOfAssumption, NamesAssumption DEF HeldIsLocked, Owner
<1>3. Tabled' /\ Alone'
  BY ProcessOfAssumption DEF Tabled, Alone, Busy
<1>4. TablesUsed'
  BY ProcessOfAssumption DEF TablesUsed
<1>5. LockUsed'
  BY ProcessOfAssumption, NamesAssumption DEF LockUsed, Owner
<1> QED BY <1>1, <1>2, <1>3, <1>4, <1>5

LEMMA LockStepInvariant == LockInv /\ [LockNext]_lockVars => LockInv'
<1> SUFFICES ASSUME LockInv, [LockNext]_lockVars PROVE LockInv'
  OBVIOUS
<1>1. ASSUME NEW a \in Acquirers, Caller(a) PROVE LockInv'
  BY <1>1, EnterInvariant, TakeInvariant, GiveInvariant, LeaveInvariant
     DEF Caller
<1>2. ASSUME NEW p \in Processes, Die(p) PROVE LockInv'
  BY <1>2, DieInvariant
<1>3. CASE UNCHANGED lockVars
  BY <1>3 DEF lockVars, LockInv, LockTypeOK, HeldIsLocked, Tabled, Alone,
              Busy, TablesUsed, LockUsed, Owner
<1> QED BY <1>1, <1>2, <1>3 DEF LockNext

(* For any processes and callers no two callers hold the directory at      *)
(* once: neither in one process nor in two, whatever fails and dies.       *)
THEOREM OneOwnerHolds == LockSpec => []OneOwner
<1>1. LockInit => LockInv
  BY LockInitInvariant
<1>2. LockInv /\ [LockNext]_lockVars => LockInv'
  BY LockStepInvariant
<1>3. LockInv => OneOwner
  BY OneOwnerFollows
<1> QED BY <1>1, <1>2, <1>3, PTL DEF LockSpec

(* No lock and no entry of a table outlives the caller it was made for, so *)
(* that a failed, closed or dead owner never keeps the directory shut.     *)
THEOREM NothingStaysLocked == LockSpec => []NothingLeftLocked
<1>1. LockInit => LockInv
  BY LockInitInvariant
<1>2. LockInv /\ [LockNext]_lockVars => LockInv'
  BY LockStepInvariant
<1>3. LockInv => NothingLeftLocked
  BY DEF LockInv, NothingLeftLocked
<1> QED BY <1>1, <1>2, <1>3, PTL DEF LockSpec

(* Every variable of the lock keeps to its values.                         *)
THEOREM LockTypeCorrect == LockSpec => []LockTypeOK
<1>1. LockInit => LockInv
  BY LockInitInvariant
<1>2. LockInv /\ [LockNext]_lockVars => LockInv'
  BY LockStepInvariant
<1>3. LockInv => LockTypeOK
  BY DEF LockInv
<1> QED BY <1>1, <1>2, <1>3, PTL DEF LockSpec

-----------------------------------------------------------------------------
(***************************************************************************)
(* DataDirectory: programs on the data directories.                        *)
(***************************************************************************)

(* A program that runs and has not closed its lock holds exactly the       *)
(* directory it was started on.                                            *)
LockTells ==
  \A p \in Programs, d \in Dirs :
    owner[d] = p <=> /\ prog[p].step # "out" /\ ~prog[p].left
                     /\ prog[p].home = d

(* Only a program that has come past its load runs a service, or closes    *)
(* its lock.                                                               *)
LifeTells ==
  \A p \in Programs :
    prog[p].step \in {"out", "load"} => ~prog[p].up /\ ~prog[p].left

(* What a save seals with is a complete key.                               *)
KeyChosen ==
  \A p \in Programs :
    prog[p].step \in {"fill", "close", "write"} => prog[p].key \in Keys

OwnerInv == DirTypeOK /\ LockTells /\ LifeTells /\ KeyChosen /\ OwnerKnowsContent

(* What each step of a program leaves it as.                               *)
LEMMA OutIsTyped == Out \in ProgramStates
  BY DirectoryAssumption DEF Out, ProgramStates, Stages, Commands

LEMMA OwnerInit == DirInit => OwnerInv
<1> SUFFICES ASSUME DirInit PROVE OwnerInv
  OBVIOUS
<1>1. DirTypeOK
  BY OutIsTyped DEF DirInit, DirTypeOK
<1>2. LockTells /\ LifeTells /\ KeyChosen /\ OwnerKnowsContent
  BY DirectoryAssumption DEF DirInit, LockTells, LifeTells, KeyChosen,
     OwnerKnowsContent, Out, Saving
<1> QED BY <1>1, <1>2 DEF OwnerInv

LEMMA TargetTyped ==
  ASSUME DirTypeOK, NEW p \in Programs
  PROVE  Target(p) \in Dirs
  BY DEF Target, DirTypeOK, ProgramStates

LEMMA KeptTyped ==
  ASSUME DirTypeOK, NEW d \in Dirs
  PROVE  Kept(d) \in SUBSET Accounts
<1>1. stored[d] \in States
  BY DEF DirTypeOK
<1> QED BY <1>1 DEF Kept, States, NoState

LEMMA EndsTyped ==
  ASSUME DirTypeOK, NEW p \in Programs, Ends(p)
  PROVE  prog' \in [Programs -> ProgramStates] /\ owner' \in [Dirs -> Programs \cup {Nobody}]
  BY OutIsTyped DEF Ends, DirTypeOK

LEMMA GivesUpTyped ==
  ASSUME DirTypeOK, NEW p \in Programs, GivesUp(p)
  PROVE  prog' \in [Programs -> ProgramStates] /\ owner' \in [Dirs -> Programs \cup {Nobody}]
<1>1. CASE ~prog[p].up
  BY <1>1, EndsTyped DEF GivesUp
<1>2. CASE prog[p].up
  <2> DEFINE r == [prog[p] EXCEPT !.step = "serve", !.data = prog[p].known, !.key = NoKey]
  <2>1. r \in ProgramStates
    BY DEF DirTypeOK, ProgramStates, Stages
  <2>2. prog' = [prog EXCEPT ![p] = r] /\ owner' = owner
    BY <1>2 DEF GivesUp, Becomes
  <2> QED BY <2>1, <2>2 DEF DirTypeOK
<1> QED BY <1>1, <1>2

(* The type invariant, and the key that a save holds.                      *)
LEMMA TypeStep ==
  ASSUME DirTypeOK, KeyChosen, DirNext
  PROVE  DirTypeOK' /\ KeyChosen'
<1> USE DirectoryAssumption DEF DirTypeOK, KeyChosen
<1> PICK p \in Programs :
      \/ \E c \in Commands, d, e \in Dirs : Start(p, c, d, e)
      \/ Load(p) \/ Import(p) \/ Export(p) \/ LoadRefused(p) \/ Mutate(p)
      \/ Inspect(p) \/ Create(p) \/ Fill(p) \/ CloseKey(p) \/ KeyFails(p)
      \/ SaveRefused(p) \/ Write(p) \/ Release(p) \/ Gone(p)
  BY DEF DirNext
<1> DEFINE r == prog[p]
<1>t. r \in ProgramStates /\ Target(p) \in Dirs
  BY TargetTyped
<1>k. Kept(r.home) \in SUBSET Accounts /\ Kept(r.other) \in SUBSET Accounts
  BY <1>t, KeptTyped DEF ProgramStates
<1>1. ASSUME NEW c \in Commands, NEW d \in Dirs, NEW e \in Dirs, Start(p, c, d, e)
      PROVE  DirTypeOK' /\ KeyChosen'
  <2> DEFINE s == [r EXCEPT !.step = "load", !.cmd = c, !.home = d, !.other = e]
  <2>1. s \in ProgramStates /\ s.step = "load"
    BY <1>t DEF ProgramStates, Stages
  <2> QED BY <1>1, <2>1 DEF Start, Becomes
<1>2. CASE Load(p)
  <2> DEFINE s == [r EXCEPT !.step = "inspect", !.known = Kept(r.home), !.data = Kept(r.home)]
  <2>1. s \in ProgramStates /\ s.step = "inspect"
    BY <1>t, <1>k DEF ProgramStates, Stages, Saving
  <2> QED BY <1>2, <2>1 DEF Load, Becomes
<1>3. CASE Import(p)
  <2> DEFINE s == [r EXCEPT !.step = "inspect", !.known = Kept(r.home),
                            !.data = Kept(r.home) \cup Kept(r.other)]
  <2>1. s \in ProgramStates /\ s.step = "inspect"
    BY <1>t, <1>k DEF ProgramStates, Stages, Saving
  <2> QED BY <1>3, <2>1 DEF Import, Becomes
<1>4. CASE Export(p)
  <2> DEFINE s == [r EXCEPT !.step = "inspect", !.data = Kept(r.home)]
  <2>1. s \in ProgramStates /\ s.step = "inspect"
    BY <1>t, <1>k DEF ProgramStates, Stages, Saving
  <2> QED BY <1>4, <2>1 DEF Export, Becomes
<1>5. CASE LoadRefused(p) \/ Gone(p)
  BY <1>5, EndsTyped DEF LoadRefused, Gone, Ends, Out
<1>6. CASE Mutate(p)
  <2>1. PICK now \in SUBSET Accounts :
          Becomes(p, [r EXCEPT !.step = "inspect", !.data = now])
    <3>1. PICK a \in Accounts :
            Becomes(p, [r EXCEPT !.step = "inspect",
              !.data = IF a \in r.known THEN r.known \ {a} ELSE r.known \cup {a}])
      BY <1>6 DEF Mutate
    <3>2. (IF a \in r.known THEN r.known \ {a} ELSE r.known \cup {a}) \in SUBSET Accounts
      BY <1>t DEF ProgramStates
    <3> QED BY <3>1, <3>2
  <2> DEFINE s == [r EXCEPT !.step = "inspect", !.data = now]
  <2>2. s \in ProgramStates /\ s.step = "inspect"
    BY <1>t DEF ProgramStates, Stages, Saving
  <2> QED BY <1>6, <2>1, <2>2 DEF Mutate, Becomes
<1>7. CASE Inspect(p)
  <2>1. CASE key[Target(p)] = NoKey
    <3> DEFINE s == [r EXCEPT !.step = "create"]
    <3>1. s \in ProgramStates /\ s.step = "create"
      BY <1>t DEF ProgramStates, Stages, Saving
    <3> QED BY <1>7, <2>1, <3>1 DEF Inspect, Becomes
  <2>2. CASE key[Target(p)] # NoKey
    <3> DEFINE s == [r EXCEPT !.step = "write", !.key = key[Target(p)]]
    <3>1. key[Target(p)] \in Keys
      BY <1>7, <1>t, <2>2 DEF Inspect
    <3>2. s \in ProgramStates /\ s.step = "write" /\ s.key \in Keys
      BY <1>t, <3>1 DEF ProgramStates, Stages, Saving
    <3> QED BY <1>7, <2>2, <3>2 DEF Inspect, Becomes
  <2> QED BY <2>1, <2>2
<1>8. CASE Create(p)
  <2>1. CASE key[Target(p)] = NoKey
    <3>1. PICK k \in Keys : Becomes(p, [r EXCEPT !.step = "fill", !.key = k])
      BY <1>8, <2>1 DEF Create
    <3> DEFINE s == [r EXCEPT !.step = "fill", !.key = k]
    <3>2. s \in ProgramStates /\ s.step = "fill" /\ s.key \in Keys
      BY <1>t DEF ProgramStates, Stages, Saving
    <3> QED BY <1>8, <1>t, <2>1, <3>1, <3>2 DEF Create, Becomes
  <2>2. CASE key[Target(p)] # NoKey
    <3> DEFINE s == [r EXCEPT !.step = "write", !.key = key[Target(p)]]
    <3>1. key[Target(p)] \in Keys
      BY <1>8, <1>t, <2>2 DEF Create
    <3>2. s \in ProgramStates /\ s.step = "write" /\ s.key \in Keys
      BY <1>t, <3>1 DEF ProgramStates, Stages, Saving
    <3> QED BY <1>8, <2>2, <3>2 DEF Create, Becomes
  <2> QED BY <2>1, <2>2
<1>9. CASE Fill(p)
  <2> DEFINE s == [r EXCEPT !.step = "close"]
  <2>1. s \in ProgramStates /\ s.step = "close" /\ s.key = r.key /\ r.key \in Keys
    BY <1>9, <1>t DEF ProgramStates, Stages, Saving, Fill
  <2> QED BY <1>9, <1>t, <2>1 DEF Fill, Becomes
<1>10. CASE CloseKey(p)
  <2> DEFINE s == [r EXCEPT !.step = "write"]
  <2>1. s \in ProgramStates /\ s.step = "write" /\ s.key = r.key /\ r.key \in Keys
    BY <1>10, <1>t DEF ProgramStates, Stages, Saving, CloseKey
  <2> QED BY <1>10, <1>t, <2>1 DEF CloseKey, Becomes
<1>11. CASE KeyFails(p) \/ SaveRefused(p)
  <2>1. prog' \in [Programs -> ProgramStates] /\ owner' \in [Dirs -> Programs \cup {Nobody}]
    BY <1>11, GivesUpTyped DEF KeyFails, SaveRefused
  <2>2. \A q \in Programs : q # p => prog'[q] = prog[q]
    BY <1>11 DEF KeyFails, SaveRefused, GivesUp, Becomes, Ends
  <2>3. prog'[p].step \in {"serve", "out"}
    <3>1. CASE ~r.up
      BY <1>11, <3>1 DEF KeyFails, SaveRefused, GivesUp, Ends, Out
    <3>2. CASE r.up
      <4> DEFINE s == [r EXCEPT !.step = "serve", !.data = r.known, !.key = NoKey]
      <4>1. s.step = "serve"
        BY <1>t DEF ProgramStates
      <4>2. prog' = [prog EXCEPT ![p] = s]
        BY <1>11, <3>2 DEF KeyFails, SaveRefused, GivesUp, Becomes
      <4> QED BY <4>1, <4>2
    <3> QED BY <3>1, <3>2
  <2>4. key' \in [Dirs -> Keys \cup {NoKey, HalfKey}] /\ stored' = stored /\ raced' = raced
        /\ orphaned' \subseteq Dirs
    BY <1>11, <1>t DEF KeyFails, SaveRefused
  <2> QED BY <2>1, <2>2, <2>3, <2>4
<1>12. CASE Write(p)
  <2> DEFINE s == [r EXCEPT !.step = IF r.cmd = "serve" THEN "serve" ELSE "done",
                            !.up = (r.cmd = "serve"), !.known = r.data, !.key = NoKey]
  <2>1. s \in ProgramStates /\ s.step \in {"serve", "done"}
    BY <1>t DEF ProgramStates, Stages
  <2>2. [key |-> r.key, accounts |-> r.data] \in States
    BY <1>12, <1>t DEF ProgramStates, States, Write
  <2>3. prog' = [prog EXCEPT ![p] = s] /\ owner' = owner /\ key' = key /\ orphaned' = orphaned
    BY <1>12 DEF Write, Becomes
  <2>4. stored' \in [Dirs -> States] /\ raced' \subseteq Dirs
    BY <1>12, <1>t, <2>2 DEF Write
  <2> QED BY <2>1, <2>3, <2>4
<1>13. CASE Release(p)
  <2> DEFINE s == [r EXCEPT !.left = TRUE]
  <2>1. s \in ProgramStates /\ s.step = r.step /\ s.key = r.key
    BY <1>t DEF ProgramStates
  <2> QED BY <1>13, <1>t, <2>1 DEF Release, Becomes
<1> QED BY <1>1, <1>2, <1>3, <1>4, <1>5, <1>6, <1>7, <1>8, <1>9, <1>10, <1>11, <1>12, <1>13

(* A step in the midst of its work: the program keeps its directory, its   *)
(* lock and what it knows, and no state.bin is written.                    *)
StaysAtWork(p) ==
  /\ \A q \in Programs \ {p} : prog'[q] = prog[q]
  /\ prog[p].step \in Saving \cup {"serve"} /\ prog'[p].step \in Saving \cup {"serve"}
  /\ prog'[p].home = prog[p].home /\ prog'[p].other = prog[p].other
  /\ prog'[p].cmd = prog[p].cmd
  /\ prog'[p].known = prog[p].known /\ prog'[p].left = prog[p].left
  /\ owner' = owner /\ stored' = stored /\ raced' = raced

LEMMA AtWork ==
  ASSUME DirTypeOK, NEW p \in Programs,
         \/ Mutate(p) \/ Inspect(p) \/ Create(p) \/ Fill(p) \/ CloseKey(p)
         \/ (prog[p].up /\ (KeyFails(p) \/ SaveRefused(p)))
  PROVE  StaysAtWork(p)
<1> USE DEF DirTypeOK
<1> DEFINE r == prog[p]
<1>t. r \in ProgramStates /\ prog \in [Programs -> ProgramStates]
  OBVIOUS
<1>1. CASE Mutate(p)
  <2>0. PICK now : Becomes(p, [r EXCEPT !.step = "inspect", !.data = now])
    <3>1. PICK a \in Accounts :
            Becomes(p, [r EXCEPT !.step = "inspect",
              !.data = IF a \in r.known THEN r.known \ {a} ELSE r.known \cup {a}])
      BY <1>1 DEF Mutate
    <3> QED BY <3>1
  <2> DEFINE s == [r EXCEPT !.step = "inspect", !.data = now]
  <2>1. s.home = r.home /\ s.other = r.other /\ s.cmd = r.cmd /\ s.known = r.known /\ s.step = "inspect"
    BY <1>t DEF ProgramStates
  <2>2. s.left = r.left
    BY <1>t DEF ProgramStates
  <2>3. prog' = [prog EXCEPT ![p] = s]
    BY <1>1, <2>0 DEF Mutate, Becomes
  <2>4. r.step \in Saving \cup {"serve"} /\ owner' = owner /\ stored' = stored /\ raced' = raced
    BY <1>1, <2>0 DEF Mutate, Saving
  <2> HIDE DEF s
  <2>5. prog'[p] = s /\ \A q \in Programs \ {p} : prog'[q] = prog[q]
    BY <1>t, <2>3
  <2> QED BY <2>1, <2>2, <2>4, <2>5 DEF StaysAtWork, Saving
<1>2. CASE Inspect(p) /\ key[Target(p)] = NoKey
  <2> DEFINE s == [r EXCEPT !.step = "create"]
  <2>1. s.home = r.home /\ s.other = r.other /\ s.cmd = r.cmd /\ s.known = r.known /\ s.step = "create"
    BY <1>t DEF ProgramStates
  <2>2. s.left = r.left
    BY <1>t DEF ProgramStates
  <2>3. prog' = [prog EXCEPT ![p] = s]
    BY <1>2 DEF Inspect, Becomes
  <2>4. r.step \in Saving \cup {"serve"} /\ owner' = owner /\ stored' = stored /\ raced' = raced
    BY <1>2 DEF Inspect, Saving
  <2> HIDE DEF s
  <2>5. prog'[p] = s /\ \A q \in Programs \ {p} : prog'[q] = prog[q]
    BY <1>t, <2>3
  <2> QED BY <2>1, <2>2, <2>4, <2>5 DEF StaysAtWork, Saving
<1>3. CASE Inspect(p) /\ key[Target(p)] # NoKey
  <2> DEFINE s == [r EXCEPT !.step = "write", !.key = key[Target(p)]]
  <2>1. s.home = r.home /\ s.other = r.other /\ s.cmd = r.cmd /\ s.known = r.known /\ s.step = "write"
    BY <1>t DEF ProgramStates
  <2>2. s.left = r.left
    BY <1>t DEF ProgramStates
  <2>3. prog' = [prog EXCEPT ![p] = s]
    BY <1>3 DEF Inspect, Becomes
  <2>4. r.step \in Saving \cup {"serve"} /\ owner' = owner /\ stored' = stored /\ raced' = raced
    BY <1>3 DEF Inspect, Saving
  <2> HIDE DEF s
  <2>5. prog'[p] = s /\ \A q \in Programs \ {p} : prog'[q] = prog[q]
    BY <1>t, <2>3
  <2> QED BY <2>1, <2>2, <2>4, <2>5 DEF StaysAtWork, Saving
<1>4. CASE Create(p) /\ key[Target(p)] = NoKey
  <2>0. PICK k \in Keys : Becomes(p, [r EXCEPT !.step = "fill", !.key = k])
    BY <1>4 DEF Create
  <2> DEFINE s == [r EXCEPT !.step = "fill", !.key = k]
  <2>1. s.home = r.home /\ s.other = r.other /\ s.cmd = r.cmd /\ s.known = r.known /\ s.step = "fill"
    BY <1>t DEF ProgramStates
  <2>2. s.left = r.left
    BY <1>t DEF ProgramStates
  <2>3. prog' = [prog EXCEPT ![p] = s]
    BY <1>4, <2>0 DEF Create, Becomes
  <2>4. r.step \in Saving \cup {"serve"} /\ owner' = owner /\ stored' = stored /\ raced' = raced
    BY <1>4, <2>0 DEF Create, Saving
  <2> HIDE DEF s
  <2>5. prog'[p] = s /\ \A q \in Programs \ {p} : prog'[q] = prog[q]
    BY <1>t, <2>3
  <2> QED BY <2>1, <2>2, <2>4, <2>5 DEF StaysAtWork, Saving
<1>5. CASE Create(p) /\ key[Target(p)] # NoKey
  <2> DEFINE s == [r EXCEPT !.step = "write", !.key = key[Target(p)]]
  <2>1. s.home = r.home /\ s.other = r.other /\ s.cmd = r.cmd /\ s.known = r.known /\ s.step = "write"
    BY <1>t DEF ProgramStates
  <2>2. s.left = r.left
    BY <1>t DEF ProgramStates
  <2>3. prog' = [prog EXCEPT ![p] = s]
    BY <1>5 DEF Create, Becomes
  <2>4. r.step \in Saving \cup {"serve"} /\ owner' = owner /\ stored' = stored /\ raced' = raced
    BY <1>5 DEF Create, Saving
  <2> HIDE DEF s
  <2>5. prog'[p] = s /\ \A q \in Programs \ {p} : prog'[q] = prog[q]
    BY <1>t, <2>3
  <2> QED BY <2>1, <2>2, <2>4, <2>5 DEF StaysAtWork, Saving
<1>6. CASE Fill(p)
  <2> DEFINE s == [r EXCEPT !.step = "close"]
  <2>1. s.home = r.home /\ s.other = r.other /\ s.cmd = r.cmd /\ s.known = r.known /\ s.step = "close"
    BY <1>t DEF ProgramStates
  <2>2. s.left = r.left
    BY <1>t DEF ProgramStates
  <2>3. prog' = [prog EXCEPT ![p] = s]
    BY <1>6 DEF Fill, Becomes
  <2>4. r.step \in Saving \cup {"serve"} /\ owner' = owner /\ stored' = stored /\ raced' = raced
    BY <1>6 DEF Fill, Saving
  <2> HIDE DEF s
  <2>5. prog'[p] = s /\ \A q \in Programs \ {p} : prog'[q] = prog[q]
    BY <1>t, <2>3
  <2> QED BY <2>1, <2>2, <2>4, <2>5 DEF StaysAtWork, Saving
<1>7. CASE CloseKey(p)
  <2> DEFINE s == [r EXCEPT !.step = "write"]
  <2>1. s.home = r.home /\ s.other = r.other /\ s.cmd = r.cmd /\ s.known = r.known /\ s.step = "write"
    BY <1>t DEF ProgramStates
  <2>2. s.left = r.left
    BY <1>t DEF ProgramStates
  <2>3. prog' = [prog EXCEPT ![p] = s]
    BY <1>7 DEF CloseKey, Becomes
  <2>4. r.step \in Saving \cup {"serve"} /\ owner' = owner /\ stored' = stored /\ raced' = raced
    BY <1>7 DEF CloseKey, Saving
  <2> HIDE DEF s
  <2>5. prog'[p] = s /\ \A q \in Programs \ {p} : prog'[q] = prog[q]
    BY <1>t, <2>3
  <2> QED BY <2>1, <2>2, <2>4, <2>5 DEF StaysAtWork, Saving
<1>8. CASE prog[p].up /\ (KeyFails(p) \/ SaveRefused(p))
  <2> DEFINE s == [r EXCEPT !.step = "serve", !.data = r.known, !.key = NoKey]
  <2>1. s.home = r.home /\ s.other = r.other /\ s.cmd = r.cmd /\ s.known = r.known /\ s.step = "serve"
    BY <1>t DEF ProgramStates
  <2>2. s.left = r.left
    BY <1>t DEF ProgramStates
  <2>3. prog' = [prog EXCEPT ![p] = s]
    BY <1>8 DEF KeyFails, SaveRefused, GivesUp, Becomes
  <2>4. r.step \in Saving \cup {"serve"} /\ owner' = owner /\ stored' = stored /\ raced' = raced
    BY <1>8 DEF KeyFails, SaveRefused, GivesUp, Saving
  <2> HIDE DEF s
  <2>5. prog'[p] = s /\ \A q \in Programs \ {p} : prog'[q] = prog[q]
    BY <1>t, <2>3
  <2> QED BY <2>1, <2>2, <2>4, <2>5 DEF StaysAtWork, Saving
<1> QED BY <1>1, <1>2, <1>3, <1>4, <1>5, <1>6, <1>7, <1>8

LEMMA AtWorkStep ==
  ASSUME OwnerInv, NEW p \in Programs, StaysAtWork(p)
  PROVE  LockTells' /\ OwnerKnowsContent'
<1> USE DEF OwnerInv, StaysAtWork
<1>1. LockTells'
  BY DEF LockTells, Saving
<1>2. OwnerKnowsContent'
  <2> SUFFICES ASSUME NEW q \in Programs, (owner[prog[q].home] = q)',
                      (prog[q].cmd # "export")', (prog[q].home \notin raced)',
                      (prog[q].step \in Saving \cup {"serve", "done"})'
               PROVE  (prog[q].known = Kept(prog[q].home))'
    BY DEF OwnerKnowsContent
  <2>1. CASE q = p
    <3>1. prog[p].step \in Saving \cup {"serve", "done"}
      BY DEF DirTypeOK, ProgramStates, Stages
    <3> QED BY <2>1, <3>1 DEF OwnerKnowsContent, Kept
  <2>2. CASE q # p
    BY <2>2 DEF OwnerKnowsContent, Kept
  <2> QED BY <2>1, <2>2
<1> QED BY <1>1, <1>2

(* The end of a program leaves the other locks alone.                      *)
LEMMA EndsStep ==
  ASSUME OwnerInv, NEW p \in Programs, Ends(p), stored' = stored, raced' = raced
  PROVE  LockTells' /\ LifeTells' /\ OwnerKnowsContent'
<1> USE DirectoryAssumption DEF OwnerInv, DirTypeOK
<1>1. prog' = [prog EXCEPT ![p] = Out]
      /\ owner' = [d \in Dirs |-> IF owner[d] = p THEN Nobody ELSE owner[d]]
  BY DEF Ends
<1>2. Out.step = "out" /\ ~Out.up /\ ~Out.left
  BY DEF Out
<1>3. LockTells'
  BY <1>1, <1>2 DEF LockTells
<1>4. LifeTells'
  BY <1>1, <1>2 DEF LifeTells
<1>5. OwnerKnowsContent'
  <2> SUFFICES ASSUME NEW q \in Programs, (owner[prog[q].home] = q)',
                      (prog[q].cmd # "export")', (prog[q].home \notin raced)',
                      (prog[q].step \in Saving \cup {"serve", "done"})'
               PROVE  (prog[q].known = Kept(prog[q].home))'
    BY DEF OwnerKnowsContent
  <2>1. q # p
    BY <1>1, <1>2 DEF Saving
  <2>2. prog'[q] = prog[q] /\ prog[q].home \in Dirs
    BY <1>1, <2>1 DEF ProgramStates
  <2>3. owner[prog[q].home] = q
    BY <1>1, <2>2
  <2> QED BY <2>2, <2>3 DEF OwnerKnowsContent, Kept
<1> QED BY <1>3, <1>4, <1>5

(* Two programs do not hold one directory.                                 *)
LEMMA LockIsOnes ==
  ASSUME OwnerInv, NEW p \in Programs, NEW q \in Programs, q # p,
         prog[p].step # "out", ~prog[p].left
  PROVE  owner[prog[p].home] # q
<1>1. prog[p].home \in Dirs
  BY DEF OwnerInv, DirTypeOK, ProgramStates
<1>2. owner[prog[p].home] = p
  BY <1>1 DEF OwnerInv, LockTells
<1> QED BY <1>2

LEMMA StartStep ==
  ASSUME OwnerInv, NEW p \in Programs, NEW c \in Commands, NEW d \in Dirs,
         NEW e \in Dirs, Start(p, c, d, e)
  PROVE  LockTells' /\ LifeTells' /\ OwnerKnowsContent'
<1> USE DirectoryAssumption DEF OwnerInv, DirTypeOK
<1> DEFINE r == prog[p]
           s == [r EXCEPT !.step = "load", !.cmd = c, !.home = d, !.other = e]
<1>1. r \in ProgramStates /\ r.step = "out" /\ owner[d] = Nobody
  BY DEF Start
<1>2. s.step = "load" /\ s.home = d /\ s.left = r.left /\ s.up = r.up
  BY <1>1 DEF ProgramStates
<1>3. prog' = [prog EXCEPT ![p] = s] /\ owner' = [owner EXCEPT ![d] = p]
      /\ stored' = stored /\ raced' = raced
  BY DEF Start, Becomes
<1>4. ~r.up /\ ~r.left
  BY <1>1 DEF LifeTells
<1> HIDE DEF s
<1>5. LifeTells'
  BY <1>2, <1>3, <1>4 DEF LifeTells
<1>6. LockTells'
  BY <1>1, <1>2, <1>3, <1>4 DEF LockTells
<1>7. OwnerKnowsContent'
  <2> SUFFICES ASSUME NEW q \in Programs, (owner[prog[q].home] = q)',
                      (prog[q].cmd # "export")', (prog[q].home \notin raced)',
                      (prog[q].step \in Saving \cup {"serve", "done"})'
               PROVE  (prog[q].known = Kept(prog[q].home))'
    BY DEF OwnerKnowsContent
  <2>1. q # p
    BY <1>2, <1>3 DEF Saving
  <2>2. prog'[q] = prog[q] /\ prog[q].home \in Dirs
    BY <1>3, <2>1 DEF ProgramStates
  <2>3. owner[prog[q].home] = q
    BY <1>3, <2>1, <2>2
  <2> QED BY <1>3, <2>2, <2>3 DEF OwnerKnowsContent, Kept
<1> QED BY <1>5, <1>6, <1>7

(* A load brings in what the directory has, and is alone with it.          *)
LEMMA LoadStep ==
  ASSUME OwnerInv, NEW p \in Programs, Load(p) \/ Import(p) \/ Export(p)
  PROVE  LockTells' /\ LifeTells' /\ OwnerKnowsContent'
<1> USE DEF OwnerInv, DirTypeOK
<1> DEFINE r == prog[p]
<1>1. r \in ProgramStates /\ r.step = "load" /\ ~r.up /\ ~r.left
  BY DEF Load, Import, Export, LifeTells
<1>2. PICK data :
        Becomes(p, [r EXCEPT !.step = "inspect", !.data = data,
                             !.known = IF r.cmd = "export" THEN r.known ELSE Kept(r.home)])
  <2>1. CASE Load(p)
    <3>1. [r EXCEPT !.step = "inspect", !.known = Kept(r.home), !.data = Kept(r.home)]
          = [r EXCEPT !.step = "inspect", !.data = Kept(r.home),
                      !.known = IF r.cmd = "export" THEN r.known ELSE Kept(r.home)]
      BY <1>1, <2>1 DEF Load, ProgramStates
    <3> QED BY <2>1, <3>1 DEF Load
  <2>2. CASE Import(p)
    <3> DEFINE all == Kept(r.home) \cup Kept(r.other)
    <3>1. [r EXCEPT !.step = "inspect", !.known = Kept(r.home), !.data = all]
          = [r EXCEPT !.step = "inspect", !.data = all,
                      !.known = IF r.cmd = "export" THEN r.known ELSE Kept(r.home)]
      BY <1>1, <2>2 DEF Import, ProgramStates
    <3> QED BY <2>2, <3>1 DEF Import
  <2>3. CASE Export(p)
    <3>1. [r EXCEPT !.step = "inspect", !.data = Kept(r.home)]
          = [r EXCEPT !.step = "inspect", !.data = Kept(r.home),
                      !.known = IF r.cmd = "export" THEN r.known ELSE Kept(r.home)]
      BY <1>1, <2>3 DEF Export, ProgramStates
    <3> QED BY <2>3, <3>1 DEF Export
  <2> QED BY <2>1, <2>2, <2>3
<1> DEFINE s == [r EXCEPT !.step = "inspect", !.data = data,
                          !.known = IF r.cmd = "export" THEN r.known ELSE Kept(r.home)]
<1>3. s.step = "inspect" /\ s.home = r.home /\ s.cmd = r.cmd /\ s.left = r.left
      /\ (r.cmd # "export" => s.known = Kept(r.home))
  BY <1>1 DEF ProgramStates
<1>4. prog' = [prog EXCEPT ![p] = s] /\ owner' = owner /\ stored' = stored
      /\ raced' \in {raced, raced \ {r.home}}
  BY <1>2 DEF Load, Import, Export, Becomes
<1> HIDE DEF s
<1>5. LifeTells' /\ LockTells'
  BY <1>1, <1>3, <1>4 DEF LifeTells, LockTells
<1>7. OwnerKnowsContent'
  <2> SUFFICES ASSUME NEW q \in Programs, (owner[prog[q].home] = q)',
                      (prog[q].cmd # "export")', (prog[q].home \notin raced)',
                      (prog[q].step \in Saving \cup {"serve", "done"})'
               PROVE  (prog[q].known = Kept(prog[q].home))'
    BY DEF OwnerKnowsContent
  <2>1. CASE q = p
    BY <1>3, <1>4, <2>1 DEF Kept
  <2>2. CASE q # p
    <3>1. prog'[q] = prog[q] /\ owner[prog[q].home] = q
      BY <1>4, <2>2
    <3>2. prog[q].home # r.home
      BY <1>1, <2>2, <3>1, LockIsOnes
    <3>3. prog[q].home \notin raced
      BY <1>4, <3>1, <3>2
    <3> QED BY <1>4, <3>1, <3>3 DEF OwnerKnowsContent, Kept
  <2> QED BY <2>1, <2>2
<1> QED BY <1>5, <1>7

(* A save that is put in place is the owner's, or the directory counts as  *)
(* raced.                                                                  *)
LEMMA WriteStep ==
  ASSUME OwnerInv, NEW p \in Programs, Write(p)
  PROVE  LockTells' /\ LifeTells' /\ OwnerKnowsContent'
<1> USE DEF OwnerInv, DirTypeOK
<1> DEFINE r == prog[p]
           d == Target(p)
           s == [r EXCEPT !.step = IF r.cmd = "serve" THEN "serve" ELSE "done",
                          !.up = (r.cmd = "serve"), !.known = r.data, !.key = NoKey]
<1>1. r \in ProgramStates /\ r.step = "write" /\ d \in Dirs
  BY TargetTyped DEF Write
<1>2. s.step \in {"serve", "done"} /\ s.home = r.home /\ s.cmd = r.cmd /\ s.known = r.data
      /\ s.left = r.left
  BY <1>1 DEF ProgramStates
<1>3. prog' = [prog EXCEPT ![p] = s] /\ owner' = owner
      /\ stored' = [stored EXCEPT ![d] = [key |-> r.key, accounts |-> r.data]]
      /\ raced' = IF r.cmd = "export" \/ r.left THEN raced \cup {d} ELSE raced \ {d}
  BY DEF Write, Becomes
<1> HIDE DEF s
<1>5. LifeTells' /\ LockTells'
  BY <1>1, <1>2, <1>3 DEF LifeTells, LockTells
<1>7. OwnerKnowsContent'
  <2> SUFFICES ASSUME NEW q \in Programs, (owner[prog[q].home] = q)',
                      (prog[q].cmd # "export")', (prog[q].home \notin raced)',
                      (prog[q].step \in Saving \cup {"serve", "done"})'
               PROVE  (prog[q].known = Kept(prog[q].home))'
    BY DEF OwnerKnowsContent
  <2>1. CASE q = p
    <3>1. prog'[q].home = d /\ prog'[q].known = r.data
      BY <1>1, <1>2, <1>3, <2>1 DEF Target
    <3> QED BY <1>3, <1>1, <3>1 DEF Kept
  <2>2. CASE q # p
    <3>1. prog'[q] = prog[q] /\ owner[prog[q].home] = q /\ prog[q].home \in Dirs
      BY <1>3, <2>2 DEF ProgramStates
    <3>2. prog[q].home # d
      <4>1. CASE r.cmd = "export" \/ r.left
        BY <1>3, <1>1, <3>1, <4>1
      <4>2. CASE r.cmd # "export" /\ ~r.left
        BY <1>1, <2>2, <3>1, <4>2, LockIsOnes DEF Target
      <4> QED BY <4>1, <4>2
    <3>3. prog[q].home \notin raced
      BY <1>3, <3>1, <3>2
    <3>4. Kept(prog[q].home)' = stored'[prog[q].home].accounts
      BY <3>1 DEF Kept
    <3> QED BY <1>3, <3>1, <3>2, <3>3, <3>4 DEF OwnerKnowsContent, Kept
  <2> QED BY <2>1, <2>2
<1> QED BY <1>5, <1>7

(* Only the holder of a lock closes it.                                    *)
LEMMA ReleaseStep ==
  ASSUME OwnerInv, NEW p \in Programs, Release(p)
  PROVE  LockTells' /\ LifeTells' /\ OwnerKnowsContent'
<1> USE DirectoryAssumption DEF OwnerInv, DirTypeOK
<1> DEFINE r == prog[p]
           s == [r EXCEPT !.left = TRUE]
<1>1. r \in ProgramStates /\ ~r.left /\ r.step \notin {"out", "load"}
  BY DEF Release, LifeTells
<1>2. s.step = r.step /\ s.home = r.home /\ s.cmd = r.cmd /\ s.known = r.known
  BY <1>1 DEF ProgramStates
<1>8. s.left
  BY <1>1 DEF ProgramStates
<1>3. prog' = [prog EXCEPT ![p] = s] /\ owner' = [owner EXCEPT ![r.home] = Nobody]
      /\ stored' = stored /\ raced' = raced
  BY DEF Release, Becomes
<1> HIDE DEF s
<1>4. owner[r.home] = p /\ r.home \in Dirs
  BY <1>1 DEF LockTells, ProgramStates
<1>5. LifeTells'
  BY <1>1, <1>2, <1>3 DEF LifeTells
<1>6. LockTells'
  BY <1>1, <1>2, <1>8, <1>3, <1>4 DEF LockTells
<1>7. OwnerKnowsContent'
  <2> SUFFICES ASSUME NEW q \in Programs, (owner[prog[q].home] = q)',
                      (prog[q].cmd # "export")', (prog[q].home \notin raced)',
                      (prog[q].step \in Saving \cup {"serve", "done"})'
               PROVE  (prog[q].known = Kept(prog[q].home))'
    BY DEF OwnerKnowsContent
  <2>1. q # p
    BY <1>2, <1>3, <1>4
  <2>2. prog'[q] = prog[q] /\ prog[q].home \in Dirs
    BY <1>3, <2>1 DEF ProgramStates
  <2>3. owner[prog[q].home] = q
    BY <1>3, <2>1, <2>2
  <2> QED BY <1>3, <2>2, <2>3 DEF OwnerKnowsContent, Kept
<1> QED BY <1>5, <1>6, <1>7

LEMMA OwnerStep == OwnerInv /\ [DirNext]_dirVars => OwnerInv'
<1> SUFFICES ASSUME OwnerInv, [DirNext]_dirVars PROVE OwnerInv'
  OBVIOUS
<1>1. CASE UNCHANGED dirVars
  BY <1>1 DEF dirVars, OwnerInv, DirTypeOK, LockTells, LifeTells, KeyChosen,
     OwnerKnowsContent, Kept
<1>2. CASE DirNext
  <2>1. DirTypeOK' /\ KeyChosen'
    BY <1>2, TypeStep DEF OwnerInv
  <2>2. PICK p \in Programs :
      \/ \E c \in Commands, d, e \in Dirs : Start(p, c, d, e)
      \/ Load(p) \/ Import(p) \/ Export(p) \/ LoadRefused(p) \/ Mutate(p)
      \/ Inspect(p) \/ Create(p) \/ Fill(p) \/ CloseKey(p) \/ KeyFails(p)
      \/ SaveRefused(p) \/ Write(p) \/ Release(p) \/ Gone(p)
    BY <1>2 DEF DirNext
  <2>3. CASE \E c \in Commands, d, e \in Dirs : Start(p, c, d, e)
    BY <2>1, <2>3, StartStep DEF OwnerInv
  <2>4. CASE Load(p) \/ Import(p) \/ Export(p)
    BY <2>1, <2>4, LoadStep DEF OwnerInv
  <2>5. CASE \/ LoadRefused(p) \/ Gone(p)
             \/ ~prog[p].up /\ (KeyFails(p) \/ SaveRefused(p))
    <3>1. Ends(p) /\ stored' = stored /\ raced' = raced
      BY <2>5 DEF LoadRefused, Gone, KeyFails, SaveRefused, GivesUp
    <3> QED BY <2>1, <3>1, EndsStep DEF OwnerInv
  <2>6. CASE \/ Mutate(p) \/ Inspect(p) \/ Create(p) \/ Fill(p) \/ CloseKey(p)
             \/ (prog[p].up /\ (KeyFails(p) \/ SaveRefused(p)))
    <3>1. StaysAtWork(p)
      BY <2>6, AtWork DEF OwnerInv
    <3>2. LockTells' /\ OwnerKnowsContent'
      BY <3>1, AtWorkStep
    <3>3. LifeTells'
      BY <3>1 DEF LifeTells, StaysAtWork, OwnerInv, Saving
    <3> QED BY <2>1, <3>2, <3>3 DEF OwnerInv
  <2>7. CASE Write(p)
    BY <2>1, <2>7, WriteStep DEF OwnerInv
  <2>8. CASE Release(p)
    BY <2>1, <2>8, ReleaseStep DEF OwnerInv
  <2> QED BY <2>2, <2>3, <2>4, <2>5, <2>6, <2>7, <2>8
<1> QED BY <1>1, <1>2

(* The states of the directories and of the programs are of their kinds.   *)
THEOREM DirectoryTyped == DirSpec => []DirTypeOK
<1>1. OwnerInv => DirTypeOK
  BY DEF OwnerInv
<1> QED BY <1>1, OwnerInit, OwnerStep, PTL DEF DirSpec

(* Whoever holds a data directory knows what its state.bin has, from its   *)
(* load to its end (main with Acquire, New, ImportInto): for any number of *)
(* programs, directories and accounts, and with a program that dies at any *)
(* step.                                                                   *)
THEOREM DirectoryKnown == DirSpec => []OwnerKnowsContent
<1>1. OwnerInv => OwnerKnowsContent
  BY DEF OwnerInv
<1> QED BY <1>1, OwnerInit, OwnerStep, PTL DEF DirSpec

(* A program that makes a key.bin is alone with it: it has half of it, or  *)
(* all of it and has not closed it.                                        *)
MakesAlone ==
  /\ \A p \in Programs :
       /\ prog[p].step = "fill" => key[Target(p)] = HalfKey
       /\ prog[p].step = "close" => key[Target(p)] = prog[p].key
  /\ \A p, q \in Programs :
       /\ prog[p].step \in {"fill", "close"} /\ prog[q].step \in {"fill", "close"}
       /\ Target(p) = Target(q)
       => p = q

(* What is about to be written is sealed under the key of its directory,   *)
(* or that key was taken away by a failed Close.                           *)
SealsRight ==
  \A p \in Programs :
    prog[p].step = "write" /\ Target(p) \notin orphaned => prog[p].key = key[Target(p)]

(* A helper or an import that has loaded its directory saves into one that *)
(* it could read, and still can.                                           *)
LoadedReadable ==
  \A p \in Programs :
    /\ prog[p].step \in Saving \cup {"serve"}
    /\ prog[p].cmd # "export" /\ prog[p].home \notin orphaned
    => Readable(prog[p].home)

KeyInv == DirTypeOK /\ KeyChosen /\ MakesAlone /\ SealsRight /\ LoadedReadable

LEMMA KeyInit == DirInit => KeyInv
<1> SUFFICES ASSUME DirInit PROVE KeyInv
  OBVIOUS
<1>1. \A p \in Programs : prog[p].step = "out"
  BY DEF DirInit, Out
<1>2. DirTypeOK
  BY OwnerInit DEF OwnerInv
<1> QED BY <1>1, <1>2 DEF KeyInv, KeyChosen, MakesAlone, SealsRight, LoadedReadable, Saving

(* A state that opens is sealed under a complete key.                      *)
LEMMA OpensUnderKey ==
  ASSUME DirTypeOK, NEW d \in Dirs, Opens(d)
  PROVE  key[d] \in Keys
  BY DEF DirTypeOK, Opens, States

(* What a step of one program leaves of the others.                        *)
OthersStay(p) ==
  /\ \A q \in Programs \ {p} : prog'[q] = prog[q]
  /\ orphaned \subseteq orphaned'

(* Every step changes its own program only, and no history is lost.        *)
LEMMA OneMoves ==
  ASSUME DirTypeOK, NEW p \in Programs,
      \/ \E c \in Commands, d, e \in Dirs : Start(p, c, d, e)
      \/ Load(p) \/ Import(p) \/ Export(p) \/ LoadRefused(p) \/ Mutate(p)
      \/ Inspect(p) \/ Create(p) \/ Fill(p) \/ CloseKey(p) \/ KeyFails(p)
      \/ SaveRefused(p) \/ Write(p) \/ Release(p) \/ Gone(p)
  PROVE  OthersStay(p)
<1> USE DEF DirTypeOK, OthersStay
<1>1. CASE \E c \in Commands, d, e \in Dirs : Start(p, c, d, e)
  BY <1>1 DEF Start, Becomes
<1>2. CASE Load(p) \/ Import(p) \/ Export(p)
  BY <1>2 DEF Load, Import, Export, Becomes
<1>3. CASE LoadRefused(p) \/ Gone(p)
  BY <1>3 DEF LoadRefused, Gone, Ends
<1>4. CASE \/ Mutate(p) \/ Inspect(p) \/ Create(p) \/ Fill(p) \/ CloseKey(p)
  <2>1. StaysAtWork(p)
    BY <1>4, AtWork
  <2> QED BY <1>4, <2>1 DEF StaysAtWork, Mutate, Inspect, Create, Fill, CloseKey
<1>5. CASE KeyFails(p) \/ SaveRefused(p)
  BY <1>5 DEF KeyFails, SaveRefused, GivesUp, Becomes, Ends
<1>6. CASE Write(p) \/ Release(p)
  BY <1>6 DEF Write, Release, Becomes
<1> QED BY <1>1, <1>2, <1>3, <1>4, <1>5, <1>6

(* The steps that leave key.bin and state.bin alone.                       *)
Quiet(p) ==
  \/ \E c \in Commands, d, e \in Dirs : Start(p, c, d, e)
  \/ Load(p) \/ Import(p) \/ Export(p) \/ LoadRefused(p) \/ Mutate(p)
  \/ Inspect(p) \/ CloseKey(p) \/ SaveRefused(p) \/ Release(p) \/ Gone(p)
  \/ Create(p) /\ key[Target(p)] # NoKey

LEMMA QuietKeepsFiles ==
  ASSUME NEW p \in Programs, Quiet(p)
  PROVE  key' = key /\ stored' = stored /\ orphaned' = orphaned
  BY DEF Quiet, Start, Load, Import, Export, LoadRefused, Mutate, Inspect, CloseKey,
     SaveRefused, Release, Gone, Create

(* No step makes a directory unreadable, but the removal of a key.bin that *)
(* somebody has read.                                                      *)
LEMMA ReadableStep ==
  ASSUME KeyInv, DirNext, NEW d \in Dirs, d \notin orphaned', Readable(d)
  PROVE  Readable(d)'
<1> USE DirectoryAssumption DEF KeyInv, DirTypeOK
<1> PICK p \in Programs : Quiet(p) \/ Fill(p) \/ KeyFails(p) \/ Write(p)
                          \/ (Create(p) /\ key[Target(p)] = NoKey)
  BY DEF DirNext, Quiet
<1>t. prog[p] \in ProgramStates /\ Target(p) \in Dirs
  BY TargetTyped
<1>o. Opens(d) => key[d] \in Keys
  BY OpensUnderKey
<1>1. CASE Quiet(p)
  BY <1>1, QuietKeepsFiles DEF Readable, Opens
<1>2. CASE Create(p) /\ key[Target(p)] = NoKey
  BY <1>2, <1>o, <1>t DEF Create, Readable, Opens
<1>3. CASE Fill(p)
  <2>1. key[Target(p)] = HalfKey
    BY <1>3 DEF Fill, MakesAlone
  <2> QED BY <1>3, <1>o, <1>t, <2>1 DEF Fill, Readable, Opens
<1>4. CASE KeyFails(p)
  <2>1. stored' = stored /\ key' = [key EXCEPT ![Target(p)] = NoKey]
    BY <1>4 DEF KeyFails
  <2>2. CASE d = Target(p) /\ Opens(d)
    <3>1. key[d] = prog[p].key
      BY <1>4, <1>o, <2>2 DEF KeyFails, MakesAlone
    <3>2. d \in orphaned'
      BY <1>4, <2>2, <3>1 DEF KeyFails, Opens
    <3> QED BY <3>2
  <2>3. CASE d # Target(p) \/ ~Opens(d)
    BY <2>1, <2>3, <1>t DEF Readable, Opens
  <2> QED BY <2>2, <2>3
<1>5. CASE Write(p)
  <2>1. key' = key /\ orphaned' = orphaned
        /\ stored' = [stored EXCEPT ![Target(p)] = [key |-> prog[p].key, accounts |-> prog[p].data]]
    BY <1>5 DEF Write
  <2>2. CASE d = Target(p)
    <3>1. prog[p].key = key[d] /\ prog[p].key \in Keys
      BY <1>5, <2>1, <2>2 DEF Write, SealsRight, KeyChosen
    <3>2. stored'[d] = [key |-> prog[p].key, accounts |-> prog[p].data]
      BY <2>1, <2>2
    <3>3. stored'[d].key = key'[d] /\ stored'[d].key # NoKey
      BY <2>1, <3>1, <3>2
    <3>4. stored'[d] # NoState
      BY <3>3 DEF NoState
    <3> QED BY <3>3, <3>4 DEF Readable, Opens
  <2>3. CASE d # Target(p)
    BY <2>1, <2>3 DEF Readable, Opens
  <2> QED BY <2>2, <2>3
<1> QED BY <1>1, <1>2, <1>3, <1>4, <1>5

(* Nothing but an export writes to a directory that does not open.         *)
LEMMA UnreadableStep ==
  ASSUME KeyInv, DirNext, NEW d \in Dirs, d \notin orphaned, ~Readable(d),
         stored'[d] # stored[d] \/ key'[d] # key[d]
  PROVE  \E p \in Programs : prog[p].cmd = "export" /\ Target(p) = d
                             /\ prog[p].step \in Saving
<1> USE DEF KeyInv, DirTypeOK
<1> PICK p \in Programs : Quiet(p) \/ Fill(p) \/ KeyFails(p) \/ Write(p)
                          \/ (Create(p) /\ key[Target(p)] = NoKey)
  BY DEF DirNext, Quiet
<1>1. ~Quiet(p)
  BY QuietKeepsFiles
<1>2. d = Target(p) /\ prog[p].step \in Saving
  <2>1. CASE Fill(p) \/ KeyFails(p)
    BY <2>1 DEF Fill, KeyFails, Saving
  <2>2. CASE Write(p) \/ (Create(p) /\ key[Target(p)] = NoKey)
    BY <2>2 DEF Write, Create, Saving
  <2> QED BY <1>1, <2>1, <2>2
<1>3. prog[p].cmd = "export"
  BY <1>2 DEF LoadedReadable, Target
<1> QED BY <1>2, <1>3

LEMMA LoadedStep ==
  ASSUME KeyInv, DirNext, DirTypeOK'
  PROVE  LoadedReadable'
<1> USE DEF KeyInv, DirTypeOK
<1> PICK p \in Programs :
      \/ \E c \in Commands, d, e \in Dirs : Start(p, c, d, e)
      \/ Load(p) \/ Import(p) \/ Export(p) \/ LoadRefused(p) \/ Mutate(p)
      \/ Inspect(p) \/ Create(p) \/ Fill(p) \/ CloseKey(p) \/ KeyFails(p)
      \/ SaveRefused(p) \/ Write(p) \/ Release(p) \/ Gone(p)
  BY DEF DirNext
<1>o. OthersStay(p)
  BY OneMoves
<1>t. prog[p] \in ProgramStates
  OBVIOUS
<1> SUFFICES ASSUME NEW q \in Programs, (prog[q].step \in Saving \cup {"serve"})',
                    (prog[q].cmd # "export")', (prog[q].home \notin orphaned)'
             PROVE  Readable(prog[q].home)'
  BY DEF LoadedReadable
<1>13. prog'[q].step # "load"
  BY DEF Saving
<1> PICK d \in Dirs : d = prog'[q].home
  BY DEF ProgramStates
<1>1. Readable(d) => Readable(d)'
  BY ReadableStep
<1>2. CASE /\ prog'[q].home = prog[q].home /\ prog'[q].cmd = prog[q].cmd
           /\ prog[q].step \in Saving \cup {"serve"}
  BY <1>o, <1>1, <1>2 DEF LoadedReadable, Readable, Opens, OthersStay
<1>3. CASE q # p
  BY <1>2, <1>3, <1>o DEF OthersStay
<1>4. CASE q = p /\ \E c \in Commands, e, f \in Dirs : Start(p, c, e, f)
  <2>1. PICK c \in Commands, e \in Dirs, f \in Dirs : Start(p, c, e, f)
    BY <1>4
  <2> DEFINE s == [prog[p] EXCEPT !.step = "load", !.cmd = c, !.home = e, !.other = f]
  <2>2. s.step = "load" /\ prog'[p] = s
    BY <1>t, <2>1 DEF Start, Becomes, ProgramStates
  <2> HIDE DEF s
  <2>3. prog'[q].step = "load"
    BY <1>4, <2>2
  <2> QED BY <1>13, <2>3
<1>5. CASE q = p /\ (Load(p) \/ Import(p))
  <2>1. prog'[p].home = prog[p].home
    <3>1. CASE Load(p)
      BY <1>t, <3>1 DEF Load, Becomes, ProgramStates
    <3>2. CASE Import(p)
      BY <1>t, <3>2 DEF Import, Becomes, ProgramStates
    <3> QED BY <1>5, <3>1, <3>2
  <2>2. Readable(d)
    BY <1>5, <2>1 DEF Load, Import
  <2> QED BY <1>1, <2>2 DEF Readable, Opens
<1>6. CASE q = p /\ Export(p)
  BY <1>6, <1>t DEF Export, Becomes, ProgramStates
<1>7. CASE q = p /\ Ends(p)
  BY <1>7 DEF Ends, Out, Saving
<1>8. CASE q = p /\ StaysAtWork(p)
  BY <1>2, <1>8 DEF StaysAtWork
<1>9. CASE q = p /\ Write(p)
  <2> DEFINE r == prog[p]
             s == [r EXCEPT !.step = IF r.cmd = "serve" THEN "serve" ELSE "done",
                            !.up = (r.cmd = "serve"), !.known = r.data, !.key = NoKey]
  <2>1. s.home = r.home /\ s.cmd = r.cmd /\ r.step \in Saving
    BY <1>9, <1>t DEF ProgramStates, Write, Saving
  <2>2. prog'[p] = s
    BY <1>9 DEF Write, Becomes
  <2> QED BY <1>2, <1>9, <2>1, <2>2
<1>10. CASE q = p /\ Release(p)
  BY <1>2, <1>10, <1>t DEF Release, Becomes, ProgramStates
<1>11. CASE q = p /\ (LoadRefused(p) \/ Gone(p) \/ ((KeyFails(p) \/ SaveRefused(p)) /\ ~prog[p].up))
  BY <1>7, <1>11 DEF LoadRefused, Gone, KeyFails, SaveRefused, GivesUp
<1>12. CASE q = p /\ (\/ Mutate(p) \/ Inspect(p) \/ Create(p) \/ Fill(p) \/ CloseKey(p)
                      \/ (prog[p].up /\ (KeyFails(p) \/ SaveRefused(p))))
  BY <1>8, <1>12, AtWork
<1> QED BY <1>3, <1>4, <1>5, <1>6, <1>9, <1>10, <1>11, <1>12

(* Where a program at work stands after its step.                          *)
LEMMA TargetStays ==
  ASSUME NEW p \in Programs, StaysAtWork(p)
  PROVE  Target(p)' = Target(p)
  BY DEF StaysAtWork, Target

(* A step after which the program makes no key and writes nothing.         *)
LEMMA IdleAfter ==
  ASSUME KeyInv, NEW p \in Programs, OthersStay(p), key' = key,
         prog'[p].step \notin {"fill", "close", "write"}
  PROVE  MakesAlone' /\ SealsRight'
<1> USE DEF KeyInv
<1>1. \A q \in Programs \ {p} : prog'[q] = prog[q] /\ Target(q)' = Target(q)
  BY DEF OthersStay, Target
<1>2. MakesAlone'
  BY <1>1 DEF MakesAlone
<1>3. SealsRight'
  BY <1>1 DEF SealsRight, OthersStay
<1> QED BY <1>2, <1>3

LEMMA GivingUp ==
  ASSUME DirTypeOK, NEW p \in Programs, GivesUp(p)
  PROVE  prog'[p].step \in {"serve", "out"}
<1> USE DEF DirTypeOK
<1>1. CASE prog[p].up
  <2> DEFINE s == [prog[p] EXCEPT !.step = "serve", !.data = prog[p].known, !.key = NoKey]
  <2>1. s.step = "serve" /\ prog' = [prog EXCEPT ![p] = s]
    BY <1>1 DEF GivesUp, Becomes, ProgramStates
  <2> QED BY <2>1
<1>2. CASE ~prog[p].up
  BY <1>2 DEF GivesUp, Ends, Out
<1> QED BY <1>1, <1>2

LEMMA MakeStep ==
  ASSUME KeyInv, NEW p \in Programs, OthersStay(p), DirTypeOK', KeyChosen',
         \/ \E c \in Commands, d, e \in Dirs : Start(p, c, d, e)
         \/ Load(p) \/ Import(p) \/ Export(p) \/ LoadRefused(p) \/ Mutate(p)
         \/ Inspect(p) \/ Create(p) \/ Fill(p) \/ CloseKey(p) \/ KeyFails(p)
         \/ SaveRefused(p) \/ Write(p) \/ Release(p) \/ Gone(p)
  PROVE  MakesAlone' /\ SealsRight'
<1> USE DirectoryAssumption DEF KeyInv, DirTypeOK
<1> DEFINE r == prog[p]
<1>t. r \in ProgramStates /\ prog \in [Programs -> ProgramStates]
      /\ prog' \in [Programs -> ProgramStates]
  OBVIOUS
<1> PICK d \in Dirs : d = Target(p)
  BY TargetTyped
<1>q. \A q \in Programs : q # p =>
        prog'[q] = prog[q] /\ Target(q)' = Target(q) /\ Target(q) \in Dirs
  BY TargetTyped DEF OthersStay, Target
<1>1. CASE \E c \in Commands, e, f \in Dirs : Start(p, c, e, f)
  <2>1. PICK c \in Commands, e \in Dirs, f \in Dirs : Start(p, c, e, f)
    BY <1>1
  <2> DEFINE s == [r EXCEPT !.step = "load", !.cmd = c, !.home = e, !.other = f]
  <2>2. s.step = "load" /\ prog'[p] = s /\ key' = key
    BY <1>t, <2>1 DEF Start, Becomes, ProgramStates
  <2> QED BY <2>2, IdleAfter
<1>2. CASE Load(p) \/ Import(p) \/ Export(p)
  <2>1. CASE Load(p)
    BY <1>t, <2>1, IdleAfter DEF Load, Becomes, ProgramStates
  <2>2. CASE Import(p)
    BY <1>t, <2>2, IdleAfter DEF Import, Becomes, ProgramStates
  <2>3. CASE Export(p)
    BY <1>t, <2>3, IdleAfter DEF Export, Becomes, ProgramStates
  <2> QED BY <1>2, <2>1, <2>2, <2>3
<1>3. CASE LoadRefused(p) \/ Gone(p)
  <2>1. prog'[p].step = "out" /\ key' = key
    BY <1>3 DEF LoadRefused, Gone, Ends, Out
  <2> QED BY <2>1, IdleAfter
<1>4. CASE SaveRefused(p)
  <2>1. prog'[p].step \in {"serve", "out"} /\ key' = key
    BY <1>4, GivingUp DEF SaveRefused
  <2> QED BY <2>1, IdleAfter
<1>9. CASE Mutate(p)
  <2>1. PICK now : Becomes(p, [r EXCEPT !.step = "inspect", !.data = now])
    <3>1. PICK a \in Accounts :
            Becomes(p, [r EXCEPT !.step = "inspect",
              !.data = IF a \in r.known THEN r.known \ {a} ELSE r.known \cup {a}])
      BY <1>9 DEF Mutate
    <3> QED BY <3>1
  <2>2. prog'[p].step = "inspect"
    BY <1>t, <2>1 DEF Becomes, ProgramStates
  <2>3. key' = key
    BY <1>9 DEF Mutate
  <2> QED BY <2>2, <2>3, IdleAfter
<1>5. CASE Write(p)
  <2> DEFINE s == [r EXCEPT !.step = IF r.cmd = "serve" THEN "serve" ELSE "done",
                            !.up = (r.cmd = "serve"), !.known = r.data, !.key = NoKey]
  <2>1. s.step \in {"serve", "done"} /\ prog'[p] = s /\ key' = key
    BY <1>5, <1>t DEF Write, Becomes, ProgramStates
  <2> QED BY <2>1, IdleAfter
<1>6. CASE Release(p)
  <2>1. prog'[p].step = r.step /\ prog'[p].key = r.key /\ Target(p)' = Target(p)
    BY <1>6, <1>t DEF Release, Becomes, ProgramStates, Target
  <2>2. key' = key /\ orphaned' = orphaned
    BY <1>6 DEF Release
  <2>3. \A q \in Programs : prog'[q].step = prog[q].step /\ prog'[q].key = prog[q].key
                            /\ Target(q)' = Target(q)
    BY <1>q, <2>1
  <2> QED BY <2>2, <2>3 DEF MakesAlone, SealsRight
<1>7. CASE Inspect(p) \/ Create(p) \/ Fill(p) \/ CloseKey(p)
  <2>t. Target(p)' = d
    BY <1>7, AtWork, TargetStays
  <2>1. CASE Inspect(p) /\ key[d] = NoKey
    <3>1. prog'[p].step = "create" /\ key' = key
      BY <2>1, <1>t DEF Inspect, Becomes, ProgramStates
    <3> QED BY <3>1, IdleAfter
  <2>2. CASE (Inspect(p) \/ Create(p)) /\ key[d] # NoKey
    <3>0. Becomes(p, [r EXCEPT !.step = "write", !.key = key[d]])
          /\ key' = key /\ orphaned' = orphaned
      BY <2>2 DEF Inspect, Create
    <3>1. prog'[p].step = "write" /\ prog'[p].key = key[d]
      BY <3>0, <1>t DEF Becomes, ProgramStates
    <3> QED BY <1>q, <2>t, <3>0, <3>1 DEF MakesAlone, SealsRight
  <2>3. CASE Create(p) /\ key[d] = NoKey
    <3>1. prog'[p].step = "fill" /\ key' = [key EXCEPT ![d] = HalfKey] /\ orphaned' = orphaned
      <4>1. PICK k \in Keys : Becomes(p, [r EXCEPT !.step = "fill", !.key = k])
        BY <2>3 DEF Create
      <4>2. prog'[p].step = "fill"
        BY <4>1, <1>t DEF Becomes, ProgramStates
      <4> QED BY <2>3, <4>2 DEF Create
    <3>2. \A q \in Programs : prog[q].step \in {"fill", "close", "write"} /\ Target(q) = d
                              => prog[q].step = "write" /\ d \in orphaned
      BY <2>3 DEF MakesAlone, SealsRight, KeyChosen, HalfKey, NoKey
    <3>3. MakesAlone'
      BY <1>q, <2>t, <3>1, <3>2 DEF MakesAlone
    <3>4. SealsRight'
      BY <1>q, <2>t, <3>1, <3>2 DEF SealsRight
    <3> QED BY <3>3, <3>4
  <2>4. CASE Fill(p)
    <3>1. prog'[p].step = "close" /\ prog'[p].key = r.key /\ r.step = "fill"
          /\ key' = [key EXCEPT ![d] = r.key] /\ orphaned' = orphaned
      BY <2>4, <1>t DEF Fill, Becomes, ProgramStates
    <3>2. \A q \in Programs : q # p /\ Target(q) = d => prog[q].step \notin {"fill", "close"}
      BY <3>1 DEF MakesAlone
    <3>3. \A q \in Programs : q # p /\ Target(q) = d /\ prog[q].step = "write" => d \in orphaned
      BY <3>1 DEF MakesAlone, SealsRight, KeyChosen
    <3>4. MakesAlone'
      BY <1>q, <2>t, <3>1, <3>2 DEF MakesAlone
    <3>5. SealsRight'
      BY <1>q, <2>t, <3>1, <3>3 DEF SealsRight
    <3> QED BY <3>4, <3>5
  <2>5. CASE CloseKey(p)
    <3>1. prog'[p].step = "write" /\ prog'[p].key = r.key /\ r.step = "close"
          /\ key' = key /\ orphaned' = orphaned
      BY <2>5, <1>t DEF CloseKey, Becomes, ProgramStates
    <3>2. r.key = key[d]
      BY <3>1 DEF MakesAlone
    <3> QED BY <1>q, <2>t, <3>1, <3>2 DEF MakesAlone, SealsRight
  <2> QED BY <1>7, <2>1, <2>2, <2>3, <2>4, <2>5
<1>8. CASE KeyFails(p)
  <2>1. prog'[p].step \in {"serve", "out"}
    BY <1>8, GivingUp DEF KeyFails
  <2>2. r.step \in {"fill", "close"} /\ key' = [key EXCEPT ![d] = NoKey]
    BY <1>8 DEF KeyFails
  <2>3. \A q \in Programs : q # p /\ Target(q) = d => prog[q].step \notin {"fill", "close"}
    BY <2>2 DEF MakesAlone
  <2>4. \A q \in Programs : q # p /\ Target(q) = d /\ prog[q].step = "write" => d \in orphaned'
    <3> SUFFICES ASSUME NEW q \in Programs, q # p, Target(q) = d, prog[q].step = "write",
                        d \notin orphaned
                 PROVE  d \in orphaned'
      BY DEF OthersStay
    <3>1. prog[q].key = key[d] /\ key[d] \in Keys
      BY DEF SealsRight, KeyChosen
    <3>2. prog[p].key = key[d]
      BY <2>2, <3>1 DEF MakesAlone
    <3>3. q \in {x \in Programs \ {p} : Target(x) = d /\ prog[x].key = prog[p].key}
      BY <3>1, <3>2
    <3> DEFINE readers == {x \in Programs \ {p} : Target(x) = Target(p)
                                                 /\ prog[x].key = prog[p].key}
    <3>4. orphaned' = IF readers # {} \/ stored[Target(p)].key = prog[p].key
                        THEN orphaned \cup {Target(p)} ELSE orphaned
      BY <1>8 DEF KeyFails
    <3>5. readers # {}
      BY <3>3
    <3> HIDE DEF readers
    <3> QED BY <3>4, <3>5
  <2>5. MakesAlone'
    BY <1>q, <2>1, <2>2, <2>3 DEF MakesAlone
  <2>6. SealsRight'
    BY <1>q, <2>1, <2>2, <2>4 DEF SealsRight, OthersStay
  <2> QED BY <2>5, <2>6
<1> QED BY <1>1, <1>2, <1>3, <1>4, <1>5, <1>6, <1>7, <1>8, <1>9

LEMMA KeyStep == KeyInv /\ [DirNext]_dirVars => KeyInv'
<1> SUFFICES ASSUME KeyInv, [DirNext]_dirVars PROVE KeyInv'
  OBVIOUS
<1>1. CASE UNCHANGED dirVars
  BY <1>1 DEF dirVars, KeyInv, DirTypeOK, KeyChosen, MakesAlone, SealsRight,
     LoadedReadable, Readable, Opens, Target
<1>2. CASE DirNext
  <2>1. DirTypeOK' /\ KeyChosen'
    BY <1>2, TypeStep DEF KeyInv
  <2>2. MakesAlone' /\ SealsRight'
    BY <1>2, <2>1, OneMoves, MakeStep DEF DirNext, KeyInv
  <2>3. LoadedReadable'
    BY <1>2, <2>1, LoadedStep
  <2> QED BY <2>1, <2>2, <2>3 DEF KeyInv
<1> QED BY <1>1, <1>2

(* No step of any program makes a directory unreadable, nor writes into    *)
(* one that is (loadOrCreateKey, ImportInto, New): for any number of       *)
(* programs that save for the first time, or die while they make the key.  *)
THEOREM KeyFilesKept == DirSpec => KeyFileKept
<1>1. KeyInv /\ [DirNext]_dirVars
      => [\A d \in Dirs \ orphaned' : Readable(d) => Readable(d)']_dirVars
  BY ReadableStep
<1>2. KeyInv /\ [DirNext]_dirVars
      => [\A d \in Dirs \ orphaned :
            ~Readable(d) /\ (stored'[d] # stored[d] \/ key'[d] # key[d])
              => \E p \in Programs : prog[p].cmd = "export" /\ Target(p) = d
                                     /\ prog[p].step \in Saving]_dirVars
  BY UnreadableStep
<1> QED BY <1>1, <1>2, KeyInit, KeyStep, PTL DEF DirSpec, KeyFileKept, StaysReadable,
       UnreadableKept

-----------------------------------------------------------------------------
(***************************************************************************)
(* ImportMerge: the merge of an import.                                    *)
(***************************************************************************)

MergeTypeOK ==
  /\ source \in Seq(Account)
  /\ target \in Seq([id : Ids, user : Users \cup {NoUser}])
  /\ limit \in Nat
  /\ toImport \in Seq([id : Ids \cup FreshIds, user : Users])
  /\ turn \in 1 .. (Len(source) + 1)
  /\ outcome \in {"running", "none", "refused", "merged"}

(* The users that the turns so far have shown.                             *)
Shown == {source[i].user : i \in 1 .. (turn - 1)}

MergedSoFar ==
  /\ NoneTwice(Result)
  /\ UsersIn(toImport) = Shown \ (UsersIn(target) \cup {NoUser})

MergeInv == MergeTypeOK /\ Len(target) <= limit /\ MergedSoFar /\ MergeExact

(* The users and the IDs of a list with one account more.                  *)
LEMMA UsersAppend ==
  ASSUME NEW S, NEW s \in Seq(S), NEW a
  PROVE  /\ UsersIn(Append(s, a)) = UsersIn(s) \cup {a.user}
         /\ IdsIn(Append(s, a)) = IdsIn(s) \cup {a.id}
<1> DEFINE w == Append(s, a)
<1>1. /\ DOMAIN s = 1 .. Len(s) /\ DOMAIN w = 1 .. (Len(s) + 1)
      /\ \A i \in 1 .. Len(s) : w[i] = s[i]
      /\ w[Len(s) + 1] = a
  OBVIOUS
<1> PICK n \in Nat : n = Len(s)
  OBVIOUS
<1> HIDE DEF w
<1>2. DOMAIN s = 1 .. n /\ DOMAIN w = 1 .. (n + 1) /\ (\A i \in 1 .. n : w[i] = s[i]) /\ w[n + 1] = a
  BY <1>1
<1>3. 1 .. (n + 1) = (1 .. n) \cup {n + 1}
  OBVIOUS
<1>4. UsersIn(w) = UsersIn(s) \cup {a.user} /\ IdsIn(w) = IdsIn(s) \cup {a.id}
  BY <1>2, <1>3 DEF UsersIn, IdsIn
<1> QED BY <1>4 DEF w

LEMMA NewNotTwice ==
  ASSUME NEW S, NEW s \in Seq(S), NEW a, NoneTwice(s),
         a.id \notin IdsIn(s), a.user \notin UsersIn(s)
  PROVE  NoneTwice(Append(s, a))
<1> DEFINE w == Append(s, a)
<1>1. /\ DOMAIN s = 1 .. Len(s) /\ DOMAIN w = 1 .. (Len(s) + 1)
      /\ \A i \in 1 .. Len(s) : w[i] = s[i]
      /\ w[Len(s) + 1] = a
  OBVIOUS
<1> PICK n \in Nat : n = Len(s)
  OBVIOUS
<1> HIDE DEF w
<1>2. DOMAIN s = 1 .. n /\ DOMAIN w = 1 .. (n + 1) /\ (\A i \in 1 .. n : w[i] = s[i]) /\ w[n + 1] = a
  BY <1>1
<1>3. 1 .. (n + 1) = (1 .. n) \cup {n + 1}
  OBVIOUS
<1>4. NoneTwice(w)
  BY <1>2, <1>3 DEF NoneTwice, UsersIn, IdsIn
<1> QED BY <1>4 DEF w

(* The users of two lists, one after the other.                            *)
LEMMA UsersTogether ==
  ASSUME NEW S, NEW s \in Seq(S), NEW t \in Seq(S)
  PROVE  /\ UsersIn(s \o t) = UsersIn(s) \cup UsersIn(t)
         /\ IdsIn(s \o t) = IdsIn(s) \cup IdsIn(t)
<1> DEFINE w == s \o t
<1>1. /\ DOMAIN s = 1 .. Len(s) /\ DOMAIN t = 1 .. Len(t) /\ DOMAIN w = 1 .. (Len(s) + Len(t))
      /\ \A i \in 1 .. Len(s) : w[i] = s[i]
      /\ \A i \in 1 .. Len(t) : w[Len(s) + i] = t[i]
  OBVIOUS
<1> PICK n \in Nat : n = Len(s)
  OBVIOUS
<1> PICK m \in Nat : m = Len(t)
  OBVIOUS
<1> HIDE DEF w
<1>2. /\ DOMAIN s = 1 .. n /\ DOMAIN t = 1 .. m /\ DOMAIN w = 1 .. (n + m)
      /\ \A i \in 1 .. n : w[i] = s[i]
      /\ \A i \in 1 .. m : w[n + i] = t[i]
  BY <1>1
<1>3. \A k \in 1 .. (n + m) : k \in 1 .. n \/ \E i \in 1 .. m : k = n + i
  <2> TAKE k \in 1 .. (n + m)
  <2>1. CASE k > n
    <3>1. k - n \in 1 .. m /\ k = n + (k - n)
      BY <2>1
    <3> QED BY <3>1
  <2> QED BY <2>1
<1>4. /\ \A i \in 1 .. n : i \in 1 .. (n + m)
      /\ \A i \in 1 .. m : n + i \in 1 .. (n + m)
  OBVIOUS
<1>5. UsersIn(s \o t) = UsersIn(s) \cup UsersIn(t)
  <2>1. ASSUME NEW k \in 1 .. (n + m) PROVE w[k].user \in UsersIn(s) \cup UsersIn(t)
    <3>1. CASE k \in 1 .. n
      BY <1>2, <3>1 DEF UsersIn
    <3>2. ASSUME NEW i \in 1 .. m, k = n + i PROVE w[k].user \in UsersIn(t)
      BY <1>2, <3>2 DEF UsersIn
    <3> QED BY <1>3, <3>1, <3>2
  <2>2. ASSUME NEW i \in 1 .. n PROVE s[i].user \in UsersIn(w)
    BY <1>2, <1>4 DEF UsersIn
  <2>3. ASSUME NEW i \in 1 .. m PROVE t[i].user \in UsersIn(w)
    <3>1. n + i \in DOMAIN w /\ w[n + i] = t[i]
      BY <1>2, <1>4
    <3> QED BY <3>1 DEF UsersIn
  <2>4. UsersIn(w) \subseteq UsersIn(s) \cup UsersIn(t)
    BY <1>2, <2>1 DEF UsersIn
  <2>5. UsersIn(s) \subseteq UsersIn(w)
    BY <1>2, <2>2 DEF UsersIn
  <2>6. UsersIn(t) \subseteq UsersIn(w)
    BY <1>2, <2>3 DEF UsersIn
  <2> QED BY <2>4, <2>5, <2>6 DEF w
<1>6. IdsIn(s \o t) = IdsIn(s) \cup IdsIn(t)
  <2>1. ASSUME NEW k \in 1 .. (n + m) PROVE w[k].id \in IdsIn(s) \cup IdsIn(t)
    <3>1. CASE k \in 1 .. n
      BY <1>2, <3>1 DEF IdsIn
    <3>2. ASSUME NEW i \in 1 .. m, k = n + i PROVE w[k].id \in IdsIn(t)
      BY <1>2, <3>2 DEF IdsIn
    <3> QED BY <1>3, <3>1, <3>2
  <2>2. ASSUME NEW i \in 1 .. n PROVE s[i].id \in IdsIn(w)
    BY <1>2, <1>4 DEF IdsIn
  <2>3. ASSUME NEW i \in 1 .. m PROVE t[i].id \in IdsIn(w)
    <3>1. n + i \in DOMAIN w /\ w[n + i] = t[i]
      BY <1>2, <1>4
    <3> QED BY <3>1 DEF IdsIn
  <2>4. IdsIn(w) \subseteq IdsIn(s) \cup IdsIn(t)
    BY <1>2, <2>1 DEF IdsIn
  <2>5. IdsIn(s) \subseteq IdsIn(w)
    BY <1>2, <2>2 DEF IdsIn
  <2>6. IdsIn(t) \subseteq IdsIn(w)
    BY <1>2, <2>3 DEF IdsIn
  <2> QED BY <2>4, <2>5, <2>6 DEF w
<1> QED BY <1>5, <1>6

LEMMA Widened ==
  ASSUME NEW S, NEW T, S \subseteq T, NEW s \in Seq(S)
  PROVE  s \in Seq(T)
  OBVIOUS

LEMMA AfterFirst ==
  ASSUME NEW S, NEW s \in Seq(S), NEW t \in Seq(S), NEW m, m = Len(s), NEW n, n = Len(t)
  PROVE  \A i \in 1 .. n : m + i \in DOMAIN (s \o t) /\ (s \o t)[m + i] = t[i]
  OBVIOUS

LEMMA ItemTyped ==
  ASSUME NEW S, NEW s \in Seq(S), NEW i \in DOMAIN s PROVE s[i] \in S
  OBVIOUS

(* The accounts of a result.                                               *)
ResultAccounts == [id : Ids \cup FreshIds, user : Users \cup {NoUser}]

LEMMA ResultIds == ASSUME NEW s \in Seq(ResultAccounts) PROVE IdsIn(s) \subseteq Ids \cup FreshIds
<1>1. \A i \in DOMAIN s : s[i] \in ResultAccounts
  OBVIOUS
<1> QED BY <1>1 DEF IdsIn, ResultAccounts

LEMMA ResultTyped ==
  ASSUME MergeTypeOK
  PROVE  target \in Seq(ResultAccounts) /\ toImport \in Seq(ResultAccounts)
<1>1. /\ [id : Ids, user : Users \cup {NoUser}] \subseteq ResultAccounts
      /\ [id : Ids \cup FreshIds, user : Users] \subseteq ResultAccounts
  BY DEF ResultAccounts
<1> QED BY <1>1, Widened DEF MergeTypeOK

(* As many accounts are added as there are users among them.               *)
LEMMA AddedCount ==
  ASSUME MergeTypeOK, NoneTwice(Result)
  PROVE  Len(toImport) = Cardinality(UsersIn(toImport))
<1> PICK n \in Nat : n = Len(toImport)
  BY DEF MergeTypeOK
<1> PICK m \in Nat : m = Len(target)
  BY DEF MergeTypeOK
<1> DEFINE f == [i \in 1 .. n |-> toImport[i].user]
<1>1. DOMAIN toImport = 1 .. n
  BY DEF MergeTypeOK
<1>2. \A i \in 1 .. n : m + i \in DOMAIN Result /\ Result[m + i] = toImport[i]
  BY ResultTyped, AfterFirst DEF Result
<1>3. \A i \in 1 .. n : toImport[i].user # NoUser
  <2> TAKE i \in 1 .. n
  <2>1. toImport[i] \in [id : Ids \cup FreshIds, user : Users]
    BY <1>1, ItemTyped DEF MergeTypeOK
  <2> QED BY <2>1, MergeAssumption
<1>4. \A i, j \in 1 .. n : f[i] = f[j] => i = j
  <2> SUFFICES ASSUME NEW i \in 1 .. n, NEW j \in 1 .. n, f[i] = f[j] PROVE i = j
    OBVIOUS
  <2>1. Result[m + i].user = Result[m + j].user /\ Result[m + i].user # NoUser
    BY <1>2, <1>3
  <2>2. m + i = m + j
    BY <1>2, <2>1 DEF NoneTwice
  <2> QED BY <2>2
<1>5. f \in Bijection(1 .. n, UsersIn(toImport))
  <2>1. f \in [1 .. n -> UsersIn(toImport)]
    BY <1>1 DEF UsersIn
  <2>2. \A u \in UsersIn(toImport) : \E i \in 1 .. n : f[i] = u
    BY <1>1 DEF UsersIn
  <2> HIDE DEF f
  <2> QED BY <1>4, <2>1, <2>2 DEF Bijection, Injection, Surjection, IsInjective
<1>6. ExistsBijection(1 .. n, UsersIn(toImport))
  BY <1>5 DEF ExistsBijection
<1> QED BY <1>6, FS_CountingElements

LEMMA LookStep ==
  ASSUME MergeInv, Look
  PROVE  MergeInv'
<1> PICK x \in Account : x = source[turn]
  BY DEF MergeInv, MergeTypeOK, Look
<1>1. /\ outcome = "running" /\ turn' = turn + 1
      /\ UNCHANGED <<source, target, limit, outcome>>
      /\ turn \in 1 .. Len(source)
  BY DEF MergeInv, MergeTypeOK, Look
<1>2. turn' \in 1 .. (Len(source') + 1)
  <2> PICK n \in Nat : n = Len(source)
    BY DEF MergeInv, MergeTypeOK
  <2>1. turn \in 1 .. n /\ turn' = turn + 1
    BY <1>1
  <2>2. turn + 1 \in 1 .. (n + 1)
    BY <2>1
  <2> QED BY <1>1, <2>2
<1>3. Shown' = Shown \cup {x.user}
  <2>1. turn \in Nat
    BY DEF MergeInv, MergeTypeOK
  <2>2. 1 .. (turn + 1 - 1) = (1 .. (turn - 1)) \cup {turn}
    BY <1>1, <2>1
  <2> QED BY <1>1, <2>2 DEF Shown
<1>4. MergeExact'
  BY <1>1 DEF MergeExact
<1>5. CASE NewAccount(x)
  <2>1. PICK a \in Renamed(x) : toImport' = Append(toImport, a)
    BY <1>5 DEF Look
  <2>2. /\ a.user = x.user /\ a.id \notin IdsIn(target) \cup IdsIn(toImport)
        /\ a \in [id : Ids \cup FreshIds, user : Users]
        /\ a.user \notin UsersIn(target) \cup UsersIn(toImport) \cup {NoUser}
    BY <1>5, MergeAssumption DEF Renamed, NewAccount, existing, existingIDs, Account
  <2>3. toImport' \in Seq([id : Ids \cup FreshIds, user : Users])
    BY <2>1, <2>2 DEF MergeInv, MergeTypeOK
  <2>4. MergeTypeOK'
    BY <1>1, <1>2, <2>3 DEF MergeInv, MergeTypeOK
  <2>5. UsersIn(toImport') = UsersIn(toImport) \cup {x.user}
    BY <2>1, <2>2, UsersAppend DEF MergeInv, MergeTypeOK
  <2>6. UsersIn(toImport)' = Shown' \ (UsersIn(target)' \cup {NoUser})
    BY <1>1, <1>3, <2>2, <2>5 DEF MergeInv, MergedSoFar
  <2>7. NoneTwice(Result)'
    <3>1. target \in Seq(ResultAccounts) /\ toImport \in Seq(ResultAccounts) /\ a \in ResultAccounts
      BY <2>2, ResultTyped DEF MergeInv, ResultAccounts
    <3>2. Result \in Seq(ResultAccounts) /\ Append(Result, a) = target \o Append(toImport, a)
      BY <3>1 DEF Result
    <3>3. UsersIn(Result) = UsersIn(target) \cup UsersIn(toImport)
          /\ IdsIn(Result) = IdsIn(target) \cup IdsIn(toImport)
      BY <3>1, UsersTogether DEF Result
    <3>4. NoneTwice(Append(Result, a))
      BY <2>2, <3>2, <3>3, NewNotTwice DEF MergeInv, MergedSoFar
    <3>5. Result' = Append(Result, a)
      BY <1>1, <2>1, <3>2 DEF Result
    <3> QED BY <3>4, <3>5 DEF NoneTwice
  <2> QED BY <1>1, <1>4, <2>4, <2>6, <2>7 DEF MergeInv, MergedSoFar
<1>6. CASE ~NewAccount(x)
  <2>1. toImport' = toImport
    BY <1>6 DEF Look
  <2>2. MergeTypeOK'
    BY <1>1, <1>2, <2>1 DEF MergeInv, MergeTypeOK
  <2>3. NoneTwice(Result)'
    BY <1>1, <2>1 DEF MergeInv, MergedSoFar, Result, NoneTwice
  <2>4. x.user \in UsersIn(target) \cup UsersIn(toImport) \cup {NoUser}
    BY <1>6 DEF NewAccount, existing
  <2>5. UsersIn(toImport)' = Shown' \ (UsersIn(target)' \cup {NoUser})
    BY <1>1, <1>3, <2>1, <2>4 DEF MergeInv, MergedSoFar, UsersIn
  <2> QED BY <1>1, <1>4, <2>2, <2>3, <2>5 DEF MergeInv, MergedSoFar
<1> QED BY <1>5, <1>6

LEMMA MergeStart == MergeInit => MergeInv
<1> SUFFICES ASSUME MergeInit PROVE MergeInv
  OBVIOUS
<1>1. source \in Seq(Account) /\ target \in Seq([id : Ids, user : Users \cup {NoUser}])
  <2>1. ASSUME NEW S, NEW s \in SeqOf(S, MaxLength) PROVE s \in Seq(S)
    BY <2>1, MergeAssumption DEF SeqOf
  <2> QED BY <2>1 DEF MergeInit
<1>2. limit \in Nat /\ Len(target) <= limit /\ toImport = <<>> /\ turn = 1 /\ outcome = "running"
  BY MergeAssumption DEF MergeInit
<1>3. toImport \in Seq([id : Ids \cup FreshIds, user : Users])
  BY <1>2
<1>4. turn \in 1 .. (Len(source) + 1)
  BY <1>1, <1>2
<1>5. MergeTypeOK
  BY <1>1, <1>2, <1>3, <1>4 DEF MergeTypeOK
<1>6. Result = target
  BY <1>1, <1>2 DEF Result
<1>7. Shown = {}
  BY <1>2 DEF Shown
<1>8. UsersIn(toImport) = {}
  BY <1>2 DEF UsersIn
<1>9. MergedSoFar
  BY <1>6, <1>7, <1>8 DEF MergedSoFar, MergeInit
<1> QED BY <1>2, <1>5, <1>9 DEF MergeInv, MergeExact

LEMMA FinishStep ==
  ASSUME MergeInv, Finish
  PROVE  MergeInv'
<1>1. /\ outcome = "running" /\ turn > Len(source)
      /\ UNCHANGED <<source, target, limit, toImport, turn>>
  BY DEF Finish
<1>2. \/ toImport = <<>> /\ outcome' = "none"
      \/ toImport # <<>> /\ Len(target) + Len(toImport) > limit /\ outcome' = "refused"
      \/ toImport # <<>> /\ Len(target) + Len(toImport) <= limit /\ outcome' = "merged"
  <2>1. Len(target) \in Nat /\ Len(toImport) \in Nat /\ limit \in Nat
    BY DEF MergeInv, MergeTypeOK
  <2> QED BY <2>1 DEF Finish
<1>3. MergeTypeOK' /\ MergedSoFar' /\ (Len(target) <= limit)'
  <2>1. MergeTypeOK'
    BY <1>1, <1>2 DEF MergeInv, MergeTypeOK
  <2>2. Result' = Result /\ UsersIn(toImport)' = UsersIn(toImport) /\ Shown' = Shown
        /\ UsersIn(target)' = UsersIn(target)
    BY <1>1 DEF Result, UsersIn, Shown
  <2> QED BY <1>1, <2>1, <2>2 DEF MergeInv, MergedSoFar, NoneTwice
<1>4. UsersIn(toImport) = Missing
  <2> PICK n \in Nat : n = Len(source)
    BY DEF MergeInv, MergeTypeOK
  <2>1. DOMAIN source = 1 .. n /\ turn = n + 1
    BY <1>1 DEF MergeInv, MergeTypeOK
  <2>2. Shown = UsersIn(source)
    BY <2>1 DEF Shown, UsersIn
  <2> QED BY <2>2 DEF MergeInv, MergedSoFar, Missing
<1>5. Missing' = Missing /\ Result' = Result
  BY <1>1 DEF Missing, Result, UsersIn
<1>6. CASE outcome' = "none"
  <2>1. UsersIn(toImport) = {}
    BY <1>2, <1>6 DEF UsersIn
  <2> QED BY <1>3, <1>4, <1>5, <1>6, <2>1 DEF MergeInv, MergeExact
<1>7. CASE outcome' = "refused"
  <2>1. Len(target) + Cardinality(Missing) > limit
    BY <1>2, <1>4, <1>7, AddedCount DEF MergeInv, MergedSoFar
  <2> QED BY <1>1, <1>3, <1>5, <1>7, <2>1 DEF MergeInv, MergeExact
<1>8. CASE outcome' = "merged"
  <2>1. target \in Seq(ResultAccounts) /\ toImport \in Seq(ResultAccounts)
    BY ResultTyped DEF MergeInv
  <2>2. UsersIn(Result) \ UsersIn(target) = Missing
    BY <1>4, <2>1, UsersTogether DEF Result, Missing
  <2>3. NoId \notin IdsIn(Result)
    <3>1. Result \in Seq(ResultAccounts)
      BY <2>1 DEF Result
    <3> QED BY <3>1, ResultIds, MergeAssumption
  <2>4. Len(Result) <= limit
    BY <1>2, <1>8, <2>1 DEF Result
  <2>5. NoneTwice(Result)
    BY DEF MergeInv, MergedSoFar
  <2>6. MergeExact'
    BY <1>1, <1>5, <1>8, <2>2, <2>3, <2>4, <2>5 DEF MergeExact, UsersIn, IdsIn, NoneTwice
  <2> QED BY <1>3, <2>6 DEF MergeInv
<1> QED BY <1>2, <1>6, <1>7, <1>8

LEMMA MergeNextStep == MergeInv /\ [MergeNext]_mergeVars => MergeInv'
<1> SUFFICES ASSUME MergeInv, [MergeNext]_mergeVars PROVE MergeInv'
  OBVIOUS
<1>1. CASE UNCHANGED mergeVars
  <2>1. UNCHANGED <<source, target, limit, toImport, turn, outcome>>
    BY <1>1 DEF mergeVars
  <2>2. MergeTypeOK'
    BY <2>1 DEF MergeInv, MergeTypeOK
  <2>3. /\ Result' = Result /\ Missing' = Missing /\ Shown' = Shown
        /\ UsersIn(target)' = UsersIn(target) /\ UsersIn(toImport)' = UsersIn(toImport)
    BY <2>1 DEF Result, Missing, Shown, UsersIn
  <2>4. /\ UsersIn(Result)' = UsersIn(Result) /\ IdsIn(Result)' = IdsIn(Result)
        /\ NoneTwice(Result)' = NoneTwice(Result)
    BY <2>3 DEF UsersIn, IdsIn, NoneTwice
  <2>5. MergedSoFar' /\ MergeExact'
    BY <2>1, <2>3, <2>4 DEF MergeInv, MergedSoFar, MergeExact
  <2> QED BY <2>1, <2>2, <2>5 DEF MergeInv
<1> QED BY <1>1, LookStep, FinishStep DEF MergeNext

(* An import adds every user of the source that is missing, once, under an *)
(* ID of its own, and refuses only what does not fit (ImportInto): for     *)
(* directories of any length, any IDs, users and limits.                   *)
THEOREM ImportExact == MergeSpec => []MergeExact
<1>1. MergeInv => MergeExact
  BY DEF MergeInv
<1> QED BY <1>1, MergeStart, MergeNextStep, PTL DEF MergeSpec
=============================================================================
