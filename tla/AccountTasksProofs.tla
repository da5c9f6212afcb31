------------------------- MODULE AccountTasksProofs -------------------------
(***************************************************************************)
(* Theorems about AccountTasks for any accounts, goroutines, failing       *)
(* replies and bounds.                                                     *)
(***************************************************************************)
EXTENDS AccountTasks, TLAPS

PCs == Locked \cup {"idle", "lock"}

(* What the local variables of a goroutine are good for at each step.      *)
FlowOf(s, j) ==
  LET to(step) == s = step \/ (s \in {"refresh", "saveTok"} /\ j.back = step)
  IN  /\ s # "idle" => j.id \in Accounts /\ j.op # "none"
      /\ s \in {"refresh", "saveTok"} => j.back # "none"
      /\ to("points") \/ s = "savePoints" =>
           \/ j.after = "release" /\ j.op # "recheck"
           \/ j.after = "mark" /\ j.op = "active"
           \/ j.after = "count" /\ j.op = "recheck"
      /\ to("call") \/ s \in {"mark", "record"} =>
           \/ j.op = "checkin" /\ j.after = "release"
           \/ j.op = "active" /\ j.after = "mark"
      /\ s = "record" =>
           j.result \in IF j.op = "checkin" THEN {"confirmed", "already_done"}
                                            ELSE {"confirmed"}
      /\ s = "prep" \/ to("decide") => j.op \in {"checkin", "active", "points"}
      /\ s \in {"recheck", "count", "postpone"} => j.op = "recheck"

Typed == TypeOK /\ \A p \in Procs : FlowOf(pc[p], job[p])

(* A step of an operation under the account lock: it moves one goroutine,  *)
(* changes at most the account it works on, and takes no lock.             *)
MovesTo(p, s, j) ==
  /\ s \in Locked /\ j \in Jobs /\ FlowOf(s, j)
  /\ j.id = job[p].id /\ j.op = job[p].op /\ j.flag = job[p].flag
  /\ Goto(p, s) /\ job' = [job EXCEPT ![p] = j]

Updates(p) ==
  \E r \in AccountRecords : acct' = [acct EXCEPT ![job[p].id] = r]

LEMMA TargetTyped ==
  ASSUME Typed, NEW p \in Procs, pc[p] # "idle"
  PROVE  /\ job[p].id \in Accounts /\ job[p] \in Jobs /\ Target(p) \in AccountRecords
         /\ acct = [acct EXCEPT ![job[p].id] = Target(p)]
         /\ job = [job EXCEPT ![p] = job[p]]
         /\ FlowOf(pc[p], job[p])
  BY DEF Typed, TypeOK, FlowOf, Target

LEMMA LossyUpdates ==
  ASSUME Typed, NEW p \in Procs, pc[p] # "idle",
         NEW r \in AccountRecords, Lossy(p, r) \/ Persist(p, r) \/ UNCHANGED acct
  PROVE  Updates(p)
  BY TargetTyped DEF Lossy, Persist, SaveFails, Updates

LEMMA ErrorTyped ==
  ASSUME Typed, NEW p \in Procs, pc[p] # "idle", NEW k
  PROVE  [Target(p) EXCEPT !.status = KindStatus(k)] \in AccountRecords
  BY TargetTyped DEF AccountRecords, KindStatus, Statuses

LEMMA SkipTyped ==
  ASSUME NEW r \in AccountRecords, r.last # "none"
  PROVE  [r EXCEPT !.status = r.last] \in AccountRecords
  BY DEF AccountRecords, Statuses, Results

LEMMA OutcomeTyped ==
  ASSUME TypeOK, NEW p \in Procs, Target(p) \in AccountRecords, job[p].result \in Results,
         job[p].result # "none"
  PROVE  Outcome(p) \in AccountRecords
<1> DEFINE r == Target(p)
           x == job[p].result
<1>1. /\ today \in 0..MaxDay /\ r.balance \in 0..MaxBal /\ x \in Results /\ x \in Statuses
      /\ "ready" \in Statuses /\ 0 \in Nat
  BY BoundsAssumption DEF TypeOK, AccountRecords, Statuses, Results
<1>2. [r EXCEPT !.date = today, !.last = x, !.status = x] \in AccountRecords
  BY <1>1 DEF AccountRecords
<1>3. [r EXCEPT !.date = today, !.last = x, !.status = "ready", !.base = r.balance,
                !.due = "later", !.attempts = 0] \in AccountRecords
  BY <1>1 DEF AccountRecords
<1> QED BY <1>2, <1>3 DEF Outcome

LEMMA QueriedTyped ==
  ASSUME NEW p \in Procs, Target(p) \in AccountRecords, job[p] \in Jobs
  PROVE  Queried(p) \in AccountRecords
<1> DEFINE r == Target(p)
           x == job[p].seen
           y == IF r.status \in {"running", "error"} THEN "ready" ELSE r.status
           a == [r EXCEPT !.balance = x, !.status = y]
<1>1. x \in 0..MaxBal /\ y \in Statuses /\ 0 \in 0..MaxBal /\ 0 \in Nat /\ "credited" \in Results
  BY BoundsAssumption DEF Jobs, AccountRecords, Statuses, Results
<1>2. a \in AccountRecords
  BY <1>1 DEF AccountRecords
<1>3. [a EXCEPT !.due = "no", !.attempts = 0, !.base = 0, !.last = "credited"]
        \in AccountRecords
  BY <1>1, <1>2 DEF AccountRecords
<1>4. Queried(p) = IF a.due # "no" /\ x > a.base
                   THEN [a EXCEPT !.due = "no", !.attempts = 0, !.base = 0,
                                  !.last = "credited"]
                   ELSE a
  BY DEF Queried
<1> HIDE DEF a
<1> QED BY <1>2, <1>3, <1>4

LEMMA CountedTyped ==
  ASSUME NEW p \in Procs, Target(p) \in AccountRecords
  PROVE  Counted(p) \in AccountRecords
<1> DEFINE r == Target(p)
           n == r.attempts + 1
<1>1. n \in Nat /\ 0 \in 0..MaxBal
  BY BoundsAssumption DEF AccountRecords
<1>2. Counted(p) = IF n >= MaxAttempts THEN [r EXCEPT !.due = "no", !.attempts = n, !.base = 0]
                                       ELSE [r EXCEPT !.due = "later", !.attempts = n]
  BY DEF Counted
<1> HIDE DEF n
<1>3. /\ [r EXCEPT !.due = "no", !.attempts = n, !.base = 0] \in AccountRecords
      /\ [r EXCEPT !.due = "later", !.attempts = n] \in AccountRecords
  BY <1>1 DEF AccountRecords
<1> QED BY <1>2, <1>3

LEMMA InsideMoves ==
  ASSUME Typed, NEW p \in Procs, Inside(p)
  PROVE  /\ pc[p] \in Locked
         /\ \E s, j : MovesTo(p, s, j)
         /\ Updates(p)
<1> USE DEF Locked
<1>0. pc[p] # "idle" => /\ job[p].id \in Accounts /\ job[p] \in Jobs
                        /\ Target(p) \in AccountRecords
                        /\ job = [job EXCEPT ![p] = job[p]] /\ FlowOf(pc[p], job[p])
                        /\ (UNCHANGED acct => Updates(p))
  BY TargetTyped, LossyUpdates
<1>1. CASE PrepareRejected(p)
  <2>2. MovesTo(p, "release",
                job[p])
    BY <1>0, <1>1 DEF PrepareRejected, MovesTo, FlowOf, Jobs, Typed, TypeOK
  <2> QED BY <1>0, <1>1, <2>2 DEF PrepareRejected
<1>2. CASE PrepareReady(p)
  <2>2. MovesTo(p, "decide",
                job[p])
    BY <1>0, <1>2 DEF PrepareReady, MovesTo, FlowOf, Jobs, Typed, TypeOK
  <2> QED BY <1>0, <1>2, <2>2 DEF PrepareReady
<1>3. CASE PrepareStale(p)
  <2>2. MovesTo(p, "refresh",
                [job[p] EXCEPT !.back = "decide"])
    BY <1>0, <1>3 DEF PrepareStale, MovesTo, FlowOf, Jobs, Typed, TypeOK
  <2> QED BY <1>0, <1>3, <2>2 DEF PrepareStale
<1>4. CASE RefreshOk(p)
  <2>2. MovesTo(p, "saveTok",
                job[p])
    BY <1>0, <1>4 DEF RefreshOk, MovesTo, FlowOf, Jobs, Typed, TypeOK
  <2> QED BY <1>0, <1>4, <2>2 DEF RefreshOk
<1>5. CASE RefreshFails(p)
  <2>2. MovesTo(p, GiveUp(p),
                job[p])
    BY <1>0, <1>5 DEF RefreshFails, MovesTo, FlowOf, Jobs, GiveUp, Typed, TypeOK
  <2>3. Updates(p)
    BY <1>5, ErrorTyped, LossyUpdates DEF RefreshFails, MarkError
  <2> QED BY <1>5, <2>2, <2>3 DEF RefreshFails
<1>6. CASE SaveTokens(p)
  <2>2. MovesTo(p, job[p].back,
                job[p])
    BY <1>0, <1>6 DEF SaveTokens, MovesTo, FlowOf, Jobs, Typed, TypeOK
  <2>3. pc[p] # "idle" /\ [Target(p) EXCEPT !.status = "ready"] \in AccountRecords
    BY <1>0, <1>6 DEF SaveTokens, AccountRecords, Statuses, Results
  <2>4. Updates(p)
    BY <1>6, <2>3, LossyUpdates DEF SaveTokens
  <2> QED BY <1>6, <2>2, <2>4 DEF SaveTokens
<1>7. CASE SaveTokensFails(p)
  <2>2. MovesTo(p, GiveUp(p),
                job[p])
    BY <1>0, <1>7 DEF SaveTokensFails, MovesTo, FlowOf, Jobs, GiveUp, Typed, TypeOK
  <2> QED BY <1>0, <1>7, <2>2 DEF SaveTokensFails, SaveFails
<1>8. CASE Skip(p)
  <2>2. MovesTo(p, "points",
                [job[p] EXCEPT !.after = "release"])
    BY <1>0, <1>8 DEF Skip, MovesTo, FlowOf, Jobs, Typed, TypeOK
  <2>3. pc[p] # "idle" /\ [Target(p) EXCEPT !.status = Target(p).last] \in AccountRecords
    BY <1>0, <1>8, SkipTyped DEF Skip, Skips, DoneToday, Target
  <2>4. Updates(p)
    BY <1>8, <2>3, LossyUpdates DEF Skip
  <2> QED BY <1>8, <2>2, <2>4 DEF Skip
<1>9. CASE Proceed(p)
  <2>2. MovesTo(p, IF job[p].op = "checkin" THEN "mark" ELSE "points",
                [job[p] EXCEPT !.after = IF job[p].op = "active" THEN "mark" ELSE "release"])
    BY <1>0, <1>9 DEF Proceed, MovesTo, FlowOf, Jobs, Typed, TypeOK
  <2> QED BY <1>0, <1>9, <2>2 DEF Proceed
<1>10. CASE Mark(p)
  <2>2. MovesTo(p, "call",
                [job[p] EXCEPT !.retried = FALSE])
    BY <1>0, <1>10 DEF Mark, MovesTo, FlowOf, Jobs, Typed, TypeOK
  <2>3. pc[p] # "idle" /\ [Target(p) EXCEPT !.status = "running"] \in AccountRecords
    BY <1>0, <1>10 DEF Mark, AccountRecords, Statuses, Results
  <2>4. Updates(p)
    BY <1>10, <2>3, LossyUpdates DEF Mark
  <2> QED BY <1>10, <2>2, <2>4 DEF Mark
<1>11. CASE CallOk(p)
  <2>1. PICK r \in {"confirmed", "already_done"} :
          /\ job' = [job EXCEPT ![p].result = r]
          /\ r \in IF job[p].op = "checkin" THEN {"confirmed", "already_done"}
                                            ELSE {"confirmed"}
    BY <1>11 DEF CallOk
  <2>2. MovesTo(p, "record", [job[p] EXCEPT !.result = r])
    BY <1>0, <1>11, <2>1 DEF CallOk, MovesTo, FlowOf, Jobs, Results
  <2> QED BY <1>0, <1>11, <2>2 DEF CallOk
<1>12. CASE CallAuth(p)
  <2>2. MovesTo(p, "refresh",
                [job[p] EXCEPT !.retried = TRUE, !.back = "call"])
    BY <1>0, <1>12 DEF CallAuth, MovesTo, FlowOf, Jobs, Typed, TypeOK
  <2> QED BY <1>0, <1>12, <2>2 DEF CallAuth
<1>13. CASE CallFails(p)
  <2>2. MovesTo(p, "release",
                job[p])
    BY <1>0, <1>13 DEF CallFails, MovesTo, FlowOf, Jobs, Typed, TypeOK
  <2>3. Updates(p)
    BY <1>13, ErrorTyped, LossyUpdates DEF CallFails, MarkError
  <2> QED BY <1>13, <2>2, <2>3 DEF CallFails
<1>14. CASE Record(p)
  <2>2. MovesTo(p, IF job[p].op = "checkin" THEN "points" ELSE "release",
                job[p])
    BY <1>0, <1>14 DEF Record, MovesTo, FlowOf, Jobs, Typed, TypeOK
  <2>3. pc[p] # "idle" /\ Outcome(p) \in AccountRecords
    BY <1>0, <1>14, OutcomeTyped DEF Record, FlowOf, Results, Typed
  <2>4. Updates(p)
    BY <1>14, <2>3, LossyUpdates DEF Record
  <2> QED BY <1>14, <2>2, <2>4 DEF Record
<1>15. CASE RecordFails(p)
  <2>2. MovesTo(p, "release",
                job[p])
    BY <1>0, <1>15 DEF RecordFails, MovesTo, FlowOf, Jobs, Typed, TypeOK
  <2> QED BY <1>0, <1>15, <2>2 DEF RecordFails, SaveFails
<1>16. CASE PointsOk(p)
  <2>2. MovesTo(p, "savePoints",
                [job[p] EXCEPT !.seen = bal[job[p].id]])
    BY <1>0, <1>16 DEF PointsOk, MovesTo, FlowOf, Jobs, Typed, TypeOK
  <2> QED BY <1>0, <1>16, <2>2 DEF PointsOk
<1>17. CASE PointsAuth(p)
  <2>2. MovesTo(p, "refresh",
                [job[p] EXCEPT !.retried = TRUE, !.back = "points"])
    BY <1>0, <1>17 DEF PointsAuth, MovesTo, FlowOf, Jobs, Typed, TypeOK
  <2>3. Updates(p)
    BY <1>17, ErrorTyped, LossyUpdates DEF PointsAuth, MarkError
  <2> QED BY <1>17, <2>2, <2>3 DEF PointsAuth
<1>18. CASE PointsFails(p)
  <2>2. MovesTo(p, GiveUp(p),
                job[p])
    BY <1>0, <1>18 DEF PointsFails, MovesTo, FlowOf, Jobs, GiveUp, Typed, TypeOK
  <2>3. Updates(p)
    BY <1>18, ErrorTyped, LossyUpdates DEF PointsFails, MarkError
  <2> QED BY <1>18, <2>2, <2>3 DEF PointsFails
<1>19. CASE SavePoints(p)
  <2>2. MovesTo(p, job[p].after,
                job[p])
    BY <1>0, <1>19 DEF SavePoints, MovesTo, FlowOf, Jobs, Typed, TypeOK
  <2>3. pc[p] # "idle" /\ Queried(p) \in AccountRecords
    BY <1>0, <1>19, QueriedTyped DEF SavePoints
  <2>4. Updates(p)
    BY <1>19, <2>3, LossyUpdates DEF SavePoints
  <2> QED BY <1>19, <2>2, <2>4 DEF SavePoints
<1>20. CASE SavePointsFails(p)
  <2>2. MovesTo(p, GiveUp(p),
                job[p])
    BY <1>0, <1>20 DEF SavePointsFails, MovesTo, FlowOf, Jobs, GiveUp, Typed, TypeOK
  <2> QED BY <1>0, <1>20, <2>2 DEF SavePointsFails, SaveFails
<1>21. CASE Recheck(p)
  <2>2. MovesTo(p, IF job[p].id \in live /\ Target(p).due = "now" THEN "points" ELSE "release",
                IF job[p].id \in live /\ Target(p).due = "now" THEN [job[p] EXCEPT !.after = "count"] ELSE job[p])
    BY <1>0, <1>21 DEF Recheck, MovesTo, FlowOf, Jobs, Typed, TypeOK
  <2> QED BY <1>0, <1>21, <2>2 DEF Recheck
<1>22. CASE Count(p)
  <2>2. MovesTo(p, "release",
                job[p])
    BY <1>0, <1>22 DEF Count, MovesTo, FlowOf, Jobs, Typed, TypeOK
  <2>3. pc[p] # "idle" /\ Counted(p) \in AccountRecords
    BY <1>0, <1>22, CountedTyped DEF Count
  <2>4. Updates(p)
    BY <1>22, <2>3, LossyUpdates DEF Count
  <2> QED BY <1>22, <2>2, <2>4 DEF Count
<1>23. CASE Postpone(p)
  <2>2. MovesTo(p, "release",
                job[p])
    BY <1>0, <1>23 DEF Postpone, MovesTo, FlowOf, Jobs, Typed, TypeOK
  <2>3. pc[p] # "idle" /\ [Target(p) EXCEPT !.due = "later"] \in AccountRecords
    BY <1>0, <1>23 DEF Postpone, AccountRecords, Statuses, Results
  <2>4. Updates(p)
    BY <1>23, <2>3, LossyUpdates DEF Postpone
  <2> QED BY <1>23, <2>2, <2>4 DEF Postpone
<1>24. CASE Edit(p)
  <2>2. MovesTo(p, "release",
                job[p])
    BY <1>0, <1>24 DEF Edit, MovesTo, FlowOf, Jobs, Typed, TypeOK
  <2>3. pc[p] # "idle" /\ Edited(p) \in AccountRecords
    BY <1>0, <1>24 DEF Edit, AccountRecords, Statuses, Results, Edited, Jobs
  <2>4. Updates(p)
    BY <1>24, <2>3, LossyUpdates DEF Edit
  <2> QED BY <1>24, <2>2, <2>4 DEF Edit
<1>25. CASE Login(p)
  <2>2. MovesTo(p, "release",
                job[p])
    BY <1>0, <1>25 DEF Login, MovesTo, FlowOf, Jobs, Typed, TypeOK
  <2>3. pc[p] # "idle" /\ [Target(p) EXCEPT !.enabled = TRUE, !.status = "ready"] \in AccountRecords
    BY <1>0, <1>25 DEF Login, AccountRecords, Statuses, Results
  <2>4. Updates(p)
    BY <1>25, <2>3, LossyUpdates DEF Login
  <2> QED BY <1>25, <2>2, <2>4 DEF Login
<1>26. CASE Delete(p)
  <2>2. MovesTo(p, "release",
                job[p])
    BY <1>0, <1>26 DEF Delete, MovesTo, FlowOf, Jobs, Typed, TypeOK
  <2> QED BY <1>0, <1>26, <2>2 DEF Delete
<1> QED
  BY <1>1, <1>2, <1>3, <1>4, <1>5, <1>6, <1>7, <1>8, <1>9, <1>10, <1>11, <1>12,
     <1>13, <1>14, <1>15, <1>16, <1>17, <1>18, <1>19, <1>20, <1>21, <1>22,
     <1>23, <1>24, <1>25, <1>26 DEF Inside

LEMMA Moved ==
  ASSUME Typed, NEW p \in Procs, NEW s, NEW j, MovesTo(p, s, j)
  PROVE  /\ pc' \in [Procs -> PCs] /\ job' \in [Procs -> Jobs]
         /\ pc'[p] = s /\ job'[p] = j
         /\ \A q \in Procs \ {p} : pc'[q] = pc[q] /\ job'[q] = job[q]
  BY DEF MovesTo, Goto, Typed, TypeOK, PCs

LEMMA Updated ==
  ASSUME Typed, NEW p \in Procs, pc[p] # "idle", Updates(p)
  PROVE  /\ acct' \in [Accounts -> AccountRecords]
         /\ \A i \in Accounts \ {job[p].id} : acct'[i] = acct[i]
  BY TargetTyped DEF Updates, Typed, TypeOK

(* The rest of the state under a step of an operation.                     *)
LEMMA InsideFrame ==
  ASSUME TypeOK, NEW p \in Procs, Inside(p)
  PROVE  /\ UNCHANGED <<lock, batch, runMu, today, bal>>
         /\ live' \subseteq live /\ live \ {job[p].id} \subseteq live'
         /\ served' \in [Accounts -> BOOLEAN] /\ acked' \in [Accounts -> BOOLEAN]
<1> USE DEF Frame, remote, sched
<1>1. CASE PrepareRejected(p) \/ PrepareReady(p) \/ PrepareStale(p)
  BY <1>1 DEF PrepareRejected, PrepareReady, PrepareStale, TypeOK
<1>2. CASE RefreshOk(p) \/ RefreshFails(p) \/ SaveTokens(p) \/ SaveTokensFails(p)
  BY <1>2 DEF RefreshOk, RefreshFails, SaveTokens, SaveTokensFails, TypeOK
<1>3. CASE Skip(p) \/ Proceed(p) \/ Mark(p) \/ CallAuth(p)
  BY <1>3 DEF Skip, Proceed, Mark, CallAuth, TypeOK
<1>4. CASE CallOk(p) \/ CallFails(p)
  <2>1. UNCHANGED <<live, lock, batch, runMu, today, bal>>
    BY <1>4 DEF CallOk, CallFails
  <2>2. served' \in [Accounts -> BOOLEAN]
    BY <1>4 DEF CallOk, CallFails, TypeOK
  <2>3. acked' \in [Accounts -> BOOLEAN]
    BY <1>4 DEF CallOk, CallFails, TypeOK
  <2> QED BY <2>1, <2>2, <2>3
<1>5. CASE Record(p) \/ RecordFails(p)
  BY <1>5 DEF Record, RecordFails, TypeOK
<1>6. CASE PointsOk(p) \/ PointsAuth(p) \/ PointsFails(p) \/ SavePoints(p) \/ SavePointsFails(p)
  BY <1>6 DEF PointsOk, PointsAuth, PointsFails, SavePoints, SavePointsFails, TypeOK
<1>7. CASE Recheck(p) \/ Count(p) \/ Postpone(p) \/ Edit(p) \/ Login(p)
  BY <1>7 DEF Recheck, Count, Postpone, Edit, Login, TypeOK
<1>8. CASE Delete(p)
  BY <1>8 DEF Delete, TypeOK
<1> QED BY <1>1, <1>2, <1>3, <1>4, <1>5, <1>6, <1>7, <1>8 DEF Inside

LEMMA InsideTyped ==
  ASSUME Typed, NEW p \in Procs, Inside(p)
  PROVE  Typed'
<1>1. PICK s, j : MovesTo(p, s, j)
  BY InsideMoves
<1>2. pc[p] # "idle" /\ Updates(p)
  BY InsideMoves DEF Locked
<1>3. /\ pc' \in [Procs -> PCs] /\ job' \in [Procs -> Jobs]
      /\ \A q \in Procs : FlowOf(pc'[q], job'[q])
  <2>1. FlowOf(s, j)
    BY <1>1 DEF MovesTo
  <2>2. /\ pc' \in [Procs -> PCs] /\ job' \in [Procs -> Jobs]
        /\ pc'[p] = s /\ job'[p] = j
        /\ \A q \in Procs \ {p} : pc'[q] = pc[q] /\ job'[q] = job[q]
    BY <1>1, Moved
  <2> QED BY <2>1, <2>2 DEF Typed
<1>4. acct' \in [Accounts -> AccountRecords]
  BY <1>2, Updated
<1> QED
  BY <1>3, <1>4, InsideFrame DEF Typed, TypeOK, PCs

-----------------------------------------------------------------------------
(* The steps outside the account lock: taking up, acquiring and leaving.   *)
LEMMA NoJobTyped == NoJob \in Jobs
  BY BoundsAssumption DEF NoJob, Jobs, Results

LEMMA LaunchTyped ==
  ASSUME Typed, NEW p \in Procs, NEW o \in Ops \cup {"recheck"}, NEW i \in Accounts,
         NEW f \in BOOLEAN, Launch(p, o, i, f)
  PROVE  /\ pc' \in [Procs -> PCs] /\ job' \in [Procs -> Jobs]
         /\ \A q \in Procs : FlowOf(pc'[q], job'[q])
         /\ pc'[p] = "lock"
         /\ \A q \in Procs \ {p} : pc'[q] = pc[q] /\ job'[q] = job[q]
<1> DEFINE j == [NoJob EXCEPT !.op = o, !.id = i, !.flag = f]
<1>1. j \in Jobs /\ FlowOf("lock", j)
  BY NoJobTyped DEF Jobs, FlowOf, Ops, NoJob
<1>2. pc' = [pc EXCEPT ![p] = "lock"] /\ job' = [job EXCEPT ![p] = j]
  BY DEF Launch, Goto
<1> HIDE DEF j
<1> QED BY <1>1, <1>2 DEF Typed, TypeOK, PCs

LEMMA IdleTyped ==
  ASSUME Typed, NEW p \in Procs, Goto(p, "idle"), job' = [job EXCEPT ![p] = NoJob]
  PROVE  /\ pc' \in [Procs -> PCs] /\ job' \in [Procs -> Jobs]
         /\ \A q \in Procs : FlowOf(pc'[q], job'[q])
         /\ pc'[p] = "idle"
         /\ \A q \in Procs \ {p} : pc'[q] = pc[q] /\ job'[q] = job[q]
<1>1. FlowOf("idle", NoJob)
  BY DEF FlowOf, NoJob
<1> QED BY <1>1, NoJobTyped DEF Typed, TypeOK, PCs, Goto

(* What each of the other steps of a goroutine does to the control state.  *)
Outside(p) ==
  \/ \E o \in ManualOps, i \in Accounts, f \in BOOLEAN : Request(p, o, i, f)
  \/ Acquire(p) \/ AcquireUnregistered(p) \/ Release(p) \/ TryLockFails(p)
  \/ NextInBatch(p) \/ EndRunAll(p)
  \/ \E v \in Versions : StartRunAll(p, v) \/ StartRefreshAll(p, v)
  \/ StartRechecks(p)

LEMMA NextSplits ==
  ASSUME Next
  PROVE  Environment \/ \E p \in Procs : Inside(p) \/ Outside(p)
  BY DEF Next, Continue, Outside

LEMMA AcquireTyped ==
  ASSUME Typed, NEW p \in Procs, Acquire(p) \/ AcquireUnregistered(p)
  PROVE  /\ pc' \in [Procs -> PCs]
         /\ \A q \in Procs : FlowOf(pc'[q], job[q])
         /\ pc'[p] \in Locked
         /\ \A q \in Procs \ {p} : pc'[q] = pc[q]
<1> DEFINE s == FirstStep(p)
<1>1. pc[p] = "lock" /\ pc' = [pc EXCEPT ![p] = s]
  BY DEF Acquire, AcquireUnregistered, Goto
<1>2. s \in Locked /\ FlowOf(s, job[p])
  BY <1>1 DEF FirstStep, Locked, FlowOf, Typed, TypeOK, Jobs, Ops
<1> HIDE DEF s
<1> QED BY <1>1, <1>2 DEF Typed, TypeOK, PCs

LEMMA OutsideTyped ==
  ASSUME Typed, NEW p \in Procs, Outside(p)
  PROVE  Typed'
<1> USE DEF remote, sched
<1>1. ASSUME NEW o \in ManualOps, NEW i \in Accounts, NEW f \in BOOLEAN, Request(p, o, i, f)
      PROVE  Typed'
  <2>1. o \in Ops \cup {"recheck"}
    BY OpsAssumption
  <2> QED BY <1>1, <2>1, LaunchTyped DEF Request, Typed, TypeOK, PCs
<1>2. CASE Acquire(p)
  <2>1. lock' \in [Accounts -> Procs \cup {Nobody}]
    BY <1>2 DEF Acquire, Typed, TypeOK
  <2> QED BY <1>2, <2>1, AcquireTyped DEF Acquire, Typed, TypeOK, PCs
<1>3. CASE Release(p)
  <2>1. lock' \in [Accounts -> Procs \cup {Nobody}]
    BY <1>3 DEF Release, Typed, TypeOK
  <2> QED BY <1>3, <2>1, IdleTyped DEF Release, Typed, TypeOK, PCs
<1>4. CASE TryLockFails(p)
  BY <1>4, IdleTyped DEF TryLockFails, Typed, TypeOK, PCs
<1>5. CASE NextInBatch(p)
  <2>1. PICK i \in batch[p] : /\ batch' = [batch EXCEPT ![p] = @ \ {i}]
                             /\ Launch(p, BatchOp(p, i), i, FALSE)
    BY <1>5 DEF NextInBatch
  <2>2. i \in Accounts /\ BatchOp(p, i) \in Ops \cup {"recheck"}
    BY DEF Typed, TypeOK, BatchOp, Ops
  <2>3. batch' \in [Procs -> SUBSET Accounts]
    BY <2>1 DEF Typed, TypeOK
  <2>4. FALSE \in BOOLEAN
    OBVIOUS
  <2>5. pc' \in [Procs -> PCs] /\ job' \in [Procs -> Jobs]
        /\ \A q \in Procs : FlowOf(pc'[q], job'[q])
    BY <2>1, <2>2, <2>4, LaunchTyped
  <2> QED BY <1>5, <2>3, <2>5 DEF NextInBatch, Typed, TypeOK, PCs
<1>6. CASE EndRunAll(p)
  BY <1>6 DEF EndRunAll, Typed, TypeOK
<1>7. CASE StartRechecks(p)
  BY <1>7 DEF StartRechecks, Typed, TypeOK
<1>8. ASSUME NEW v, StartRunAll(p, v) \/ StartRefreshAll(p, v)
      PROVE  Typed'
  BY <1>8 DEF StartRunAll, StartRefreshAll, Typed, TypeOK
<1>9. CASE AcquireUnregistered(p)
  BY <1>9, AcquireTyped DEF AcquireUnregistered, Typed, TypeOK, PCs
<1> QED
  BY <1>1, <1>2, <1>3, <1>4, <1>5, <1>6, <1>7, <1>8, <1>9 DEF Outside

LEMMA EnvironmentTyped ==
  ASSUME Typed, Environment
  PROVE  Typed'
<1> USE DEF remote, sched
<1>1. CASE Midnight
  <2>1. today' \in 1..MaxDay
    BY <1>1, BoundsAssumption DEF Midnight, Typed, TypeOK
  <2>2. served' \in [Accounts -> BOOLEAN] /\ acked' \in [Accounts -> BOOLEAN]
    BY <1>1 DEF Midnight
  <2>3. UNCHANGED <<acct, live, lock, pc, job, batch, runMu, bal>>
    BY <1>1 DEF Midnight
  <2> QED BY <2>1, <2>2, <2>3 DEF Typed, TypeOK
<1>2. CASE Restart
  <2>1. \A p \in Procs : pc'[p] = "idle" /\ job'[p] = NoJob /\ FlowOf("idle", NoJob)
    BY <1>2 DEF Restart, FlowOf, NoJob
  <2> QED BY <1>2, <2>1, NoJobTyped DEF Restart, Typed, TypeOK
<1>3. ASSUME NEW i \in Accounts, Ripen(i)
      PROVE  Typed'
  <2>1. [acct[i] EXCEPT !.due = "now"] \in AccountRecords
    BY DEF Typed, TypeOK, AccountRecords
  <2>2. acct' \in [Accounts -> AccountRecords]
    BY <1>3, <2>1 DEF Ripen, Typed, TypeOK
  <2> QED BY <1>3, <2>2 DEF Ripen, Typed, TypeOK
<1>4. ASSUME NEW i \in Accounts, Balance(i)
      PROVE  Typed'
  BY <1>4 DEF Balance, Typed, TypeOK
<1> QED BY <1>1, <1>2, <1>3, <1>4 DEF Environment

LEMMA InitTyped == Init => Typed
<1>1. \A v \in Versions : NewAccount(v) \in AccountRecords
  BY BoundsAssumption DEF NewAccount, AccountRecords, Statuses, Results
<1> QED BY <1>1, NoJobTyped, BoundsAssumption DEF Init, Typed, TypeOK, FlowOf

LEMMA NextTyped == Typed /\ [Next]_vars => Typed'
<1>1. ASSUME Typed, UNCHANGED vars PROVE Typed'
  BY <1>1 DEF vars, Typed, TypeOK
<1>2. ASSUME Typed, Next PROVE Typed'
  BY <1>2, NextSplits, InsideTyped, OutsideTyped, EnvironmentTyped
<1> QED BY <1>1, <1>2

(* Every variable keeps to its values, whatever fails.                     *)
THEOREM TypeCorrect == Spec => []TypeOK
<1>1. Typed => TypeOK
  BY DEF Typed
<1> QED BY <1>1, InitTyped, NextTyped, PTL DEF Spec

-----------------------------------------------------------------------------
(* A goroutine inside an operation holds the lock of its account, unless   *)
(* the account is gone.                                                    *)
LockInv == \A p \in Procs : Holds(p) /\ job[p].id \in live => lock[job[p].id] = p

LEMMA NextLockInv == Typed /\ LockInv /\ [Next]_vars => LockInv'
<1> SUFFICES ASSUME Typed, LockInv, [Next]_vars PROVE LockInv'
  OBVIOUS
<1> USE DEF LockInv, Holds
<1>1. ASSUME NEW p \in Procs, Inside(p) PROVE LockInv'
  <2>1. PICK s, j : MovesTo(p, s, j)
    BY <1>1, InsideMoves
  <2>2. pc[p] \in Locked /\ j.id = job[p].id /\ lock' = lock /\ live' \subseteq live
    BY <1>1, <2>1, InsideMoves, InsideFrame DEF MovesTo, Typed
  <2>3. /\ pc'[p] = s /\ job'[p] = j
        /\ \A q \in Procs \ {p} : pc'[q] = pc[q] /\ job'[q] = job[q]
    BY <2>1, Moved
  <2> QED BY <2>2, <2>3
<1>2. ASSUME NEW p \in Procs, Outside(p) PROVE LockInv'
  <2> USE DEF Locked
  <2>1. CASE \E o \in ManualOps, i \in Accounts, f \in BOOLEAN : Request(p, o, i, f)
    <3>1. PICK o \in ManualOps, i \in Accounts, f \in BOOLEAN : Request(p, o, i, f)
      BY <2>1
    <3>2. o \in Ops \cup {"recheck"} /\ Launch(p, o, i, f) /\ UNCHANGED <<lock, live>>
      BY <3>1, OpsAssumption DEF Request
    <3> QED BY <3>2, LaunchTyped
  <2>2. CASE Acquire(p)
    <3>1. /\ pc[p] = "lock" /\ lock[job[p].id] = Nobody
          /\ lock' = [lock EXCEPT ![job[p].id] = p] /\ UNCHANGED <<job, live>>
      BY <2>2 DEF Acquire
    <3>2. job[p].id \in Accounts /\ lock'[job[p].id] = p
      BY <3>1, TargetTyped DEF Typed, TypeOK
    <3>3. \A q \in Procs \ {p} : Holds(q) /\ job[q].id \in live =>
            job[q].id # job[p].id /\ job[q].id \in Accounts
      BY <3>1, ProcsAssumption, TargetTyped
    <3> QED BY <2>2, <3>1, <3>2, <3>3, AcquireTyped DEF Typed, TypeOK
  <2>3. CASE Release(p)
    <3>1. /\ lock' = [i \in Accounts |->
                       IF i = job[p].id /\ lock[i] = p THEN Nobody ELSE lock[i]]
          /\ live' = live /\ Goto(p, "idle") /\ job' = [job EXCEPT ![p] = NoJob]
      BY <2>3 DEF Release
    <3>2. \A q \in Procs \ {p} : Holds(q) => job[q].id \in Accounts
      BY TargetTyped
    <3> QED BY <3>1, <3>2, IdleTyped
  <2>4. CASE TryLockFails(p)
    BY <2>4, IdleTyped DEF TryLockFails
  <2>5. CASE NextInBatch(p)
    <3>1. PICK i \in batch[p] : Launch(p, BatchOp(p, i), i, FALSE)
      BY <2>5 DEF NextInBatch
    <3>2. i \in Accounts /\ BatchOp(p, i) \in Ops \cup {"recheck"} /\ FALSE \in BOOLEAN
      BY DEF Typed, TypeOK, BatchOp, Ops
    <3>3. pc'[p] = "lock" /\ \A q \in Procs \ {p} : pc'[q] = pc[q] /\ job'[q] = job[q]
      BY <3>1, <3>2, LaunchTyped
    <3> QED BY <2>5, <3>3 DEF NextInBatch
  <2>6. CASE EndRunAll(p) \/ StartRechecks(p)
    BY <2>6 DEF EndRunAll, StartRechecks
  <2>7. CASE \E v \in Versions : StartRunAll(p, v) \/ StartRefreshAll(p, v)
    BY <2>7 DEF StartRunAll, StartRefreshAll
  <2>8. CASE AcquireUnregistered(p)
    BY <2>8, AcquireTyped DEF AcquireUnregistered
  <2> QED BY <1>2, <2>1, <2>2, <2>3, <2>4, <2>5, <2>6, <2>7, <2>8 DEF Outside
<1>3. CASE Environment
  BY <1>3 DEF Environment, Midnight, Restart, Ripen, Balance, sched, Locked
<1>4. CASE UNCHANGED vars
  BY <1>4 DEF vars
<1> QED BY <1>1, <1>2, <1>3, <1>4, NextSplits

LEMMA LockInvariant == Spec => [](Typed /\ LockInv)
<1>1. Init => LockInv
  BY DEF Init, LockInv, Holds, Locked
<1> QED BY <1>1, InitTyped, NextTyped, NextLockInv, PTL DEF Spec

(* Two goroutines never work on one account at the same time.              *)
THEOREM Exclusion == Spec => []MutualExclusion
<1>1. LockInv => MutualExclusion
  BY DEF LockInv, MutualExclusion
<1> QED BY <1>1, LockInvariant, PTL

-----------------------------------------------------------------------------
(* The steps of an operation that rely on an account it has looked at.     *)
Worked == {"refresh", "saveTok", "decide", "mark", "call", "record", "points", "savePoints"}

(* What an operation at step s, with the local variables j, relies on in   *)
(* the record r of its account.                                            *)
Fit(s, j, r) ==
  /\ s \in Worked =>
       /\ j.op # "recheck" => r.enabled
       /\ j.op = "checkin" => r.version = "cn"
       /\ j.op = "active" => r.version = "intl"
  /\ s \in Worked \cup {"postpone"} /\ j.op = "recheck" => r.due # "no"

(* RecheckSane of one record.                                              *)
Sane(r) ==
  r.due # "no" =>
    r.version = "intl" /\ r.last = "confirmed" /\ r.date > 0 /\ r.attempts < MaxAttempts

(* DoneToday of one record on day d.                                       *)
Done(r, d) ==
  /\ r.date = d
  /\ r.last \in IF r.version = "cn" THEN {"confirmed", "already_done"}
                                   ELSE {"confirmed", "credited"}

OnLive(p) == pc[p] \in Worked \cup {"count", "postpone"} => job[p].id \in live

WorkInv ==
  /\ \A p \in Procs : OnLive(p) /\ Fit(pc[p], job[p], Target(p))
  /\ \A i \in live : Sane(acct[i])

LEMMA Written ==
  ASSUME Typed, NEW p \in Procs, pc[p] # "idle", NEW r
  PROVE  /\ Persist(p, r) => acct'[job[p].id] = r
         /\ Lossy(p, r) => acct'[job[p].id] \in {r, Target(p)}
         /\ UNCHANGED acct => acct'[job[p].id] = Target(p)
  BY TargetTyped DEF Typed, TypeOK, Persist, Lossy, SaveFails, Target

(* Fields of the record that the steps other than an outcome, an answer    *)
(* about points, an attempt, an edit or a login leave alone.               *)
SameBut(r, q) ==
  /\ r.version = q.version /\ r.enabled = q.enabled /\ r.last = q.last
  /\ r.date = q.date /\ r.due = q.due /\ r.attempts = q.attempts

LEMMA StatusOnly ==
  ASSUME Typed, NEW p \in Procs, pc[p] # "idle", NEW x,
         \/ Lossy(p, [Target(p) EXCEPT !.status = x])
         \/ Persist(p, [Target(p) EXCEPT !.status = x])
         \/ UNCHANGED acct
  PROVE  SameBut(acct'[job[p].id], Target(p))
<1> DEFINE r == [Target(p) EXCEPT !.status = x]
<1>1. acct'[job[p].id] \in {r, Target(p)}
  BY Written
<1>2. Target(p) \in AccountRecords
  BY TargetTyped
<1> QED BY <1>1, <1>2 DEF SameBut, AccountRecords

(* An outcome that is recorded makes the task done for today.              *)
LEMMA RecordDone ==
  ASSUME Typed, WorkInv, NEW p \in Procs, Record(p)
  PROVE  Done(acct'[job[p].id], today)
<1> DEFINE r == Target(p)
           x == job[p].result
           a == [r EXCEPT !.date = today, !.last = x, !.status = x]
           b == [r EXCEPT !.date = today, !.last = x, !.status = "ready",
                          !.base = r.balance, !.due = "later", !.attempts = 0]
<1>1. /\ r \in AccountRecords /\ FlowOf("record", job[p])
      /\ acct'[job[p].id] = IF job[p].op = "checkin" THEN a ELSE b
  BY TargetTyped, Written DEF Record, Outcome
<1>2. /\ a.date = today /\ a.last = x /\ a.version = r.version
      /\ b.date = today /\ b.last = x /\ b.version = r.version
  BY <1>1 DEF AccountRecords
<1>3. /\ job[p].op = "checkin" => r.version = "cn" /\ x \in {"confirmed", "already_done"}
      /\ job[p].op # "checkin" => x = "confirmed"
  BY <1>1 DEF Record, WorkInv, Fit, Worked, FlowOf
<1> HIDE DEF a, b
<1> QED BY <1>1, <1>2, <1>3 DEF Done

LEMMA InsideFits ==
  ASSUME Typed, WorkInv, NEW p \in Procs, Inside(p)
  PROVE  /\ Fit(pc'[p], job'[p], acct'[job[p].id])
         /\ pc'[p] \in Worked \cup {"count", "postpone"} => job[p].id \in live'
         /\ job[p].id \in live => Sane(acct'[job[p].id])
         /\ acct'[job[p].id].version = Target(p).version
         /\ job[p].id \in live /\ Done(Target(p), today) => Done(acct'[job[p].id], today)
<1> DEFINE i == job[p].id
           r == Target(p)
           q == acct'[i]
<1>0. /\ pc[p] # "idle" /\ i \in Accounts /\ job[p] \in Jobs /\ r \in AccountRecords
      /\ FlowOf(pc[p], job[p]) /\ OnLive(p) /\ Fit(pc[p], job[p], r)
      /\ i \in live => Sane(r)
      /\ \A s : Goto(p, s) => pc'[p] = s
      /\ \A j : job' = [job EXCEPT ![p] = j] => job'[p] = j
      /\ UNCHANGED job => job'[p] = job[p]
  BY InsideMoves, TargetTyped DEF WorkInv, Locked, Goto, Typed, TypeOK, Target
<1>1. CASE PrepareRejected(p)
  <2>1. SameBut(q, r)
    BY <1>0, <1>1, StatusOnly DEF PrepareRejected
  <2> QED BY <1>0, <1>1, <2>1 DEF PrepareRejected, SameBut, Fit, Done, Sane, OnLive, Worked, FlowOf, Frame
<1>2. CASE PrepareReady(p)
  <2>1. SameBut(q, r)
    BY <1>0, <1>2, StatusOnly DEF PrepareReady
  <2> QED BY <1>0, <1>2, <2>1 DEF PrepareReady, Admissible, SameBut, Fit, Done, Sane, OnLive, Worked, FlowOf, Frame
<1>3. CASE PrepareStale(p)
  <2>1. SameBut(q, r)
    BY <1>0, <1>3, StatusOnly DEF PrepareStale
  <2> QED BY <1>0, <1>3, <2>1 DEF PrepareStale, Admissible, SameBut, Fit, Done, Sane, OnLive, Worked, FlowOf, Frame
<1>4. CASE RefreshOk(p)
  <2>1. SameBut(q, r)
    BY <1>0, <1>4, StatusOnly DEF RefreshOk
  <2> QED BY <1>0, <1>4, <2>1 DEF RefreshOk, SameBut, Fit, Done, Sane, OnLive, Worked, FlowOf, Frame
<1>5. CASE RefreshFails(p)
  <2>1. SameBut(q, r)
    BY <1>0, <1>5, StatusOnly DEF RefreshFails, MarkError
  <2> QED BY <1>0, <1>5, <2>1 DEF RefreshFails, GiveUp, SameBut, Fit, Done, Sane, OnLive, Worked, FlowOf, Frame
<1>6. CASE SaveTokens(p)
  <2>1. SameBut(q, r)
    BY <1>0, <1>6, StatusOnly DEF SaveTokens
  <2> QED BY <1>0, <1>6, <2>1 DEF SaveTokens, SameBut, Fit, Done, Sane, OnLive, Worked, FlowOf, Frame
<1>7. CASE SaveTokensFails(p)
  <2>1. SameBut(q, r)
    BY <1>0, <1>7, StatusOnly DEF SaveTokensFails, SaveFails
  <2> QED BY <1>0, <1>7, <2>1 DEF SaveTokensFails, SaveFails, GiveUp, SameBut, Fit, Done, Sane, OnLive, Worked, FlowOf, Frame
<1>8. CASE Skip(p)
  <2>1. SameBut(q, r)
    BY <1>0, <1>8, StatusOnly DEF Skip
  <2> QED BY <1>0, <1>8, <2>1 DEF Skip, SameBut, Fit, Done, Sane, OnLive, Worked, FlowOf, Frame
<1>9. CASE Proceed(p)
  <2>1. SameBut(q, r)
    BY <1>0, <1>9, StatusOnly DEF Proceed
  <2> QED BY <1>0, <1>9, <2>1 DEF Proceed, SameBut, Fit, Done, Sane, OnLive, Worked, FlowOf, Frame
<1>10. CASE Mark(p)
  <2>1. SameBut(q, r)
    BY <1>0, <1>10, StatusOnly DEF Mark
  <2> QED BY <1>0, <1>10, <2>1 DEF Mark, SameBut, Fit, Done, Sane, OnLive, Worked, FlowOf, Frame
<1>11. CASE CallOk(p)
  <2>1. SameBut(q, r)
    BY <1>0, <1>11, StatusOnly DEF CallOk
  <2> QED BY <1>0, <1>11, <2>1 DEF CallOk, SameBut, Fit, Done, Sane, OnLive, Worked, FlowOf, Frame
<1>12. CASE CallAuth(p)
  <2>1. SameBut(q, r)
    BY <1>0, <1>12, StatusOnly DEF CallAuth
  <2> QED BY <1>0, <1>12, <2>1 DEF CallAuth, SameBut, Fit, Done, Sane, OnLive, Worked, FlowOf, Frame
<1>13. CASE CallFails(p)
  <2>1. SameBut(q, r)
    BY <1>0, <1>13, StatusOnly DEF CallFails, MarkError
  <2> QED BY <1>0, <1>13, <2>1 DEF CallFails, SameBut, Fit, Done, Sane, OnLive, Worked, FlowOf, Frame
<1>14. CASE Record(p)
  <2>1. q \in {Outcome(p), r}
    BY <1>0, <1>14, Written DEF Record
  <2>2. q.version = r.version /\ q.enabled = r.enabled
    BY <1>0, <2>1 DEF Outcome, AccountRecords
  <2>3. q = r \/ (job[p].op = "checkin" /\ q.due = r.due)
              \/ (/\ job[p].op = "active" /\ q.last = "confirmed"
                  /\ q.date = today /\ q.attempts = 0)
    BY <1>0, <1>14, <2>1 DEF Record, Outcome, FlowOf, AccountRecords
  <2>4. today > 0 /\ 0 < MaxAttempts
    BY DEF Typed, TypeOK, MaxAttempts
  <2>5. i \in live => Sane(q)
    BY <1>0, <1>14, <2>2, <2>3, <2>4 DEF Record, Sane, Fit, Worked
  <2> QED BY <1>0, <1>14, <2>2, <2>5, RecordDone DEF Record, Fit, OnLive, Worked, FlowOf, Frame
<1>15. CASE RecordFails(p)
  <2>1. SameBut(q, r)
    BY <1>0, <1>15, StatusOnly DEF RecordFails, SaveFails
  <2> QED BY <1>0, <1>15, <2>1 DEF RecordFails, SaveFails, SameBut, Fit, Done, Sane, OnLive, Worked, FlowOf, Frame
<1>16. CASE PointsOk(p)
  <2>1. SameBut(q, r)
    BY <1>0, <1>16, StatusOnly DEF PointsOk
  <2> QED BY <1>0, <1>16, <2>1 DEF PointsOk, SameBut, Fit, Done, Sane, OnLive, Worked, FlowOf, Frame
<1>17. CASE PointsAuth(p)
  <2>1. SameBut(q, r)
    BY <1>0, <1>17, StatusOnly DEF PointsAuth, MarkError
  <2> QED BY <1>0, <1>17, <2>1 DEF PointsAuth, SameBut, Fit, Done, Sane, OnLive, Worked, FlowOf, Frame
<1>18. CASE PointsFails(p)
  <2>1. SameBut(q, r)
    BY <1>0, <1>18, StatusOnly DEF PointsFails, MarkError
  <2> QED BY <1>0, <1>18, <2>1 DEF PointsFails, GiveUp, SameBut, Fit, Done, Sane, OnLive, Worked, FlowOf, Frame
<1>19. CASE SavePoints(p)
  <2>1. q \in {Queried(p), r}
    BY <1>0, <1>19, Written DEF SavePoints
  <2>2. \/ SameBut(q, r)
        \/ /\ q.version = r.version /\ q.enabled = r.enabled /\ q.date = r.date
           /\ q.due = "no" /\ q.last = "credited" /\ r.due # "no"
    BY <1>0, <2>1 DEF Queried, SameBut, AccountRecords
  <2>3. pc'[p] \notin Worked \cup {"postpone"} \/ (pc'[p] = "mark" /\ job[p].op = "active")
    BY <1>0, <1>19 DEF SavePoints, FlowOf, Worked
  <2>4. i \in live /\ live' = live /\ job'[p] = job[p]
    BY <1>0, <1>19 DEF SavePoints, OnLive, Worked, Frame
  <2> QED BY <1>0, <1>19, <2>2, <2>3, <2>4 DEF SavePoints, SameBut, Fit, Done, Sane, Worked
<1>20. CASE SavePointsFails(p)
  <2>1. SameBut(q, r)
    BY <1>0, <1>20, StatusOnly DEF SavePointsFails, SaveFails
  <2> QED BY <1>0, <1>20, <2>1 DEF SavePointsFails, SaveFails, GiveUp, SameBut, Fit, Done, Sane, OnLive, Worked, FlowOf, Frame
<1>21. CASE Recheck(p)
  <2>1. SameBut(q, r)
    BY <1>0, <1>21, StatusOnly DEF Recheck
  <2>2. live' = live /\ job'[p].op = "recheck"
    BY <1>0, <1>21 DEF Recheck, FlowOf, Frame, Jobs
  <2>3. pc'[p] = "release" \/ (pc'[p] = "points" /\ i \in live /\ r.due = "now")
    BY <1>0, <1>21 DEF Recheck
  <2> QED BY <1>0, <2>1, <2>2, <2>3 DEF SameBut, Fit, Done, Sane, Worked
<1>22. CASE Count(p)
  <2>1. q \in {Counted(p), r}
    BY <1>0, <1>22, Written DEF Count
  <2>2. r.due = "no" => q = r
    BY <1>0, <1>22, Written DEF Count
  <2>3. /\ q.version = r.version /\ q.enabled = r.enabled /\ q.last = r.last
        /\ q.date = r.date
        /\ q = r \/ q.due = "no" \/ q.attempts < MaxAttempts
    <3> DEFINE n == r.attempts + 1
               a == [r EXCEPT !.due = "no", !.attempts = n, !.base = 0]
               b == [r EXCEPT !.due = "later", !.attempts = n]
    <3>1. n \in Nat /\ MaxAttempts \in Nat
      BY <1>0 DEF AccountRecords, MaxAttempts
    <3>2. q \in {IF n >= MaxAttempts THEN a ELSE b, r}
      BY <2>1 DEF Counted
    <3> HIDE DEF n
    <3>3. /\ a.version = r.version /\ a.enabled = r.enabled /\ a.last = r.last
          /\ a.date = r.date /\ a.due = "no"
          /\ b.version = r.version /\ b.enabled = r.enabled /\ b.last = r.last
          /\ b.date = r.date /\ b.attempts = n
      BY <1>0 DEF AccountRecords
    <3> HIDE DEF a, b
    <3> QED BY <3>1, <3>2, <3>3
  <2> QED BY <1>0, <1>22, <2>2, <2>3 DEF Count, Fit, Done, Sane, OnLive, Worked, Frame
<1>23. CASE Postpone(p)
  <2>1. q \in {[r EXCEPT !.due = "later"], r}
    BY <1>0, <1>23, Written DEF Postpone
  <2> QED BY <1>0, <1>23, <2>1 DEF Postpone, Fit, Done, Sane, OnLive, Worked, FlowOf, AccountRecords, Frame
<1>24. CASE Edit(p)
  <2>1. q \in {Edited(p), r}
    BY <1>0, <1>24, Written DEF Edit
  <2> QED BY <1>0, <1>24, <2>1 DEF Edit, Edited, Fit, Done, Sane, OnLive, Worked, FlowOf, AccountRecords, Frame
<1>25. CASE Login(p)
  <2>1. q \in {[r EXCEPT !.enabled = TRUE, !.status = "ready"], r}
    BY <1>0, <1>25, Written DEF Login
  <2> QED BY <1>0, <1>25, <2>1 DEF Login, Fit, Done, Sane, OnLive, Worked, FlowOf, AccountRecords, Frame
<1>26. CASE Delete(p)
  <2>1. SameBut(q, r)
    BY <1>0, <1>26, StatusOnly DEF Delete
  <2> QED BY <1>0, <1>26, <2>1 DEF Delete, SameBut, Fit, Done, Sane, OnLive, Worked, FlowOf, Frame
<1> QED
  BY <1>1, <1>2, <1>3, <1>4, <1>5, <1>6, <1>7, <1>8, <1>9, <1>10, <1>11, <1>12, <1>13, <1>14, <1>15, <1>16, <1>17, <1>18, <1>19, <1>20, <1>21, <1>22, <1>23, <1>24, <1>25, <1>26 DEF Inside

(* Only the account a goroutine works on changes under its step, and no    *)
(* other goroutine is at work on that one.                                 *)
LEMMA OthersKeep ==
  ASSUME Typed, LockInv, NEW p \in Procs, Inside(p)
  PROVE  /\ \A i \in Accounts \ {job[p].id} : acct'[i] = acct[i]
         /\ \A q \in Procs \ {p} :
              /\ pc'[q] = pc[q] /\ job'[q] = job[q]
              /\ Holds(q) /\ job[q].id \in live =>
                   /\ job[q].id # job[p].id /\ job[q].id \in live'
                   /\ acct'[job[q].id] = acct[job[q].id]
<1>1. PICK s, j : MovesTo(p, s, j)
  BY InsideMoves
<1>2. pc[p] \in Locked /\ pc[p] # "idle" /\ Updates(p)
  BY InsideMoves DEF Locked
<1>3. \A i \in Accounts \ {job[p].id} : acct'[i] = acct[i]
  BY <1>2, Updated
<1>4. \A q \in Procs \ {p} : pc'[q] = pc[q] /\ job'[q] = job[q]
  BY <1>1, Moved
<1>5. live \ {job[p].id} \subseteq live' /\ live \subseteq Accounts
  BY InsideFrame DEF Typed, TypeOK
<1> QED BY <1>2, <1>3, <1>4, <1>5 DEF LockInv, Holds

(* The steps outside an operation touch no account, and end before one is  *)
(* looked at.                                                              *)
Arriving == {"idle", "lock", "prep", "edit", "delete", "login", "recheck"}

LEMMA OutsideKeeps ==
  ASSUME Typed, NEW p \in Procs, Outside(p)
  PROVE  /\ UNCHANGED <<acct, live, today, bal, served, acked>>
         /\ pc[p] \in {"idle", "lock", "release"} /\ pc'[p] \in Arriving
         /\ \A q \in Procs \ {p} : pc'[q] = pc[q] /\ job'[q] = job[q]
<1> USE DEF Arriving, remote, sched
<1>1. ASSUME NEW o \in ManualOps, NEW i \in Accounts, NEW f \in BOOLEAN, Request(p, o, i, f)
      PROVE  pc'[p] = "lock" /\ \A q \in Procs \ {p} : pc'[q] = pc[q] /\ job'[q] = job[q]
  BY <1>1, OpsAssumption, LaunchTyped DEF Request
<1>2. CASE Acquire(p) \/ AcquireUnregistered(p)
  <2>1. pc' = [pc EXCEPT ![p] = FirstStep(p)] /\ FirstStep(p) \in Arriving
    BY <1>2 DEF Acquire, AcquireUnregistered, Goto, FirstStep
  <2>2. pc'[p] \in Arriving /\ \A q \in Procs \ {p} : pc'[q] = pc[q]
    BY <2>1 DEF Typed, TypeOK
  <2> QED BY <1>2, <2>2 DEF Acquire, AcquireUnregistered
<1>3. CASE Release(p) \/ TryLockFails(p)
  BY <1>3, IdleTyped DEF Release, TryLockFails
<1>4. CASE NextInBatch(p)
  <2>1. PICK i \in batch[p] : Launch(p, BatchOp(p, i), i, FALSE)
    BY <1>4 DEF NextInBatch
  <2>2. i \in Accounts /\ BatchOp(p, i) \in Ops \cup {"recheck"} /\ FALSE \in BOOLEAN
    BY DEF Typed, TypeOK, BatchOp, Ops
  <2>3. pc'[p] = "lock" /\ \A q \in Procs \ {p} : pc'[q] = pc[q] /\ job'[q] = job[q]
    BY <2>1, <2>2, LaunchTyped
  <2> QED BY <1>4, <2>3 DEF NextInBatch
<1>5. CASE EndRunAll(p) \/ StartRechecks(p)
  BY <1>5 DEF EndRunAll, StartRechecks
<1>6. CASE \E v \in Versions : StartRunAll(p, v) \/ StartRefreshAll(p, v)
  BY <1>6 DEF StartRunAll, StartRefreshAll
<1>7. CASE \E o \in ManualOps, i \in Accounts, f \in BOOLEAN : Request(p, o, i, f)
  BY <1>1, <1>7 DEF Request
<1> QED BY <1>2, <1>3, <1>4, <1>5, <1>6, <1>7 DEF Outside

LEMMA NextWorkInv == Typed /\ LockInv /\ WorkInv /\ [Next]_vars => WorkInv'
<1> SUFFICES ASSUME Typed, LockInv, WorkInv, [Next]_vars PROVE WorkInv'
  OBVIOUS
<1>0. live \subseteq Accounts
  BY DEF Typed, TypeOK
<1>1. ASSUME NEW p \in Procs, Inside(p) PROVE WorkInv'
  <2>1. PICK s, j : MovesTo(p, s, j)
    BY <1>1, InsideMoves
  <2>2. job'[p].id = job[p].id /\ live' \subseteq live
    BY <1>1, <2>1, Moved, InsideFrame DEF MovesTo, Typed
  <2>3. OnLive(p)' /\ Fit(pc'[p], job'[p], Target(p)')
    BY <1>1, <2>2, InsideFits DEF OnLive, Target
  <2>4. ASSUME NEW q \in Procs \ {p} PROVE OnLive(q)' /\ Fit(pc'[q], job'[q], Target(q)')
    <3>1. pc'[q] = pc[q] /\ job'[q] = job[q]
      BY <1>1, OthersKeep
    <3>2. OnLive(q) /\ Fit(pc[q], job[q], acct[job[q].id])
      BY DEF WorkInv, Target
    <3>3. CASE pc[q] \in Worked \cup {"count", "postpone"}
      <4>1. Holds(q) /\ job[q].id \in live
        BY <3>2, <3>3 DEF OnLive, Holds, Worked, Locked
      <4>2. job[q].id \in live' /\ acct'[job[q].id] = acct[job[q].id]
        BY <1>1, <4>1, OthersKeep
      <4> QED BY <3>1, <3>2, <4>2 DEF OnLive, Target
    <3> QED BY <3>1, <3>3 DEF OnLive, Fit, Target
  <2>5. ASSUME NEW i \in live' PROVE Sane(acct'[i])
    BY <1>0, <1>1, <2>2, InsideFits, OthersKeep DEF WorkInv
  <2> QED BY <2>3, <2>4, <2>5 DEF WorkInv
<1>2. ASSUME NEW p \in Procs, Outside(p) PROVE WorkInv'
  <2>1. /\ UNCHANGED <<acct, live>> /\ pc'[p] \in Arriving
        /\ \A q \in Procs \ {p} : pc'[q] = pc[q] /\ job'[q] = job[q]
    BY <1>2, OutsideKeeps
  <2>2. OnLive(p)' /\ Fit(pc'[p], job'[p], Target(p)')
    BY <2>1 DEF OnLive, Fit, Worked, Arriving
  <2> QED BY <2>1, <2>2 DEF WorkInv, OnLive, Target
<1>3. CASE Midnight \/ Restart \/ \E i \in Accounts : Balance(i)
  BY <1>3 DEF Midnight, Restart, Balance, WorkInv, OnLive, Fit, Worked, Target
<1>4. ASSUME NEW i \in Accounts, Ripen(i) PROVE WorkInv'
  <2>1. /\ UNCHANGED <<live, pc, job>>
        /\ \A k \in Accounts \ {i} : acct'[k] = acct[k]
        /\ acct[i].due # "no" /\ acct'[i] = [acct[i] EXCEPT !.due = "now"]
    BY <1>4 DEF Ripen, Typed, TypeOK
  <2>2. acct[i] \in AccountRecords
    BY DEF Typed, TypeOK
  <2>3. /\ Sane(acct[i]) => Sane(acct'[i])
        /\ \A s, j : Fit(s, j, acct[i]) => Fit(s, j, acct'[i])
    BY <2>1, <2>2 DEF Sane, Fit, AccountRecords
  <2>4. \A q \in Procs : OnLive(q)'
    BY <2>1 DEF WorkInv, OnLive
  <2>5. ASSUME NEW q \in Procs PROVE Fit(pc'[q], job'[q], Target(q)')
    <3>1. Fit(pc[q], job[q], acct[job[q].id])
      BY DEF WorkInv, Target
    <3>2. job[q].id \in Accounts \/ pc[q] = "idle"
      BY TargetTyped
    <3>3. CASE pc[q] = "idle"
      BY <2>1, <3>3 DEF Fit, Worked
    <3>4. CASE job[q].id \in Accounts
      BY <2>1, <2>3, <3>1, <3>4 DEF Target
    <3> QED BY <3>2, <3>3, <3>4
  <2> QED BY <1>0, <2>1, <2>3, <2>4, <2>5 DEF WorkInv
<1>5. CASE UNCHANGED vars
  BY <1>5 DEF vars, WorkInv, OnLive, Target
<1> QED BY <1>1, <1>2, <1>3, <1>4, <1>5, NextSplits DEF Environment

LEMMA WorkInvariant == Spec => [](Typed /\ LockInv /\ WorkInv)
<1>1. Init => WorkInv
  BY DEF Init, WorkInv, OnLive, Fit, Sane, Worked, NewAccount
<1> QED BY <1>1, LockInvariant, NextWorkInv, PTL DEF Spec

(* No remote call and no update concerns an account that was deleted, or   *)
(* disabled after the operation began.                                     *)
THEOREM WorksOnLive == Spec => []WorksOnLiveEnabled
<1>1. WorkInv => WorksOnLiveEnabled
  BY DEF WorkInv, OnLive, Fit, Worked, WorksOnLiveEnabled
<1> QED BY <1>1, WorkInvariant, PTL

(* The fields of a pending recheck agree with each other.                  *)
THEOREM RechecksSane == Spec => []RecheckSane
<1>1. WorkInv => RecheckSane
  BY DEF WorkInv, Sane, RecheckSane
<1> QED BY <1>1, WorkInvariant, PTL

-----------------------------------------------------------------------------
(* No repeated request: what holds while no save fails and the process is  *)
(* not killed.  A goroutine is on its way to send the task of its account: *)
(* it has decided to and has no answer yet.                                *)
At(s, j, step) == s = step \/ (s \in {"refresh", "saveTok"} /\ j.back = step)

Sending(s, j) ==
  \/ s = "mark" \/ At(s, j, "call")
  \/ (At(s, j, "points") \/ s = "savePoints") /\ j.after = "mark"

RepeatInv ==
  /\ \A i \in live : acked[i] =>
       Done(acct[i], today) \/ \E q \in Procs : pc[q] = "record" /\ job[q].id = i
  /\ \A q \in Procs : Sending(pc[q], job[q]) /\ ~job[q].flag => ~acked[job[q].id]

LEMMA Alone ==
  ASSUME LockInv, NEW p \in Procs, NEW q \in Procs, Holds(p), Holds(q),
         job[p].id = job[q].id, job[p].id \in live
  PROVE  p = q
  BY DEF LockInv

LEMMA InsideSends ==
  ASSUME Typed, LockInv, WorkInv, RepeatInv, Faults = {}, NEW p \in Procs, Inside(p)
  PROVE  /\ \A k \in Accounts \ {job[p].id} : acked'[k] = acked[k]
         /\ job[p].id \in live /\ acked'[job[p].id] =>
              Done(acct'[job[p].id], today) \/ pc'[p] = "record"
         /\ Sending(pc'[p], job'[p]) /\ ~job'[p].flag => ~acked'[job[p].id]
<1> DEFINE i == job[p].id
           KeepsOn == /\ acked' = acked /\ pc[p] # "record"
                      /\ Sending(pc'[p], job'[p]) =>
                           Sending(pc[p], job[p]) /\ job'[p].flag = job[p].flag
<1>0. /\ Holds(p) /\ pc[p] # "idle" /\ i \in Accounts /\ job[p] \in Jobs
      /\ FlowOf(pc[p], job[p]) /\ OnLive(p)
      /\ \A s : Goto(p, s) => pc'[p] = s
      /\ \A j : job' = [job EXCEPT ![p] = j] => job'[p] = j
      /\ UNCHANGED job => job'[p] = job[p]
  BY InsideMoves, TargetTyped DEF WorkInv, Locked, Holds, Goto, Typed, TypeOK
<1>1. i \in live /\ acked[i] => Done(Target(p), today) \/ pc[p] = "record"
  <2>1. \A q \in Procs : pc[q] = "record" /\ job[q].id = i /\ i \in live => q = p
    BY <1>0, Alone DEF Holds, Locked
  <2> QED BY <2>1 DEF RepeatInv, Target
<1>2. Sending(pc[p], job[p]) /\ ~job[p].flag => ~acked[i]
  BY DEF RepeatInv
<1>3. CASE KeepsOn
  BY <1>1, <1>2, <1>3, InsideFits
<1>4. CASE CallOk(p)
  <2>1. pc'[p] = "record" /\ \A k \in Accounts \ {i} : acked'[k] = acked[k]
    BY <1>0, <1>4 DEF CallOk, Typed, TypeOK
  <2> QED BY <2>1 DEF Sending, At
<1>5. CASE Record(p)
  <2>1. acked' = acked /\ ~Sending(pc'[p], job'[p])
    BY <1>0, <1>5 DEF Record, Frame, remote, Sending, At, FlowOf
  <2> QED BY <1>5, <2>1, RecordDone
<1>6. CASE Proceed(p)
  <2>1. acked' = acked /\ pc[p] = "decide" /\ i \in live
    BY <1>0, <1>6 DEF Proceed, Frame, remote, OnLive, Worked
  <2>2. Sending(pc'[p], job'[p]) => job[p].op \in {"checkin", "active"} /\ job'[p].flag = job[p].flag
    <3>1. /\ job'[p].flag = job[p].flag /\ pc'[p] \in {"mark", "points"}
          /\ pc'[p] = "mark" => job[p].op = "checkin"
          /\ job'[p].after = "mark" => job[p].op = "active"
      BY <1>0, <1>6 DEF Proceed, Jobs, Typed, TypeOK
    <3> QED BY <3>1 DEF Sending, At
  <2>3. job[p].op \in {"checkin", "active"} /\ ~job[p].flag => ~Done(Target(p), today)
    BY <1>6 DEF Proceed, Skips, DoneToday, Done, Target
  <2>4. Done(Target(p), today) => Done(acct'[i], today)
    BY <2>1, InsideFits
  <2> QED BY <1>1, <2>1, <2>2, <2>3, <2>4
<1>7. CASE PrepareRejected(p) \/ PrepareReady(p) \/ PrepareStale(p) \/ RefreshOk(p) \/ SaveTokens(p)
  <2>1. acked' = acked /\ pc[p] # "record"
    BY <1>0, <1>7 DEF PrepareRejected, PrepareReady, PrepareStale, RefreshOk, SaveTokens, Frame, remote
  <2>2. Sending(pc'[p], job'[p]) => Sending(pc[p], job[p]) /\ job'[p].flag = job[p].flag
    BY <1>0, <1>7 DEF PrepareRejected, PrepareReady, PrepareStale, RefreshOk, SaveTokens, Sending, At, Jobs
  <2> QED BY <1>3, <2>1, <2>2
<1>8. CASE RefreshFails(p) \/ PointsFails(p) \/ SavePointsFails(p) \/ SaveTokensFails(p) \/ CallFails(p)
  <2>1. acked' = acked /\ pc[p] # "record"
    BY <1>0, <1>8 DEF RefreshFails, PointsFails, SavePointsFails, SaveTokensFails, CallFails, Frame, remote
  <2>2. pc'[p] \in {"postpone", "release"}
    BY <1>0, <1>8 DEF RefreshFails, PointsFails, SavePointsFails, SaveTokensFails, CallFails, GiveUp
  <2> QED BY <1>3, <2>1, <2>2 DEF Sending, At
<1>9. CASE Skip(p) \/ Mark(p) \/ CallAuth(p)
  <2>1. acked' = acked /\ pc[p] # "record"
    BY <1>0, <1>9 DEF Skip, Mark, CallAuth, Frame, remote
  <2>2. Sending(pc'[p], job'[p]) => Sending(pc[p], job[p]) /\ job'[p].flag = job[p].flag
    <3>1. job'[p].flag = job[p].flag
      BY <1>0, <1>9 DEF Skip, Mark, CallAuth, Jobs, Typed, TypeOK
    <3>2. \/ pc'[p] = "points" /\ job'[p].after = "release"
          \/ pc[p] \in {"mark", "call"}
      BY <1>0, <1>9 DEF Skip, Mark, CallAuth, Jobs, Typed, TypeOK
    <3> QED BY <3>1, <3>2 DEF Sending, At
  <2> QED BY <1>3, <2>1, <2>2
<1>10. CASE PointsOk(p) \/ PointsAuth(p) \/ SavePoints(p) \/ Recheck(p)
  <2>1. acked' = acked /\ pc[p] # "record"
    BY <1>0, <1>10 DEF PointsOk, PointsAuth, SavePoints, Recheck, Frame, remote
  <2>2. Sending(pc'[p], job'[p]) => Sending(pc[p], job[p]) /\ job'[p].flag = job[p].flag
    <3>1. job'[p].flag = job[p].flag
      BY <1>0, <1>10 DEF PointsOk, PointsAuth, SavePoints, Recheck, Jobs, Typed, TypeOK
    <3>2. CASE PointsOk(p) \/ PointsAuth(p)
      <4>1. /\ pc[p] = "points" /\ job'[p].after = job[p].after
            /\ pc'[p] = "savePoints" \/ (pc'[p] = "refresh" /\ job'[p].back = "points")
        BY <1>0, <3>2 DEF PointsOk, PointsAuth, Jobs, Typed, TypeOK
      <4> QED BY <3>1, <4>1 DEF Sending, At
    <3>3. CASE SavePoints(p)
      BY <1>0, <3>1, <3>3 DEF SavePoints, Sending, At, FlowOf
    <3>4. CASE Recheck(p)
      <4>1. pc'[p] = "release" \/ (pc'[p] = "points" /\ job'[p].after = "count")
        BY <1>0, <3>4 DEF Recheck, Jobs, Typed, TypeOK
      <4> QED BY <4>1 DEF Sending, At
    <3> QED BY <1>10, <3>2, <3>3, <3>4
  <2> QED BY <1>3, <2>1, <2>2
<1>11. CASE Count(p) \/ Postpone(p) \/ Edit(p) \/ Login(p) \/ Delete(p)
  <2>1. acked' = acked /\ pc[p] # "record" /\ pc'[p] = "release"
    BY <1>0, <1>11 DEF Count, Postpone, Edit, Login, Delete, Frame, remote
  <2> QED BY <1>3, <2>1 DEF Sending, At
<1>12. ~RecordFails(p)
  BY DEF RecordFails, SaveFails
<1> QED
  BY <1>4, <1>5, <1>6, <1>7, <1>8, <1>9, <1>10, <1>11, <1>12 DEF Inside

LEMMA NextRepeatInv ==
  ASSUME Faults = {}
  PROVE  Typed /\ LockInv /\ WorkInv /\ RepeatInv /\ [Next]_vars => RepeatInv'
<1> SUFFICES ASSUME Typed, LockInv, WorkInv, RepeatInv, [Next]_vars PROVE RepeatInv'
  OBVIOUS
<1>0. live \subseteq Accounts
  BY DEF Typed, TypeOK
<1>1. ASSUME NEW p \in Procs, Inside(p) PROVE RepeatInv'
  <2>1. PICK s, j : MovesTo(p, s, j)
    BY <1>1, InsideMoves
  <2>2. job'[p].id = job[p].id /\ live' \subseteq live /\ today' = today
    BY <1>1, <2>1, Moved, InsideFrame DEF MovesTo, Typed
  <2>3. \A q \in Procs \ {p} : pc'[q] = pc[q] /\ job'[q] = job[q]
    BY <1>1, OthersKeep
  <2>4. ASSUME NEW i \in live', acked'[i]
        PROVE  Done(acct'[i], today') \/ \E q \in Procs : pc'[q] = "record" /\ job'[q].id = i
    <3>1. CASE i = job[p].id
      BY <1>1, <2>2, <2>4, <3>1, InsideSends
    <3>2. CASE i # job[p].id
      <4>1. acked[i] /\ acct'[i] = acct[i] /\ i \in live
        BY <1>0, <1>1, <2>2, <2>4, <3>2, InsideSends, OthersKeep
      <4> QED BY <2>2, <2>3, <3>2, <4>1 DEF RepeatInv
    <3> QED BY <3>1, <3>2
  <2>5. ASSUME NEW q \in Procs, Sending(pc'[q], job'[q]), ~job'[q].flag
        PROVE  ~acked'[job'[q].id]
    <3>1. CASE q = p
      BY <1>1, <2>2, <2>5, <3>1, InsideSends
    <3>2. CASE q # p
      <4>1. pc'[q] = pc[q] /\ job'[q] = job[q] /\ ~acked[job[q].id]
        BY <2>3, <2>5, <3>2 DEF RepeatInv
      <4>2. Holds(q) /\ job[q].id \in live
        BY <2>5, <4>1 DEF WorkInv, OnLive, Worked, Sending, At, Holds, Locked
      <4>3. job[q].id # job[p].id
        BY <1>1, <3>2, <4>2, OthersKeep
      <4> QED BY <1>0, <1>1, <4>1, <4>2, <4>3, InsideSends
    <3> QED BY <3>1, <3>2
  <2> QED BY <2>4, <2>5 DEF RepeatInv
<1>2. ASSUME NEW p \in Procs, Outside(p) PROVE RepeatInv'
  <2>1. /\ UNCHANGED <<acct, live, today, acked>> /\ pc'[p] \in Arriving /\ pc[p] # "record"
        /\ \A q \in Procs \ {p} : pc'[q] = pc[q] /\ job'[q] = job[q]
    BY <1>2, OutsideKeeps
  <2>2. ~Sending(pc'[p], job'[p])
    BY <2>1 DEF Sending, At, Arriving
  <2> QED BY <2>1, <2>2 DEF RepeatInv
<1>3. CASE Midnight
  BY <1>0, <1>3 DEF Midnight, RepeatInv, WorkInv, OnLive, Worked, Sending, At
<1>4. ASSUME NEW i \in Accounts, Ripen(i) PROVE RepeatInv'
  <2>1. UNCHANGED <<live, pc, job, today, acked>>
    BY <1>4 DEF Ripen, remote
  <2>2. /\ \A k \in Accounts \ {i} : acct'[k] = acct[k]
        /\ acct[i] \in AccountRecords /\ acct'[i] = [acct[i] EXCEPT !.due = "now"]
    BY <1>4 DEF Ripen, Typed, TypeOK
  <2>3. \A k \in Accounts : Done(acct[k], today) => Done(acct'[k], today)
    BY <2>2 DEF Done, AccountRecords
  <2> QED BY <1>0, <2>1, <2>3 DEF RepeatInv
<1>5. CASE \E i \in Accounts : Balance(i)
  BY <1>5 DEF Balance, RepeatInv
<1>6. ~Restart
  BY DEF Restart
<1>7. CASE UNCHANGED vars
  BY <1>7 DEF vars, RepeatInv
<1> QED BY <1>1, <1>2, <1>3, <1>4, <1>5, <1>6, <1>7, NextSplits DEF Environment

(* While saves succeed and the process is not killed, no goroutine is about*)
(* to send again, unforced, a task that the service confirmed that day.    *)
THEOREM NeverRepeats ==
  ASSUME Faults = {}
  PROVE  Spec => []NoRepeat
<1>1. Init => RepeatInv
  BY DEF Init, RepeatInv, Sending, At
<1>2. RepeatInv => NoRepeat
  BY DEF RepeatInv, NoRepeat, Sending, At
<1> QED BY <1>1, <1>2, WorkInvariant, NextRepeatInv, PTL DEF Spec

-----------------------------------------------------------------------------
(* An account that shows "running" has its task under way.                 *)
UnderWay(s, j) == At(s, j, "call") \/ s = "record"

RunningInv ==
  \A i \in live : acct[i].status = "running" =>
    \E q \in Procs : job[q].id = i /\ UnderWay(pc[q], job[q])

LEMMA InsideRuns ==
  ASSUME Typed, LockInv, RunningInv, Faults = {}, NEW p \in Procs, Inside(p),
         job[p].id \in live, acct'[job[p].id].status = "running"
  PROVE  UnderWay(pc'[p], job'[p])
<1> DEFINE i == job[p].id
           r == Target(p)
           q == acct'[i]
<1>0. /\ Holds(p) /\ pc[p] # "idle" /\ r \in AccountRecords /\ job[p] \in Jobs
      /\ FlowOf(pc[p], job[p])
      /\ \A s : Goto(p, s) => pc'[p] = s
      /\ \A j : job' = [job EXCEPT ![p] = j] => job'[p] = j
      /\ UNCHANGED job => job'[p] = job[p]
      /\ \A x : Lossy(p, x) => q = x
  BY InsideMoves, TargetTyped, Written DEF Lossy, SaveFails, Locked, Holds, Goto, Typed, TypeOK
<1>1. r.status = "running" => UnderWay(pc[p], job[p])
  <2>1. \A h \in Procs : job[h].id = i /\ UnderWay(pc[h], job[h]) => h = p
    BY <1>0, Alone DEF Holds, Locked, UnderWay, At
  <2> QED BY <2>1 DEF RunningInv, Target
<1>2. CASE \/ PrepareRejected(p) \/ PrepareReady(p) \/ PrepareStale(p) \/ Proceed(p)
           \/ PointsOk(p) \/ Recheck(p) \/ Delete(p)
  <2>1. q = r /\ pc[p] \in {"prep", "decide", "points", "recheck", "delete"}
    BY <1>0, <1>2, Written
       DEF PrepareRejected, PrepareReady, PrepareStale, Proceed, PointsOk, Recheck, Delete
  <2> QED BY <1>1, <2>1 DEF UnderWay, At
<1>3. CASE RefreshOk(p)
  <2>1. q = r /\ pc[p] = "refresh" /\ pc'[p] = "saveTok" /\ job'[p] = job[p]
    BY <1>0, <1>3, Written DEF RefreshOk
  <2> QED BY <1>1, <2>1 DEF UnderWay, At
<1>4. CASE CallAuth(p)
  <2>1. pc'[p] = "refresh" /\ job'[p].back = "call"
    BY <1>0, <1>4 DEF CallAuth, Jobs, Typed, TypeOK
  <2> QED BY <2>1 DEF UnderWay, At
<1>5. CASE CallOk(p) \/ Mark(p)
  BY <1>0, <1>5 DEF CallOk, Mark, UnderWay, At
<1>6. CASE RefreshFails(p) \/ CallFails(p) \/ PointsAuth(p) \/ PointsFails(p)
  <2>1. PICK k : MarkError(p, k)
    BY <1>6 DEF RefreshFails, CallFails, PointsAuth, PointsFails
  <2>2. q = [r EXCEPT !.status = KindStatus(k)]
    BY <1>0, <2>1 DEF MarkError
  <2> QED BY <1>0, <2>2 DEF KindStatus, AccountRecords
<1>7. CASE SaveTokens(p) \/ Login(p)
  <2>1. q \in {[r EXCEPT !.status = "ready"], [r EXCEPT !.enabled = TRUE, !.status = "ready"]}
    BY <1>0, <1>7, Written DEF SaveTokens, Login
  <2> QED BY <1>0, <2>1 DEF AccountRecords
<1>8. CASE Skip(p)
  <2>1. q = [r EXCEPT !.status = r.last] /\ r.last \in Results
    BY <1>0, <1>8 DEF Skip, AccountRecords
  <2> QED BY <1>0, <2>1 DEF AccountRecords, Results
<1>9. CASE Record(p)
  <2>1. q = Outcome(p) /\ job[p].result # "running"
    BY <1>0, <1>9, Written DEF Record, Jobs, Results
  <2> QED BY <1>0, <2>1 DEF Outcome, AccountRecords
<1>10. CASE SavePoints(p)
  <2>1. q = Queried(p)
    BY <1>0, <1>10, Written DEF SavePoints
  <2> QED BY <1>0, <2>1 DEF Queried, AccountRecords
<1>11. CASE Count(p) \/ Postpone(p) \/ Edit(p)
  <2>1. /\ pc[p] \in {"count", "postpone", "edit"}
        /\ q \in {r, Counted(p), [r EXCEPT !.due = "later"], Edited(p)}
    BY <1>0, <1>11, Written DEF Count, Postpone, Edit
  <2>2. Counted(p).status = r.status
    BY <1>0 DEF Counted, AccountRecords
  <2>3. Edited(p).status = "running" => r.status = "running"
    BY <1>0 DEF Edited, AccountRecords
  <2>4. [r EXCEPT !.due = "later"].status = r.status
    BY <1>0 DEF AccountRecords
  <2> QED BY <1>1, <2>1, <2>2, <2>3, <2>4 DEF UnderWay, At
<1>12. ~RecordFails(p) /\ ~SaveTokensFails(p) /\ ~SavePointsFails(p)
  BY DEF RecordFails, SaveTokensFails, SavePointsFails, SaveFails
<1> QED
  BY <1>2, <1>3, <1>4, <1>5, <1>6, <1>7, <1>8, <1>9, <1>10, <1>11, <1>12 DEF Inside

LEMMA NextRunningInv ==
  ASSUME Faults = {}
  PROVE  Typed /\ LockInv /\ RunningInv /\ [Next]_vars => RunningInv'
<1> SUFFICES ASSUME Typed, LockInv, RunningInv, [Next]_vars,
                    NEW i \in live', acct'[i].status = "running"
             PROVE  \E q \in Procs : job'[q].id = i /\ UnderWay(pc'[q], job'[q])
  BY DEF RunningInv
<1>0. live \subseteq Accounts
  BY DEF Typed, TypeOK
<1>1. CASE \E p \in Procs : Inside(p)
  <2>1. PICK p \in Procs : Inside(p)
    BY <1>1
  <2>2. PICK s, j : MovesTo(p, s, j)
    BY <2>1, InsideMoves
  <2>3. job'[p].id = job[p].id /\ i \in live
    BY <2>1, <2>2, Moved, InsideFrame DEF MovesTo, Typed
  <2>4. CASE i = job[p].id
    BY <2>1, <2>3, <2>4, InsideRuns
  <2>5. CASE i # job[p].id
    <3>1. acct'[i] = acct[i] /\ \A q \in Procs \ {p} : pc'[q] = pc[q] /\ job'[q] = job[q]
      BY <1>0, <2>1, <2>3, <2>5, OthersKeep
    <3> QED BY <2>3, <2>5, <3>1 DEF RunningInv
  <2> QED BY <2>4, <2>5
<1>2. CASE \E p \in Procs : Outside(p)
  <2>1. PICK p \in Procs : Outside(p)
    BY <1>2
  <2>2. /\ UNCHANGED <<acct, live>> /\ pc[p] \in {"idle", "lock", "release"}
        /\ \A q \in Procs \ {p} : pc'[q] = pc[q] /\ job'[q] = job[q]
    BY <2>1, OutsideKeeps
  <2>3. ~UnderWay(pc[p], job[p])
    BY <2>2 DEF UnderWay, At
  <2> QED BY <2>2, <2>3 DEF RunningInv
<1>3. CASE Midnight \/ \E k \in Accounts : Balance(k)
  BY <1>3 DEF Midnight, Balance, RunningInv
<1>4. CASE \E k \in Accounts : Ripen(k)
  <2>1. PICK k \in Accounts : Ripen(k)
    BY <1>4
  <2>2. /\ \A m \in Accounts \ {k} : acct'[m] = acct[m]
        /\ acct[k] \in AccountRecords /\ acct'[k] = [acct[k] EXCEPT !.due = "now"]
        /\ UNCHANGED <<live, pc, job>>
    BY <2>1 DEF Ripen, Typed, TypeOK
  <2>3. acct[i].status = "running" /\ i \in live
    BY <1>0, <2>2 DEF AccountRecords
  <2> QED BY <2>2, <2>3 DEF RunningInv
<1>5. ~Restart
  BY DEF Restart
<1>6. CASE UNCHANGED vars
  BY <1>6 DEF vars, RunningInv
<1> QED BY <1>1, <1>2, <1>3, <1>4, <1>5, <1>6, NextSplits DEF Environment

(* While saves succeed and the process is not killed, an account that      *)
(* nobody works on does not show "running".                                *)
THEOREM NeverStuckRunning ==
  ASSUME Faults = {}
  PROVE  Spec => []NoStuckRunning
<1>1. Init => RunningInv
  BY DEF Init, RunningInv, NewAccount
<1>2. Typed /\ LockInv /\ RunningInv => NoStuckRunning
  <2> SUFFICES ASSUME Typed, LockInv, RunningInv, NEW i \in live, acct[i].status = "running"
               PROVE  lock[i] # Nobody
    BY DEF NoStuckRunning
  <2>1. PICK q \in Procs : job[q].id = i /\ UnderWay(pc[q], job[q])
    BY DEF RunningInv
  <2>2. Holds(q)
    BY <2>1 DEF UnderWay, At, Holds, Locked
  <2> QED BY <2>1, <2>2, ProcsAssumption DEF LockInv
<1> QED BY <1>1, <1>2, LockInvariant, NextRunningInv, PTL DEF Spec
=============================================================================
