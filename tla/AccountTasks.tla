---------------------------- MODULE AccountTasks ----------------------------
(***************************************************************************)
(* internal/service: the operations on accounts.  Every goroutine, an HTTP *)
(* handler or the scheduler, runs an operation under the lock of its       *)
(* account; the lock is held across the calls to the remote service, while *)
(* Service.mu is held only for one update with its save.  One action is one*)
(* remote call or one critical section of Service.mu, so that midnight,    *)
(* another goroutine, a failing save or the end of the process can come    *)
(* between any two of them.  A failing save rolls memory back and a        *)
(* successful one writes memory out whole, so acct is also what a restart  *)
(* loads (StateFile proves that of the store).                             *)
(***************************************************************************)
EXTENDS Integers, FiniteSets

CONSTANTS Accounts,  \* account IDs
          Procs,     \* goroutines: HTTP handlers and the scheduler's
          Sched,     \* the scheduler's goroutine
          Nobody,    \* holder of a free lock
          ManualOps, \* the operations the handlers are asked for
          Replies,   \* the ways a remote call may fail
          Faults,    \* what may fail locally: "save", "crash"
          MaxDay,    \* bound: days on the calendar
          MaxBal     \* bound: points the remote service shows

Ops == {"checkin", "active", "points", "edit", "delete", "login"}

ASSUME ProcsAssumption   == Sched \in Procs /\ Nobody \notin Procs
ASSUME OpsAssumption     == ManualOps \subseteq Ops
(* "auth" is KindAuthDead, "credits" KindCredit, "error" any other kind    *)
(* (KindRate too: "rate_limited" and "error" are treated alike), "lost" an *)
(* error for a request that the remote service did carry out.              *)
ASSUME RepliesAssumption == Replies \subseteq {"auth", "credits", "error", "lost"}
ASSUME FaultsAssumption  == Faults \subseteq {"save", "crash"}
ASSUME BoundsAssumption  == MaxDay \in Nat \ {0} /\ MaxBal \in Nat

MaxAttempts == 6

VARIABLES acct,   \* Service.state.Accounts, by ID
          live,   \* the IDs in the list
          lock,   \* Service.accounts: the goroutine that holds each lock
          pc,     \* the next step of each goroutine
          job,    \* what each goroutine is doing, its local variables
          batch,  \* accounts still to be visited by a batch
          runMu,  \* the goroutine inside RunAll
          today,  \* day in China
          bal,    \* balance at the remote service
          served, \* history: a task request of today reached the service
          acked   \* history: the service confirmed a task request today

vars == <<acct, live, lock, pc, job, batch, runMu, today, bal, served, acked>>
remote == <<bal, served, acked>>
sched  == <<batch, runMu>>

-----------------------------------------------------------------------------
Statuses == {"ready", "running", "error", "needs_login", "credits_exhausted",
             "disabled", "confirmed", "already_done", "credited"}
Results  == {"none", "confirmed", "already_done", "credited"}

Versions == {"cn", "intl"}

(* version is what Account.VersionMode answers, which no operation here    *)
(* changes.  last and date are LastCheckin and LastCheckinDate, or, of an  *)
(* international account, LastActive and LastActiveDate; date 0 is empty.  *)
(* due is PendingRecheckAt: zero, in the future or reached.                *)
AccountRecords ==
  [version : Versions, enabled : BOOLEAN, status : Statuses, last : Results,
   date : 0..MaxDay, balance : 0..MaxBal, base : 0..MaxBal, due : {"no", "later", "now"},
   attempts : Nat]

NewAccount(v) ==
  [version |-> v, enabled |-> TRUE, status |-> "ready", last |-> "none", date |-> 0,
   balance |-> 0, base |-> 0, due |-> "no", attempts |-> 0]

(* flag: ActiveChat's force, UpdateAccount's enabled.  retried: the token  *)
(* was refreshed after an authentication failure.  back: where a refresh   *)
(* returns to; after: where a points query returns to; seen: its answer;   *)
(* result: the answer to the task request.                                 *)
Jobs ==
  [op : Ops \cup {"recheck", "none"}, id : Accounts \cup {Nobody}, flag : BOOLEAN,
   retried : BOOLEAN, back : {"none", "decide", "call", "points"},
   after : {"none", "mark", "count", "release"}, seen : 0..MaxBal, result : Results]

NoJob == [op |-> "none", id |-> Nobody, flag |-> FALSE, retried |-> FALSE,
          back |-> "none", after |-> "none", seen |-> 0, result |-> "none"]

(* The steps taken with the account lock held.                             *)
Locked == {"prep", "refresh", "saveTok", "decide", "mark", "call", "record", "points",
           "savePoints", "recheck", "count", "postpone", "edit", "login", "delete",
           "release"}

Holds(p) == pc[p] \in Locked
Target(p) == acct[job[p].id]

(* Mutated DoneToday: a check-in answered by "already done" is not counted.*)
DoneOnlyWhenConfirmed(i) == acct[i].date = today /\ acct[i].last = "confirmed"

(* The idempotence test of Checkin and ActiveChat.                         *)
DoneToday(i) ==
  /\ acct[i].date = today
  /\ acct[i].last \in IF acct[i].version = "cn" THEN {"confirmed", "already_done"}
                                           ELSE {"confirmed", "credited"}

KindStatus(k) ==
  CASE k = "auth" -> "needs_login" [] k = "credits" -> "credits_exhausted"
    [] OTHER -> "error"

TypeOK ==
  /\ acct \in [Accounts -> AccountRecords]
  /\ live \subseteq Accounts
  /\ lock \in [Accounts -> Procs \cup {Nobody}]
  /\ pc \in [Procs -> Locked \cup {"idle", "lock"}]
  /\ job \in [Procs -> Jobs]
  /\ batch \in [Procs -> SUBSET Accounts]
  /\ runMu \in Procs \cup {Nobody}
  /\ today \in 1..MaxDay
  /\ bal \in [Accounts -> 0..MaxBal]
  /\ served \in [Accounts -> BOOLEAN]
  /\ acked \in [Accounts -> BOOLEAN]

Init ==
  /\ acct \in [Accounts -> {NewAccount(v) : v \in Versions}]
  /\ live = Accounts
  /\ lock = [i \in Accounts |-> Nobody]
  /\ pc = [p \in Procs |-> "idle"]
  /\ job = [p \in Procs |-> NoJob]
  /\ batch = [p \in Procs |-> {}]
  /\ runMu = Nobody
  /\ today = 1
  /\ bal = [i \in Accounts |-> 0]
  /\ served = [i \in Accounts |-> FALSE]
  /\ acked = [i \in Accounts |-> FALSE]

-----------------------------------------------------------------------------
Goto(p, step) == pc' = [pc EXCEPT ![p] = step]

(* updateAccount, and the update of markError and markStatus.  Persist is  *)
(* the update with its save; Lossy is one whose error the caller ignores.  *)
Persist(p, record) == acct' = [acct EXCEPT ![job[p].id] = record]
SaveFails == "save" \in Faults /\ UNCHANGED acct
Lossy(p, record) == Persist(p, record) \/ SaveFails

MarkError(p, kind) == Lossy(p, [Target(p) EXCEPT !.status = KindStatus(kind)])

(* Where an operation goes when a refresh or a query has failed.           *)
GiveUp(p) == IF job[p].op = "recheck" THEN "postpone" ELSE "release"

(* Nothing outside the account and the goroutine changes.                  *)
Frame == UNCHANGED <<live, lock, batch, runMu, today, remote>>

-----------------------------------------------------------------------------
(* A goroutine takes up an operation.                                      *)
Launch(p, o, i, f) ==
  /\ job' = [job EXCEPT ![p] = [NoJob EXCEPT !.op = o, !.id = i, !.flag = f]]
  /\ Goto(p, "lock")

Request(p, o, i, f) ==
  /\ pc[p] = "idle" /\ p # Sched /\ batch[p] = {} /\ runMu # p
  /\ f => o \in {"active", "edit"}
  /\ Launch(p, o, i, f)
  /\ UNCHANGED <<acct, live, lock, today, sched, remote>>

(* The first step under the account lock.                                  *)
FirstStep(p) ==
  IF job[p].op \in {"edit", "delete", "login", "recheck"} THEN job[p].op ELSE "prep"

(* Mutated Acquire: UpdateAccount and DeleteAccount take no account lock.  *)
AcquireUnlessEdit(p) ==
  /\ pc[p] = "lock"
  /\ job[p].op \in {"edit", "delete"} \/ lock[job[p].id] = Nobody
  /\ lock' = IF job[p].op \in {"edit", "delete"} THEN lock
             ELSE [lock EXCEPT ![job[p].id] = p]
  /\ Goto(p, FirstStep(p))
  /\ UNCHANGED <<acct, live, job, today, sched, remote>>

(* Mutated Acquire: the recheck of the scheduler does not try the lock.    *)
AcquireUnlessRecheck(p) ==
  /\ pc[p] = "lock"
  /\ job[p].op = "recheck" \/ lock[job[p].id] = Nobody
  /\ lock' = [lock EXCEPT ![job[p].id] = p]
  /\ Goto(p, FirstStep(p))
  /\ UNCHANGED <<acct, live, job, today, sched, remote>>

(* accountLock(id).Lock(), TryLock for a recheck.                          *)
Acquire(p) ==
  /\ pc[p] = "lock"
  /\ lock[job[p].id] = Nobody
  /\ lock' = [lock EXCEPT ![job[p].id] = p]
  /\ Goto(p, FirstStep(p))
  /\ UNCHANGED <<acct, live, job, today, sched, remote>>

(* accountLock gives every goroutine that looks up an account after its    *)
(* deletion a mutex of its own.                                            *)
AcquireUnregistered(p) ==
  /\ pc[p] = "lock"
  /\ job[p].id \notin live
  /\ Goto(p, FirstStep(p))
  /\ UNCHANGED <<acct, live, lock, job, today, sched, remote>>

TryLockFails(p) ==
  /\ pc[p] = "lock" /\ job[p].op = "recheck"
  /\ lock[job[p].id] # Nobody
  /\ Goto(p, "idle")
  /\ job' = [job EXCEPT ![p] = NoJob]
  /\ UNCHANGED <<acct, live, lock, today, sched, remote>>

Release(p) ==
  /\ pc[p] = "release"
  /\ lock' = [i \in Accounts |-> IF i = job[p].id /\ lock[i] = p THEN Nobody ELSE lock[i]]
  /\ Goto(p, "idle")
  /\ job' = [job EXCEPT ![p] = NoJob]
  /\ UNCHANGED <<acct, live, today, sched, remote>>

-----------------------------------------------------------------------------
(* prepareAccount with the checks before it: the account exists, has the   *)
(* version the operation is for, and is enabled.                           *)
Admissible(p) ==
  /\ job[p].id \in live
  /\ job[p].op = "checkin" => acct[job[p].id].version = "cn"
  /\ job[p].op = "active" => acct[job[p].id].version = "intl"
  /\ Target(p).enabled

(* Mutated PrepareRejected: the early return forgets the lock.             *)
RejectedKeepsLock(p) ==
  /\ pc[p] = "prep" /\ ~Admissible(p)
  /\ Goto(p, "idle")
  /\ job' = [job EXCEPT ![p] = NoJob]
  /\ UNCHANGED acct /\ Frame

PrepareRejected(p) ==
  /\ pc[p] = "prep" /\ ~Admissible(p)
  /\ Goto(p, "release")
  /\ UNCHANGED <<acct, job>> /\ Frame

PrepareReady(p) ==
  /\ pc[p] = "prep" /\ Admissible(p)
  /\ Goto(p, "decide")
  /\ UNCHANGED <<acct, job>> /\ Frame

(* shouldRefresh: no token, or one about to expire.                        *)
PrepareStale(p) ==
  /\ pc[p] = "prep" /\ Admissible(p)
  /\ Goto(p, "refresh")
  /\ job' = [job EXCEPT ![p].back = "decide"]
  /\ UNCHANGED acct /\ Frame

(* refreshAccount: the remote call, then the update with the new tokens.   *)
RefreshOk(p) ==
  /\ pc[p] = "refresh"
  /\ Goto(p, "saveTok")
  /\ UNCHANGED <<acct, job>> /\ Frame

RefreshFails(p) ==
  /\ pc[p] = "refresh"
  /\ \E k \in Replies : MarkError(p, k)
  /\ Goto(p, GiveUp(p))
  /\ UNCHANGED job /\ Frame

SaveTokens(p) ==
  /\ pc[p] = "saveTok"
  /\ Persist(p, [Target(p) EXCEPT !.status = "ready"])
  /\ Goto(p, job[p].back)
  /\ UNCHANGED job /\ Frame

SaveTokensFails(p) ==
  /\ pc[p] = "saveTok" /\ SaveFails
  /\ Goto(p, GiveUp(p))
  /\ UNCHANGED job /\ Frame

-----------------------------------------------------------------------------
(* Checkin and ActiveChat leave a task that is done for today alone, unless*)
(* ActiveChat is forced.                                                   *)
Skips(p) ==
  /\ job[p].op \in {"checkin", "active"}
  /\ DoneToday(job[p].id)
  /\ ~job[p].flag

Skip(p) ==
  /\ pc[p] = "decide" /\ Skips(p)
  /\ Lossy(p, [Target(p) EXCEPT !.status = Target(p).last])
  /\ Goto(p, "points")
  /\ job' = [job EXCEPT ![p].after = "release"]
  /\ Frame

(* A check-in goes ahead; ActiveChat first queries the points.             *)
Proceed(p) ==
  /\ pc[p] = "decide" /\ ~Skips(p)
  /\ Goto(p, IF job[p].op = "checkin" THEN "mark" ELSE "points")
  /\ job' = [job EXCEPT ![p].after = IF job[p].op = "active" THEN "mark" ELSE "release"]
  /\ UNCHANGED acct /\ Frame

(* markStatus(id, "running"); from here the task has a token retry of its  *)
(* own, whether or not the preflight query used one.                       *)
Mark(p) ==
  /\ pc[p] = "mark"
  /\ Lossy(p, [Target(p) EXCEPT !.status = "running"])
  /\ Goto(p, "call")
  /\ job' = [job EXCEPT ![p].retried = FALSE]
  /\ Frame

(* DailyCheckin or ActiveChatWithResult returned; "already_done" is an     *)
(* error of the remote service that isAlreadyMessage takes for success.    *)
CallOk(p) ==
  /\ pc[p] = "call"
  /\ \E r \in IF job[p].op = "checkin" THEN {"confirmed", "already_done"}
                                        ELSE {"confirmed"} :
       job' = [job EXCEPT ![p].result = r]
  /\ served' = [served EXCEPT ![job[p].id] = TRUE]
  /\ acked' = [acked EXCEPT ![job[p].id] = TRUE]
  /\ Goto(p, "record")
  /\ UNCHANGED <<acct, live, lock, sched, today, bal>>

CallAuth(p) ==
  /\ pc[p] = "call" /\ "auth" \in Replies /\ ~job[p].retried
  /\ Goto(p, "refresh")
  /\ job' = [job EXCEPT ![p] = [@ EXCEPT !.retried = TRUE, !.back = "call"]]
  /\ UNCHANGED acct /\ Frame

(* Mutated CallFails: the error is returned without markError.             *)
CallFailsUnmarked(p) ==
  /\ pc[p] = "call"
  /\ \E k \in Replies :
       /\ k = "auth" => job[p].retried
       /\ served' = [served EXCEPT ![job[p].id] = @ \/ k = "lost"]
  /\ Goto(p, "release")
  /\ UNCHANGED <<acct, job, live, lock, sched, today, bal, acked>>

CallFails(p) ==
  /\ pc[p] = "call"
  /\ \E k \in Replies :
       /\ k = "auth" => job[p].retried
       /\ MarkError(p, k)
       /\ served' = [served EXCEPT ![job[p].id] = @ \/ k = "lost"]
  /\ Goto(p, "release")
  /\ UNCHANGED <<job, live, lock, sched, today, bal, acked>>

(* Mutated Outcome: a new chat inherits the attempts of the previous one.  *)
OutcomeKeepsAttempts(p) ==
  IF job[p].op = "checkin"
    THEN [Target(p) EXCEPT !.date = today, !.last = job[p].result,
                           !.status = job[p].result]
    ELSE [Target(p) EXCEPT !.date = today, !.last = job[p].result,
                           !.status = "ready", !.base = Target(p).balance,
                           !.due = "later"]

(* The update that records the outcome takes the date of that moment.      *)
Outcome(p) ==
  IF job[p].op = "checkin"
    THEN [Target(p) EXCEPT !.date = today, !.last = job[p].result,
                           !.status = job[p].result]
    ELSE [Target(p) EXCEPT !.date = today, !.last = job[p].result,
                           !.status = "ready", !.base = Target(p).balance,
                           !.due = "later", !.attempts = 0]

Record(p) ==
  /\ pc[p] = "record"
  /\ Persist(p, Outcome(p))
  /\ Goto(p, IF job[p].op = "checkin" THEN "points" ELSE "release")
  /\ UNCHANGED job /\ Frame

RecordFails(p) ==
  /\ pc[p] = "record" /\ SaveFails
  /\ Goto(p, "release")
  /\ UNCHANGED job /\ Frame

-----------------------------------------------------------------------------
(* refreshPoints: the remote query, then the update with its answer.       *)
PointsOk(p) ==
  /\ pc[p] = "points"
  /\ Goto(p, "savePoints")
  /\ job' = [job EXCEPT ![p].seen = bal[job[p].id]]
  /\ UNCHANGED acct /\ Frame

(* Points, the preflight of ActiveChat and a recheck refresh the token and *)
(* query once more; the queries after a task ignore their error.           *)
Retries(p) ==
  /\ ~job[p].retried
  /\ job[p].op \in {"points", "recheck"} \/ job[p].after = "mark"

PointsAuth(p) ==
  /\ pc[p] = "points" /\ "auth" \in Replies /\ Retries(p)
  /\ MarkError(p, "auth")
  /\ Goto(p, "refresh")
  /\ job' = [job EXCEPT ![p] = [@ EXCEPT !.retried = TRUE, !.back = "points"]]
  /\ Frame

PointsFails(p) ==
  /\ pc[p] = "points"
  /\ \E k \in Replies : (k = "auth" => ~Retries(p)) /\ MarkError(p, k)
  /\ Goto(p, GiveUp(p))
  /\ UNCHANGED job /\ Frame

(* The balance moved past the one at the time of the chat: it is credited. *)
Queried(p) ==
  LET a == [Target(p) EXCEPT
              !.balance = job[p].seen,
              !.status = IF @ \in {"running", "error"} THEN "ready" ELSE @]
  IN  IF a.due # "no" /\ job[p].seen > a.base
        THEN [a EXCEPT !.due = "no", !.attempts = 0, !.base = 0, !.last = "credited"]
        ELSE a

SavePoints(p) ==
  /\ pc[p] = "savePoints"
  /\ Persist(p, Queried(p))
  /\ Goto(p, job[p].after)
  /\ UNCHANGED job /\ Frame

SavePointsFails(p) ==
  /\ pc[p] = "savePoints" /\ SaveFails
  /\ Goto(p, GiveUp(p))
  /\ UNCHANGED job /\ Frame

-----------------------------------------------------------------------------
(* recheckAccount under the lock: nothing to do unless a recheck is still  *)
(* due.  Whether the account is still enabled is not looked at again.      *)
Recheck(p) ==
  /\ pc[p] = "recheck"
  /\ IF job[p].id \in live /\ Target(p).due = "now"
       THEN /\ Goto(p, "points")
            /\ job' = [job EXCEPT ![p].after = "count"]
       ELSE Goto(p, "release") /\ UNCHANGED job
  /\ UNCHANGED acct /\ Frame

(* Mutated Counted: the attempt is not written back.                       *)
NeverCounted(p) ==
  LET n == Target(p).attempts + 1
  IN  IF n >= MaxAttempts
        THEN [Target(p) EXCEPT !.due = "no", !.attempts = n, !.base = 0]
        ELSE [Target(p) EXCEPT !.due = "later"]

(* The query succeeded without a credit: one attempt more, the sixth is    *)
(* the last.                                                               *)
Counted(p) ==
  LET n == Target(p).attempts + 1
  IN  IF n >= MaxAttempts
        THEN [Target(p) EXCEPT !.due = "no", !.attempts = n, !.base = 0]
        ELSE [Target(p) EXCEPT !.due = "later", !.attempts = n]

Count(p) ==
  /\ pc[p] = "count"
  /\ IF Target(p).due = "no" THEN UNCHANGED acct ELSE Lossy(p, Counted(p))
  /\ Goto(p, "release")
  /\ UNCHANGED job /\ Frame

(* The query failed: another try after the delay, not counted.             *)
Postpone(p) ==
  /\ pc[p] = "postpone"
  /\ Lossy(p, [Target(p) EXCEPT !.due = "later"])
  /\ Goto(p, "release")
  /\ UNCHANGED job /\ Frame

-----------------------------------------------------------------------------
(* UpdateAccount (the alias is left out).                                  *)
Edited(p) ==
  [Target(p) EXCEPT
     !.enabled = job[p].flag,
     !.status = IF ~job[p].flag THEN "disabled"
                ELSE IF @ = "disabled" THEN "ready" ELSE @]

Edit(p) ==
  /\ pc[p] = "edit"
  /\ IF job[p].id \in live THEN Lossy(p, Edited(p)) ELSE UNCHANGED acct
  /\ Goto(p, "release")
  /\ UNCHANGED job /\ Frame

(* commitLoginResult for an account that exists.                           *)
Login(p) ==
  /\ pc[p] = "login"
  /\ IF job[p].id \in live
       THEN Lossy(p, [Target(p) EXCEPT !.enabled = TRUE, !.status = "ready"])
       ELSE UNCHANGED acct
  /\ Goto(p, "release")
  /\ UNCHANGED job /\ Frame

Delete(p) ==
  /\ pc[p] = "delete"
  /\ \/ live' = live \ {job[p].id}
     \/ SaveFails /\ UNCHANGED live
  /\ Goto(p, "release")
  /\ UNCHANGED <<acct, job, lock, sched, today, remote>>

-----------------------------------------------------------------------------
(* RunAll: one batch at a time (runMu), over the accounts of a version     *)
(* enabled when it starts, in any order.                                   *)
StartRunAll(p, v) ==
  /\ pc[p] = "idle" /\ batch[p] = {}
  /\ runMu = Nobody
  /\ runMu' = p
  /\ batch' = [batch EXCEPT ![p] = {i \in live : acct[i].enabled /\ acct[i].version = v}]
  /\ UNCHANGED <<acct, live, lock, pc, job, today, remote>>

EndRunAll(p) ==
  /\ pc[p] = "idle" /\ batch[p] = {}
  /\ runMu = p
  /\ runMu' = Nobody
  /\ UNCHANGED <<acct, live, lock, pc, job, batch, today, remote>>

(* RefreshAllPoints, which takes no batch lock.                            *)
StartRefreshAll(p, v) ==
  /\ pc[p] = "idle" /\ batch[p] = {} /\ runMu # p
  /\ p # Sched
  /\ "points" \in ManualOps
  /\ batch' = [batch EXCEPT ![p] = {i \in live : acct[i].enabled /\ acct[i].version = v}]
  /\ UNCHANGED <<acct, live, lock, pc, job, runMu, today, remote>>

(* runPendingRechecks collects the accounts whose recheck is due.          *)
StartRechecks(p) ==
  /\ pc[p] = "idle" /\ batch[p] = {} /\ runMu # p
  /\ p = Sched
  /\ batch' = [batch EXCEPT ![p] = {i \in live : acct[i].enabled /\ acct[i].due = "now"}]
  /\ batch'[p] # {}
  /\ UNCHANGED <<acct, live, lock, pc, job, runMu, today, remote>>

BatchOp(p, i) ==
  IF runMu = p THEN (IF acct[i].version = "cn" THEN "checkin" ELSE "active")
  ELSE IF p = Sched THEN "recheck" ELSE "points"

NextInBatch(p) ==
  /\ pc[p] = "idle"
  /\ \E i \in batch[p] :
       /\ batch' = [batch EXCEPT ![p] = @ \ {i}]
       /\ Launch(p, BatchOp(p, i), i, FALSE)
  /\ UNCHANGED <<acct, live, lock, runMu, today, remote>>

-----------------------------------------------------------------------------
(* The environment: midnight in China, a recheck delay that has passed,    *)
(* points credited and spent at the remote service, the end of the process.*)
Midnight ==
  /\ today < MaxDay
  /\ today' = today + 1
  /\ served' = [i \in Accounts |-> FALSE]
  /\ acked' = [i \in Accounts |-> FALSE]
  /\ UNCHANGED <<acct, live, lock, pc, job, sched, bal>>

Ripen(i) ==
  /\ i \in live /\ acct[i].due = "later"
  /\ acct' = [acct EXCEPT ![i].due = "now"]
  /\ UNCHANGED <<live, lock, pc, job, sched, today, remote>>

Balance(i) ==
  /\ bal' \in {[bal EXCEPT ![i] = b] : b \in 0..MaxBal} \ {bal}
  /\ UNCHANGED <<acct, live, lock, pc, job, sched, today, served, acked>>

(* Killed and started again: New loads what was saved and resets nothing   *)
(* else of an account.                                                     *)
Restart ==
  /\ "crash" \in Faults
  /\ lock' = [i \in Accounts |-> Nobody]
  /\ pc' = [p \in Procs |-> "idle"]
  /\ job' = [p \in Procs |-> NoJob]
  /\ batch' = [p \in Procs |-> {}]
  /\ runMu' = Nobody
  /\ UNCHANGED <<acct, live, today, remote>>

-----------------------------------------------------------------------------
(* The steps of an operation under the account lock.                       *)
Inside(p) ==
  \/ PrepareRejected(p) \/ PrepareReady(p) \/ PrepareStale(p)
  \/ RefreshOk(p) \/ RefreshFails(p) \/ SaveTokens(p) \/ SaveTokensFails(p)
  \/ Skip(p) \/ Proceed(p) \/ Mark(p)
  \/ CallOk(p) \/ CallAuth(p) \/ CallFails(p) \/ Record(p) \/ RecordFails(p)
  \/ PointsOk(p) \/ PointsAuth(p) \/ PointsFails(p)
  \/ SavePoints(p) \/ SavePointsFails(p)
  \/ Recheck(p) \/ Count(p) \/ Postpone(p)
  \/ Edit(p) \/ Login(p) \/ Delete(p)

Continue(p) == Inside(p) \/ Release(p) \/ TryLockFails(p) \/ NextInBatch(p) \/ EndRunAll(p)

Environment ==
  \/ Midnight \/ Restart
  \/ \E i \in Accounts : Ripen(i) \/ Balance(i)

Next ==
  \/ Environment
  \/ \E p \in Procs :
       \/ \E o \in ManualOps, i \in Accounts, f \in BOOLEAN : Request(p, o, i, f)
       \/ Acquire(p) \/ AcquireUnregistered(p) \/ Continue(p)
       \/ \E v \in Versions : StartRunAll(p, v) \/ StartRefreshAll(p, v)
       \/ StartRechecks(p)

Spec == Init /\ [][Next]_vars

(* A goroutine that can take its next step takes it; a mutex that is free  *)
(* again and again is acquired in the end (Go's mutexes do not starve a    *)
(* waiter); every tick of the scheduler ends with the pending rechecks, and*)
(* the delay of a recheck passes.                                          *)
Fairness ==
  /\ \A p \in Procs : WF_vars(Continue(p)) /\ SF_vars(Acquire(p))
  /\ SF_vars(StartRechecks(Sched))
  /\ \A i \in Accounts : WF_vars(Ripen(i))

FairSpec == Spec /\ Fairness

-----------------------------------------------------------------------------
(* Two goroutines never work on one account at the same time, whatever     *)
(* fails and whichever entry point (request, batch, recheck) they came by. *)
MutualExclusion ==
  \A p, q \in Procs :
    p # q /\ Holds(p) /\ Holds(q) /\ job[p].id \in live => job[p].id # job[q].id

(* No remote call and no update concerns an account that was deleted or    *)
(* disabled after the operation began; only a recheck that was collected   *)
(* before the account was disabled still queries it.                       *)
WorksOnLiveEnabled ==
  \A p \in Procs :
    pc[p] \in {"refresh", "saveTok", "decide", "mark", "call", "record", "points",
              "savePoints"} =>
      job[p].id \in live /\ (job[p].op # "recheck" => Target(p).enabled)

(* Once the remote service has confirmed today's task, no goroutine is     *)
(* about to send it again that day unless the user forces it ("no repeated *)
(* request on one Beijing date").  It takes that no save fails and that the*)
(* process is not killed between the answer and its record.                *)
NoRepeat ==
  \A p \in Procs : pc[p] = "call" /\ ~job[p].flag => ~acked[job[p].id]

(* An account nobody works on does not show "running".                     *)
NoStuckRunning ==
  \A i \in live : lock[i] = Nobody => acct[i].status # "running"

(* A recheck is pending only for an international account whose last chat  *)
(* is unsettled and has attempts left: a credit, the last attempt or a new *)
(* chat each leave the fields of the recheck consistent.                   *)
RecheckSane ==
  \A i \in live :
    acct[i].due # "no" =>
      /\ acct[i].version = "intl"
      /\ acct[i].last = "confirmed"
      /\ acct[i].date > 0
      /\ acct[i].attempts < MaxAttempts

(* Every operation that was started returns: no path leaves a lock held.   *)
OperationEnds == \A p \in Procs : (pc[p] = "lock") ~> (pc[p] = "idle")

(* A pending recheck is settled, by a credit or by giving up after the     *)
(* sixth attempt, unless the account shows why it cannot be queried or     *)
(* another goroutine takes the account up (a recheck only tries the lock): *)
(* no recheck polls forever behind an account that looks healthy.          *)
RecheckSettles ==
  \A i \in Accounts :
    (acct[i].due # "no") ~>
      \/ acct[i].due = "no"
      \/ ~acct[i].enabled \/ i \notin live
      \/ acct[i].status \in {"needs_login", "credits_exhausted", "error"}
      \/ lock[i] \notin {Nobody, Sched}

(* A task is skipped as done only on a day on which it was sent.           *)
SkipsOnlyWhatWasSent == [][\A p \in Procs : Skip(p) => served[job[p].id]]_vars
=============================================================================
