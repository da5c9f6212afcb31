--------------------------- MODULE LoginSessions ----------------------------
(***************************************************************************)
(* internal/service: logging in.  StartLogin opens an authorization session*)
(* at the remote service and keeps it, PollLogin asks whether the user has *)
(* authorized it and commits the result as a new account or as new tokens  *)
(* of an account that exists, while other goroutines delete accounts or    *)
(* work on them under their locks.  One action is one critical section of  *)
(* loginMu or Service.mu, one lock taken, or one remote call.              *)
(***************************************************************************)
EXTENDS Integers, FiniteSets

CONSTANTS Procs,       \* goroutines of the HTTP handlers
          Nobody,      \* no goroutine, no account, no user
          Sessions,    \* names for sessions (random in the code)
          IDs,         \* names for accounts (random in the code)
          Users,       \* what identifies an account: UID and version
          MaxSessions, \* maxLoginSessions
          MaxAccounts  \* the limit of commitLoginResult

ASSUME NobodyAssumption == Nobody \notin Procs \cup Sessions \cup IDs \cup Users
ASSUME CapsAssumption   == MaxSessions \in Nat /\ MaxAccounts \in Nat
ASSUME NamesAssumption  == IsFiniteSet(Sessions) /\ IsFiniteSet(IDs) /\ IsFiniteSet(Procs)
(* randomID always draws a name that is not in use.                        *)
ASSUME FreshAssumption  == /\ Cardinality(Sessions) >= MaxSessions
                           /\ Cardinality(IDs) >= MaxAccounts + Cardinality(Procs)

VARIABLES logins,   \* Service.logins: the sessions that are kept
          expired,  \* sessions older than loginSessionTTL (loginAt)
          busy,     \* Service.loginBusy
          starting, \* Service.loginStarting
          granted,  \* the user that authorized each session, remotely
          owner,    \* the user of each account in Service.state.Accounts
          commitMu, \* the goroutine that holds loginCommitMu
          lock,     \* Service.accounts: the goroutine that holds each lock
          pc,       \* the next step of each goroutine
          session,  \* PollLogin's id
          target,   \* the account the goroutine looks at
          consume,  \* PollLogin's consumeSession
          outdated, \* history: goroutines whose copy of the tokens is old
          done      \* history: the sessions that were committed

sessions == <<logins, expired, busy, starting, granted>>
locks    == <<commitMu, lock>>
local    == <<session, target, consume>>
history  == <<outdated, done>>
vars == <<sessions, owner, locks, pc, local, history>>

Starting   == {"start", "register"}
Committing == {"commit", "find", "await", "update", "append", "unlock"}
Polling    == {"poll", "finish"} \cup Committing
Working    == {"lock", "work", "delete", "release"}

Live == {i \in IDs : owner[i] # Nobody}
Mine(p) == granted[session[p]]

(* The name that randomID draws is one that no goroutine refers to.        *)
FreshID == CHOOSE i \in IDs \ Live : \A p \in Procs : target[p] # i

TypeOK ==
  /\ logins \subseteq Sessions /\ expired \subseteq Sessions
  /\ busy \subseteq Sessions /\ done \subseteq Sessions
  /\ starting \in Nat
  /\ granted \in [Sessions -> Users \cup {Nobody}]
  /\ owner \in [IDs -> Users \cup {Nobody}]
  /\ commitMu \in Procs \cup {Nobody}
  /\ lock \in [IDs -> Procs \cup {Nobody}]
  /\ pc \in [Procs -> {"idle"} \cup Starting \cup Polling \cup Working]
  /\ session \in [Procs -> Sessions \cup {Nobody}]
  /\ target \in [Procs -> IDs \cup {Nobody}]
  /\ consume \in [Procs -> BOOLEAN]
  /\ outdated \subseteq Procs

Init ==
  /\ logins = {} /\ expired = {} /\ busy = {} /\ done = {}
  /\ starting = 0
  /\ granted = [s \in Sessions |-> Nobody]
  /\ owner = [i \in IDs |-> Nobody]
  /\ commitMu = Nobody
  /\ lock = [i \in IDs |-> Nobody]
  /\ pc = [p \in Procs |-> "idle"]
  /\ session = [p \in Procs |-> Nobody]
  /\ target = [p \in Procs |-> Nobody]
  /\ consume = [p \in Procs |-> FALSE]
  /\ outdated = {}

Goto(p, step) == pc' = [pc EXCEPT ![p] = step]

-----------------------------------------------------------------------------
(* Mutated Kept: an expired session is dropped while it is being polled.   *)
KeptUnlessExpired == logins \ expired

(* The sessions that cleanupLoginSessionsLocked leaves.                    *)
Kept == {s \in logins : s \in expired => s \in busy}

FreshSession == CHOOSE s \in Sessions \ Kept : \A p \in Procs : session[p] # s

(* logins, loginAt and the session itself go together.                     *)
Keep(kept) ==
  /\ logins' = kept
  /\ expired' = expired \cap kept
  /\ granted' = [s \in Sessions |-> IF s \in kept THEN granted[s] ELSE Nobody]

Cleanup == Keep(Kept)

(* Mutated Reserve: the starts under way are not counted.                  *)
ReserveUncounted(p) ==
  /\ pc[p] = "idle"
  /\ Cleanup
  /\ Cardinality(Kept) < MaxSessions
  /\ starting' = starting + 1
  /\ Goto(p, "start")
  /\ UNCHANGED <<busy, owner, locks, local, history>>

(* reserveLoginStart                                                       *)
Reserve(p) ==
  /\ pc[p] = "idle"
  /\ Cleanup
  /\ Cardinality(Kept) + starting < MaxSessions
  /\ starting' = starting + 1
  /\ Goto(p, "start")
  /\ UNCHANGED <<busy, owner, locks, local, history>>

(* The remote service opened the session, or could not be asked.           *)
StartOk(p) ==
  /\ pc[p] = "start"
  /\ Goto(p, "register")
  /\ UNCHANGED <<sessions, owner, locks, local, history>>

(* Mutated StartFails: the reservation is not given back.                  *)
StartFailsReserved(p) ==
  /\ pc[p] = "start"
  /\ Goto(p, "idle")
  /\ UNCHANGED <<sessions, owner, locks, local, history>>

StartFails(p) ==
  /\ pc[p] = "start"
  /\ starting' = starting - 1
  /\ Goto(p, "idle")
  /\ UNCHANGED <<logins, expired, busy, granted, owner, locks, local, history>>

(* The reservation becomes a session, unless the limit is reached.         *)
Register(p) ==
  /\ pc[p] = "register"
  /\ starting' = starting - 1
  /\ LET room == Cardinality(Kept) < MaxSessions
     IN  /\ Keep(IF room THEN Kept \cup {FreshSession} ELSE Kept)
         /\ done' = IF room THEN done \ {FreshSession} ELSE done
  /\ Goto(p, "idle")
  /\ UNCHANGED <<busy, owner, locks, local, outdated>>

-----------------------------------------------------------------------------
(* Mutated Claim: a session that is being polled is polled again.          *)
ClaimBusy(p, s) ==
  /\ pc[p] = "idle"
  /\ Cleanup
  /\ s \in Kept
  /\ busy' = busy \cup {s}
  /\ session' = [session EXCEPT ![p] = s]
  /\ Goto(p, "poll")
  /\ UNCHANGED <<starting, owner, locks, target, consume, history>>

(* PollLogin claims the session.                                           *)
Claim(p, s) ==
  /\ pc[p] = "idle"
  /\ Cleanup
  /\ s \in Kept \ busy
  /\ busy' = busy \cup {s}
  /\ session' = [session EXCEPT ![p] = s]
  /\ Goto(p, "poll")
  /\ UNCHANGED <<starting, owner, locks, target, consume, history>>

(* A start refused at the limit and a poll of a session that is busy or    *)
(* gone only clean up.                                                     *)
Refused(p) ==
  /\ pc[p] = "idle"
  /\ Cleanup /\ Kept # logins
  /\ UNCHANGED <<busy, starting, owner, locks, pc, local, history>>

(* Not authorized yet, or a failing request.                               *)
PollFails(p) ==
  /\ pc[p] = "poll"
  /\ Goto(p, "finish")
  /\ UNCHANGED <<sessions, owner, locks, local, history>>

PollOk(p) ==
  /\ pc[p] = "poll"
  /\ Mine(p) # Nobody
  /\ Goto(p, "commit")
  /\ UNCHANGED <<sessions, owner, locks, local, history>>

(* The deferred function of PollLogin.                                     *)
Finish(p) ==
  /\ pc[p] = "finish"
  /\ busy' = busy \ {session[p]}
  /\ Keep(IF consume[p] THEN logins \ {session[p]} ELSE logins)
  /\ session' = [session EXCEPT ![p] = Nobody]
  /\ consume' = [consume EXCEPT ![p] = FALSE]
  /\ Goto(p, "idle")
  /\ UNCHANGED <<starting, owner, locks, target, history>>

-----------------------------------------------------------------------------
(* commitLoginResult                                                       *)
(* Mutated EnterCommit: commits are not serialised.                        *)
EnterCommitUnserialised(p) ==
  /\ pc[p] = "commit"
  /\ Goto(p, "find")
  /\ UNCHANGED <<sessions, owner, locks, local, history>>

EnterCommit(p) ==
  /\ pc[p] = "commit"
  /\ commitMu = Nobody
  /\ commitMu' = p
  /\ Goto(p, "find")
  /\ UNCHANGED <<sessions, owner, lock, local, history>>

(* Mutated Same: an account somebody works on is passed over.              *)
SameUnlocked(u) == {i \in Live : owner[i] = u /\ lock[i] = Nobody}

(* The accounts of a user: equal UID and equal version.                    *)
Same(u) == {i \in Live : owner[i] = u}

Find(p) ==
  /\ pc[p] = "find"
  /\ IF Same(Mine(p)) # {}
       THEN /\ \E i \in Same(Mine(p)) : target' = [target EXCEPT ![p] = i]
            /\ Goto(p, "await")
       ELSE /\ target' = [target EXCEPT ![p] = FreshID]
            /\ Goto(p, "append")
  /\ UNCHANGED <<sessions, owner, locks, session, consume, history>>

(* Mutated Await: the update of an account does not wait for its lock.     *)
AwaitNothing(p) ==
  /\ pc[p] = "await"
  /\ Goto(p, "update")
  /\ UNCHANGED <<sessions, owner, locks, local, history>>

(* An account that is gone has a mutex of the caller's own.                *)
Await(p) ==
  /\ pc[p] = "await"
  /\ \/ /\ lock[target[p]] = Nobody
        /\ lock' = [lock EXCEPT ![target[p]] = p]
     \/ target[p] \notin Live /\ UNCHANGED lock
  /\ Goto(p, "update")
  /\ UNCHANGED <<sessions, owner, commitMu, local, history>>

Unlocked(p) ==
  [i \in IDs |-> IF i = target[p] /\ lock[i] = p THEN Nobody ELSE lock[i]]

(* Copies of the tokens of account i that other goroutines hold.           *)
Readers(p, i) == {q \in Procs \ {p} : pc[q] = "work" /\ target[q] = i}

(* The account has got new tokens; when the save failed it has not.        *)
UpdateOk(p) ==
  /\ pc[p] = "update" /\ target[p] \in Same(Mine(p))
  /\ outdated' = outdated \cup Readers(p, target[p])
  /\ consume' = [consume EXCEPT ![p] = TRUE]
  /\ done' = done \cup {session[p]}
  /\ lock' = Unlocked(p)
  /\ Goto(p, "unlock")
  /\ UNCHANGED <<sessions, owner, commitMu, session, target>>

UpdateFails(p) ==
  /\ pc[p] = "update" /\ target[p] \in Same(Mine(p))
  /\ lock' = Unlocked(p)
  /\ Goto(p, "unlock")
  /\ UNCHANGED <<sessions, owner, commitMu, local, history>>

(* Deleted meanwhile: once more from the start.                            *)
UpdateGone(p) ==
  /\ pc[p] = "update" /\ target[p] \notin Same(Mine(p))
  /\ lock' = Unlocked(p)
  /\ target' = [target EXCEPT ![p] = Nobody]
  /\ Goto(p, "find")
  /\ UNCHANGED <<sessions, owner, commitMu, session, consume, history>>

AppendOk(p) ==
  /\ pc[p] = "append" /\ Same(Mine(p)) = {}
  /\ Cardinality(Live) < MaxAccounts
  /\ owner' = [owner EXCEPT ![target[p]] = Mine(p)]
  /\ consume' = [consume EXCEPT ![p] = TRUE]
  /\ done' = done \cup {session[p]}
  /\ Goto(p, "unlock")
  /\ UNCHANGED <<sessions, locks, session, target, outdated>>

(* The limit is reached or the save failed; an account of the same user    *)
(* that is there by now sends the commit back to the search.               *)
AppendFails(p) ==
  /\ pc[p] = "append"
  /\ target' = [target EXCEPT ![p] = Nobody]
  /\ Goto(p, IF Same(Mine(p)) = {} THEN "unlock" ELSE "find")
  /\ UNCHANGED <<sessions, owner, locks, session, consume, history>>

LeaveCommit(p) ==
  /\ pc[p] = "unlock"
  /\ commitMu' = Nobody
  /\ target' = [target EXCEPT ![p] = Nobody]
  /\ Goto(p, "finish")
  /\ UNCHANGED <<sessions, owner, lock, session, consume, history>>

-----------------------------------------------------------------------------
(* The other operations on an account: DeleteAccount, and one that copies  *)
(* the account, calls the remote service and writes new tokens back        *)
(* (AccountTasks has these in full).                                       *)
Begin(p, i) ==
  /\ pc[p] = "idle" /\ i \in Live
  /\ target' = [target EXCEPT ![p] = i]
  /\ Goto(p, "lock")
  /\ UNCHANGED <<sessions, owner, locks, session, consume, history>>

Lock(p) ==
  /\ pc[p] = "lock"
  /\ \/ /\ lock[target[p]] = Nobody
        /\ lock' = [lock EXCEPT ![target[p]] = p]
     \/ target[p] \notin Live /\ UNCHANGED lock
  /\ \E step \in IF target[p] \in Live THEN {"work", "delete"} ELSE {"release"} :
       Goto(p, step)
  /\ UNCHANGED <<sessions, owner, commitMu, local, history>>

WriteTokens(p) ==
  /\ pc[p] = "work"
  /\ outdated' = outdated \cup Readers(p, target[p])
  /\ Goto(p, "release")
  /\ UNCHANGED <<sessions, owner, locks, local, done>>

WriteNothing(p) ==
  /\ pc[p] \in {"work", "delete"}
  /\ Goto(p, "release")
  /\ UNCHANGED <<sessions, owner, locks, local, history>>

Delete(p) ==
  /\ pc[p] = "delete"
  /\ owner' = [owner EXCEPT ![target[p]] = Nobody]
  /\ Goto(p, "release")
  /\ UNCHANGED <<sessions, locks, local, history>>

Release(p) ==
  /\ pc[p] = "release"
  /\ lock' = Unlocked(p)
  /\ target' = [target EXCEPT ![p] = Nobody]
  /\ outdated' = outdated \ {p}
  /\ Goto(p, "idle")
  /\ UNCHANGED <<sessions, owner, commitMu, session, consume, done>>

-----------------------------------------------------------------------------
(* A user authorizes a session in the browser; fifteen minutes pass.       *)
Authorize(s, u) ==
  /\ s \in logins /\ granted[s] = Nobody
  /\ granted' = [granted EXCEPT ![s] = u]
  /\ UNCHANGED <<logins, expired, busy, starting, owner, locks, pc, local, history>>

Expire(s) ==
  /\ s \in logins \ expired
  /\ expired' = expired \cup {s}
  /\ UNCHANGED <<logins, busy, starting, granted, owner, locks, pc, local, history>>

Continue(p) ==
  \/ StartOk(p) \/ StartFails(p) \/ Register(p)
  \/ PollFails(p) \/ PollOk(p) \/ Finish(p)
  \/ Find(p) \/ UpdateOk(p) \/ UpdateFails(p) \/ UpdateGone(p)
  \/ AppendOk(p) \/ AppendFails(p) \/ LeaveCommit(p)
  \/ WriteTokens(p) \/ WriteNothing(p) \/ Delete(p) \/ Release(p)

Acquire(p) == EnterCommit(p) \/ Await(p) \/ Lock(p)

Next ==
  \/ \E p \in Procs :
       \/ Reserve(p) \/ Refused(p) \/ Continue(p) \/ Acquire(p)
       \/ \E s \in Sessions : Claim(p, s)
       \/ \E i \in IDs : Begin(p, i)
  \/ \E s \in Sessions : Expire(s) \/ \E u \in Users : Authorize(s, u)

Spec == Init /\ [][Next]_vars

(* Remote calls return (the HTTP clients have timeouts), goroutines run on,*)
(* and a mutex that is free again and again is acquired in the end.        *)
FairSpec ==
  Spec /\ \A p \in Procs : WF_vars(Continue(p)) /\ SF_vars(Acquire(p))

-----------------------------------------------------------------------------
(* The sessions kept and those being opened never exceed the limit, so an  *)
(* authorization that was opened remotely is never refused afterwards.     *)
SessionCap == Cardinality(logins) + starting <= MaxSessions

(* Every reservation is given back: the counter is exactly the number of   *)
(* goroutines between the reservation and the registration.                *)
SlotsReturned == starting = Cardinality({p \in Procs : pc[p] \in Starting})

(* Both: reservations are neither lost, which would shut logins out until  *)
(* the next restart, nor given back twice, which would break the limit.    *)
SessionSlots == SessionCap /\ SlotsReturned

(* A session stays while it is polled, so that a failed commit can be      *)
(* tried again, and it is busy only while somebody polls it.               *)
PolledSessionStays ==
  /\ busy \subseteq logins
  /\ busy = {session[p] : p \in {q \in Procs : pc[q] \in Polling}}

(* A session is committed at most once, whatever polls overlap.            *)
CommitsOnce == \A p \in Procs : pc[p] \in Committing /\ session[p] \in done => consume[p]

(* Two accounts never belong to the same user, although sessions of one    *)
(* user commit at the same time as accounts are deleted or worked on.      *)
OneAccountPerUser == \A i, j \in Live : owner[i] = owner[j] => i = j

(* The account limit holds under concurrent commits.                       *)
AccountCap == Cardinality(Live) <= MaxAccounts

(* An operation that copied an account before a login does not write its   *)
(* old tokens over those of the login.                                     *)
NoStaleWrite == \A p \in outdated : pc[p] # "work"

(* Every poll returns: the commit loop does not run for ever and the locks *)
(* it takes cannot wait for each other.                                    *)
PollEnds == \A p \in Procs : pc[p] = "poll" ~> pc[p] = "idle"
=============================================================================
