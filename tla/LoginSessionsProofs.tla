------------------------ MODULE LoginSessionsProofs -------------------------
(***************************************************************************)
(* Theorems about LoginSessions for any number of goroutines, sessions,    *)
(* accounts and users.                                                     *)
(***************************************************************************)
EXTENDS LoginSessions, FiniteSetTheorems, TLAPS

USE DEF sessions, locks, local, history

LEMMA AddOne ==
  ASSUME NEW S, NEW x, IsFiniteSet(S)
  PROVE  /\ IsFiniteSet(S \cup {x})
         /\ Cardinality(S \cup {x}) \in Nat
         /\ Cardinality(S \cup {x}) <= Cardinality(S) + 1
<1>1. IsFiniteSet(S \cup {x}) /\ Cardinality(S) \in Nat
  BY FS_AddElement, FS_CardinalityType
<1>2. Cardinality(S \cup {x}) = IF x \in S THEN Cardinality(S) ELSE Cardinality(S) + 1
  BY FS_AddElement
<1> QED BY <1>1, <1>2

(* Sessions are counted: what is kept is finite.                           *)
Counted == IsFiniteSet(logins) /\ starting \in Int

CapInv == Counted /\ SessionCap

LEMMA CapInit == Init => CapInv
  BY FS_EmptySet, CapsAssumption DEF Init, CapInv, Counted, SessionCap

(* Fewer sessions, and no more reservations.                               *)
LEMMA CapShrinks ==
  ASSUME CapInv, logins' \subseteq logins, starting' \in Int, starting' <= starting
  PROVE  CapInv'
<1>1. IsFiniteSet(logins') /\ Cardinality(logins') <= Cardinality(logins)
  BY FS_Subset DEF CapInv, Counted
<1>2. Cardinality(logins') \in Nat /\ Cardinality(logins) \in Nat
  BY <1>1, FS_CardinalityType DEF CapInv, Counted
<1> QED BY <1>1, <1>2, CapsAssumption DEF CapInv, Counted, SessionCap

LEMMA CapStep == CapInv /\ [Next]_vars => CapInv'
<1> SUFFICES ASSUME CapInv, [Next]_vars PROVE CapInv'
  OBVIOUS
<1>a. starting \in Int /\ IsFiniteSet(logins) /\ Kept \subseteq logins
  BY DEF CapInv, Counted, Kept
<1>b. IsFiniteSet(Kept) /\ Cardinality(Kept) \in Nat
  BY <1>a, FS_Subset, FS_CardinalityType
<1>1. ASSUME NEW p \in Procs, Reserve(p) PROVE CapInv'
  BY <1>1, <1>a, <1>b, CapsAssumption
  DEF Reserve, Cleanup, Keep, CapInv, Counted, SessionCap
<1>2. ASSUME NEW p \in Procs, Register(p) PROVE CapInv'
  <2>1. CASE Cardinality(Kept) < MaxSessions
    <3>1. logins' = Kept \cup {FreshSession} /\ starting' = starting - 1
      BY <1>2, <2>1 DEF Register, Keep
    <3>2. IsFiniteSet(logins') /\ Cardinality(logins') <= Cardinality(Kept) + 1
      BY <3>1, <1>b, AddOne
    <3>3. Cardinality(Kept) <= Cardinality(logins) /\ Cardinality(logins) \in Nat
      BY <1>a, FS_Subset, FS_CardinalityType
    <3>4. Cardinality(logins') \in Nat
      BY <3>2, FS_CardinalityType
    <3> QED BY <1>a, <1>b, <3>1, <3>2, <3>3, <3>4, CapsAssumption DEF CapInv, Counted, SessionCap
  <2>2. CASE ~(Cardinality(Kept) < MaxSessions)
    <3>1. logins' = Kept /\ starting' = starting - 1
      BY <1>2, <2>2 DEF Register, Keep
    <3> QED BY <1>a, <3>1, CapShrinks
  <2> QED BY <2>1, <2>2
<1>3. ASSUME NEW p \in Procs, StartFails(p) PROVE CapInv'
  <2>1. logins' = logins /\ starting' = starting - 1
    BY <1>3 DEF StartFails
  <2> QED BY <1>a, <2>1, CapShrinks
<1>4. ASSUME NEW p \in Procs, Refused(p) \/ Finish(p) \/ (\E s \in Sessions : Claim(p, s))
      PROVE CapInv'
  <2>1. logins' \subseteq logins /\ starting' = starting
    BY <1>4, <1>a DEF Refused, Finish, Claim, Cleanup, Keep
  <2> QED BY <1>a, <2>1, CapShrinks
<1>5. ASSUME UNCHANGED <<logins, starting>> PROVE CapInv'
  BY <1>5, <1>a, CapShrinks
<1>6. ASSUME NEW p \in Procs,
             StartOk(p) \/ PollFails(p) \/ PollOk(p) \/ Find(p) \/ UpdateOk(p) \/ UpdateFails(p)
             \/ UpdateGone(p) \/ AppendOk(p) \/ AppendFails(p) \/ LeaveCommit(p)
             \/ WriteTokens(p) \/ WriteNothing(p) \/ Delete(p) \/ Release(p)
             \/ Acquire(p) \/ (\E i \in IDs : Begin(p, i))
      PROVE  UNCHANGED <<logins, starting>>
  BY <1>6 DEF StartOk, PollFails, PollOk, Find, UpdateOk, UpdateFails, UpdateGone, AppendOk,
              AppendFails, LeaveCommit, WriteTokens, WriteNothing, Delete, Release, Acquire,
              EnterCommit, Await, Lock, Begin
<1>7. ASSUME NEW s \in Sessions, Expire(s) \/ (\E u \in Users : Authorize(s, u))
      PROVE  UNCHANGED <<logins, starting>>
  BY <1>7 DEF Expire, Authorize
<1>8. ASSUME UNCHANGED vars PROVE UNCHANGED <<logins, starting>>
  BY <1>8 DEF vars
<1> QED BY <1>1, <1>2, <1>3, <1>4, <1>5, <1>6, <1>7, <1>8 DEF Next, Continue

(* reserveLoginStart: the sessions kept and those being opened never       *)
(* exceed the limit, however many goroutines open sessions at once.        *)
THEOREM SessionsCapped == Spec => []SessionCap
<1>1. CapInv => SessionCap
  BY DEF CapInv
<1> HIDE DEF CapInv
<1> QED BY <1>1, CapInit, CapStep, PTL DEF Spec

-----------------------------------------------------------------------------
(* The goroutines that hold a reservation.                                 *)
Reserved == {p \in Procs : pc[p] \in Starting}

SlotInv == DOMAIN pc = Procs /\ starting = Cardinality(Reserved)

LEMMA ReservedFinite == IsFiniteSet(Reserved) /\ Cardinality(Reserved) \in Nat
  BY NamesAssumption, FS_Subset, FS_CardinalityType DEF Reserved

LEMMA SlotInit == Init => SlotInv
<1> SUFFICES ASSUME Init PROVE SlotInv
  OBVIOUS
<1>1. DOMAIN pc = Procs /\ Reserved = {}
  BY DEF Init, Reserved, Starting
<1> QED BY <1>1, FS_EmptySet DEF Init, SlotInv

(* A step of a goroutine that neither takes nor gives a reservation.       *)
LEMMA SlotsSame ==
  ASSUME NEW p \in Procs, NEW step, SlotInv, Goto(p, step), starting' = starting,
         pc[p] \in Starting <=> step \in Starting
  PROVE  SlotInv'
<1>1. DOMAIN pc' = Procs /\ Reserved' = Reserved
  BY DEF SlotInv, Goto, Reserved
<1> QED BY <1>1 DEF SlotInv

LEMMA SlotGiven ==
  ASSUME NEW p \in Procs, NEW step, SlotInv, Goto(p, step), starting' = starting - 1,
         pc[p] \in Starting, step \notin Starting
  PROVE  SlotInv'
<1>1. DOMAIN pc' = Procs /\ Reserved' = Reserved \ {p} /\ p \in Reserved
  BY DEF SlotInv, Goto, Reserved
<1>2. Cardinality(Reserved \ {p}) = Cardinality(Reserved) - 1
  BY <1>1, ReservedFinite, FS_RemoveElement
<1> QED BY <1>1, <1>2 DEF SlotInv

LEMMA SlotTaken ==
  ASSUME NEW p \in Procs, SlotInv, Reserve(p)
  PROVE  SlotInv'
<1>1. DOMAIN pc' = Procs /\ Reserved' = Reserved \cup {p} /\ p \notin Reserved
  BY DEF SlotInv, Reserve, Goto, Reserved, Starting
<1>2. Cardinality(Reserved \cup {p}) = Cardinality(Reserved) + 1
  BY <1>1, ReservedFinite, FS_AddElement
<1> QED BY <1>1, <1>2 DEF SlotInv, Reserve

LEMMA SlotStep == SlotInv /\ [Next]_vars => SlotInv'
<1> SUFFICES ASSUME SlotInv, [Next]_vars PROVE SlotInv'
  OBVIOUS
<1>1. ASSUME NEW p \in Procs, Reserve(p) PROVE SlotInv'
  BY <1>1, SlotTaken
<1>2. ASSUME NEW p \in Procs, Register(p) \/ StartFails(p) PROVE SlotInv'
  <2>1. Goto(p, "idle") /\ starting' = starting - 1
        /\ pc[p] \in Starting /\ "idle" \notin Starting
    BY <1>2 DEF Register, StartFails, Starting
  <2> QED BY <2>1, SlotGiven
<1>3. ASSUME NEW p \in Procs,
             StartOk(p) \/ PollFails(p) \/ PollOk(p) \/ Finish(p) \/ Find(p) \/ UpdateOk(p)
             \/ UpdateFails(p) \/ UpdateGone(p) \/ AppendOk(p) \/ AppendFails(p) \/ LeaveCommit(p)
             \/ WriteTokens(p) \/ WriteNothing(p) \/ Delete(p) \/ Release(p)
             \/ Acquire(p) \/ (\E i \in IDs : Begin(p, i)) \/ (\E s \in Sessions : Claim(p, s))
      PROVE  SlotInv'
  <2>1. starting' = starting
    BY <1>3 DEF StartOk, PollFails, PollOk, Finish, Find, UpdateOk, UpdateFails, UpdateGone,
                AppendOk, AppendFails, LeaveCommit, WriteTokens, WriteNothing, Delete, Release,
                Acquire, EnterCommit, Await, Lock, Begin, Claim
  <2>2. \E step : Goto(p, step) /\ (pc[p] \in Starting <=> step \in Starting)
    BY <1>3 DEF StartOk, PollFails, PollOk, Finish, Find, UpdateOk, UpdateFails, UpdateGone,
                AppendOk, AppendFails, LeaveCommit, WriteTokens, WriteNothing, Delete, Release,
                Acquire, EnterCommit, Await, Lock, Begin, Claim, Starting
  <2> QED BY <2>1, <2>2, SlotsSame
<1>4. ASSUME UNCHANGED <<pc, starting>> PROVE SlotInv'
  BY <1>4 DEF SlotInv, Reserved
<1>5. ASSUME NEW s \in Sessions, Expire(s) \/ (\E u \in Users : Authorize(s, u))
      PROVE  UNCHANGED <<pc, starting>>
  BY <1>5 DEF Expire, Authorize
<1>6. ASSUME NEW p \in Procs, Refused(p) PROVE UNCHANGED <<pc, starting>>
  BY <1>6 DEF Refused
<1>7. ASSUME UNCHANGED vars PROVE UNCHANGED <<pc, starting>>
  BY <1>7 DEF vars
<1> QED BY <1>1, <1>2, <1>3, <1>4, <1>5, <1>6, <1>7 DEF Next, Continue

(* reserveLoginStart, StartLogin: the limit holds and every reservation    *)
(* is given back exactly once, whatever starts fail or overlap.            *)
THEOREM SlotsAccounted == Spec => []SessionSlots
<1>1. SlotInv /\ SessionCap => SessionSlots
  BY DEF SlotInv, SessionSlots, SlotsReturned, Reserved
<1> HIDE DEF SlotInv
<1> QED BY <1>1, SlotInit, SlotStep, SessionsCapped, PTL DEF Spec

-----------------------------------------------------------------------------
(* The accounts are one function, and no two of them belong to one user.   *)
AccountInv == DOMAIN owner = IDs /\ OneAccountPerUser /\ AccountCap

LEMMA AccountInit == Init => AccountInv
<1> SUFFICES ASSUME Init PROVE AccountInv
  OBVIOUS
<1>1. Live = {} /\ DOMAIN owner = IDs
  BY DEF Init, Live
<1> QED BY <1>1, FS_EmptySet, CapsAssumption DEF AccountInv, OneAccountPerUser, AccountCap

LEMMA LiveFinite == IsFiniteSet(Live) /\ Cardinality(Live) \in Nat
  BY FS_Subset, FS_CardinalityType, NamesAssumption DEF Live

LEMMA AccountStep == AccountInv /\ [Next]_vars => AccountInv'
<1> SUFFICES ASSUME AccountInv, [Next]_vars PROVE AccountInv'
  OBVIOUS
<1>1. ASSUME NEW p \in Procs, AppendOk(p) PROVE AccountInv'
  <2>1. /\ owner' = [owner EXCEPT ![target[p]] = Mine(p)]
        /\ Same(Mine(p)) = {} /\ Cardinality(Live) < MaxAccounts
    BY <1>1 DEF AppendOk
  <2>2. OneAccountPerUser'
    <3> SUFFICES ASSUME NEW i \in Live', NEW j \in Live', owner'[i] = owner'[j], i # j
                 PROVE  FALSE
      BY DEF OneAccountPerUser
    <3>1. i \in IDs /\ j \in IDs
      BY DEF Live
    <3>2. \A k \in IDs : k # target[p] => owner'[k] = owner[k]
      BY <2>1 DEF AccountInv
    <3>3. \A k \in IDs : k = target[p] => owner'[k] = Mine(p)
      BY <2>1 DEF AccountInv
    <3>4. \A k \in IDs : k # target[p] /\ owner'[k] # Nobody => owner[k] # Mine(p)
      BY <2>1, <3>2 DEF Same, Live
    <3>5. owner'[i] # Nobody /\ owner'[j] # Nobody
      BY DEF Live
    <3>6. CASE i = target[p] \/ j = target[p]
      BY <3>1, <3>2, <3>3, <3>4, <3>5, <3>6
    <3>7. CASE i # target[p] /\ j # target[p]
      BY <3>1, <3>2, <3>5, <3>7 DEF AccountInv, OneAccountPerUser, Live
    <3> QED BY <3>6, <3>7
  <2>3. AccountCap'
    <3>1. Live' \subseteq Live \cup {target[p]}
      BY <2>1 DEF Live, AccountInv
    <3>2. IsFiniteSet(Live \cup {target[p]}) /\ Cardinality(Live \cup {target[p]}) <= Cardinality(Live) + 1
      BY LiveFinite, AddOne
    <3>3. Cardinality(Live') <= Cardinality(Live \cup {target[p]}) /\ IsFiniteSet(Live')
      BY <3>1, <3>2, FS_Subset
    <3>4. Cardinality(Live') \in Nat /\ Cardinality(Live \cup {target[p]}) \in Nat
      BY <3>2, <3>3, FS_CardinalityType
    <3> QED BY <2>1, <3>2, <3>3, <3>4, LiveFinite, CapsAssumption DEF AccountCap
  <2> QED BY <2>1, <2>2, <2>3 DEF AccountInv
<1>2. ASSUME NEW p \in Procs, Delete(p) PROVE AccountInv'
  <2>1. owner' = [owner EXCEPT ![target[p]] = Nobody]
    BY <1>2 DEF Delete
  <2>2. Live' \subseteq Live /\ \A i \in Live' : owner'[i] = owner[i]
    BY <2>1 DEF Live, AccountInv
  <2>3. Cardinality(Live') <= Cardinality(Live) /\ Cardinality(Live') \in Nat
    BY <2>2, LiveFinite, FS_Subset, FS_CardinalityType
  <2> QED BY <2>1, <2>2, <2>3, LiveFinite, CapsAssumption DEF AccountInv, OneAccountPerUser, AccountCap
<1>3. ASSUME owner' = owner PROVE AccountInv'
  BY <1>3 DEF AccountInv, OneAccountPerUser, AccountCap, Live
<1>4. ASSUME NEW p \in Procs,
             Reserve(p) \/ Refused(p) \/ Register(p) \/ StartFails(p) \/ Finish(p)
             \/ StartOk(p) \/ PollFails(p) \/ PollOk(p) \/ Find(p) \/ UpdateOk(p) \/ UpdateFails(p)
             \/ UpdateGone(p) \/ AppendFails(p) \/ LeaveCommit(p)
             \/ WriteTokens(p) \/ WriteNothing(p) \/ Release(p) \/ Acquire(p)
             \/ (\E s \in Sessions : Claim(p, s)) \/ (\E i \in IDs : Begin(p, i))
      PROVE  owner' = owner
  BY <1>4 DEF Reserve, Refused, Register, StartFails, Finish, StartOk, PollFails, PollOk, Find,
              UpdateOk, UpdateFails, UpdateGone, AppendFails, LeaveCommit, WriteTokens,
              WriteNothing, Release, Acquire, EnterCommit, Await, Lock, Claim, Begin
<1>5. ASSUME NEW s \in Sessions, Expire(s) \/ (\E u \in Users : Authorize(s, u)) PROVE owner' = owner
  BY <1>5 DEF Expire, Authorize
<1>6. ASSUME UNCHANGED vars PROVE owner' = owner
  BY <1>6 DEF vars
<1> QED BY <1>1, <1>2, <1>3, <1>4, <1>5, <1>6 DEF Next, Continue

LEMMA AccountInvariance == Spec => []AccountInv
<1>1. Init => AccountInv
  BY AccountInit
<1>2. AccountInv /\ [Next]_vars => AccountInv'
  BY AccountStep
<1> HIDE DEF AccountInv
<1> QED BY <1>1, <1>2, PTL DEF Spec

(* commitLoginResult: however many sessions of one user are committed      *)
(* while accounts are deleted, no user ever has two accounts.              *)
THEOREM UsersUnique == Spec => []OneAccountPerUser
<1>1. AccountInv => OneAccountPerUser
  BY DEF AccountInv
<1> QED BY <1>1, AccountInvariance, PTL

(* commitLoginResult: the limit on accounts holds under concurrent commits.*)
THEOREM AccountsCapped == Spec => []AccountCap
<1>1. AccountInv => AccountCap
  BY DEF AccountInv
<1> QED BY <1>1, AccountInvariance, PTL

-----------------------------------------------------------------------------
(* The sessions that are busy are those being polled, one by each poll.    *)
PollInv ==
  /\ DOMAIN pc = Procs /\ DOMAIN session = Procs /\ DOMAIN consume = Procs
  /\ busy \subseteq logins
  /\ \A s \in busy : \E p \in Procs : pc[p] \in Polling /\ session[p] = s
  /\ \A p \in Procs : pc[p] \in Polling => session[p] \in busy
  /\ \A p, q \in Procs :
       pc[p] \in Polling /\ pc[q] \in Polling /\ session[p] = session[q] => p = q

(* A session that was committed is kept only until its poll ends.          *)
DoneInv ==
  /\ logins \cap done \subseteq busy
  /\ \A p \in Procs : pc[p] \in Polling /\ session[p] \in done =>
       consume[p] /\ pc[p] \in {"unlock", "finish"}

(* The steps that leave the sessions alone.                                *)
Routine(p) ==
  \/ StartOk(p) \/ StartFails(p) \/ PollFails(p) \/ PollOk(p)
  \/ Find(p) \/ UpdateFails(p) \/ UpdateGone(p) \/ AppendFails(p) \/ LeaveCommit(p)
  \/ WriteTokens(p) \/ WriteNothing(p) \/ Delete(p) \/ Release(p)
  \/ Acquire(p) \/ \E i \in IDs : Begin(p, i)

LEMMA RoutineKeeps ==
  ASSUME NEW p \in Procs, Routine(p)
  PROVE  /\ UNCHANGED <<logins, busy, session, consume, done>>
         /\ \E step : /\ Goto(p, step) /\ (pc[p] \in Polling <=> step \in Polling)
                      /\ pc[p] \in {"unlock", "finish"} => step \in {"unlock", "finish"}
<1>1. UNCHANGED <<logins, busy, session, consume, done>>
  BY DEF Routine, StartOk, StartFails, PollFails, PollOk, Find, UpdateFails, UpdateGone,
         AppendFails, LeaveCommit, WriteTokens, WriteNothing, Delete, Release,
         Acquire, EnterCommit, Await, Lock, Begin
<1>2. \E step : /\ Goto(p, step) /\ (pc[p] \in Polling <=> step \in Polling)
                /\ pc[p] \in {"unlock", "finish"} => step \in {"unlock", "finish"}
  BY DEF Routine, StartOk, StartFails, PollFails, PollOk, Find, UpdateFails, UpdateGone,
         AppendFails, LeaveCommit, WriteTokens, WriteNothing, Delete, Release,
         Acquire, EnterCommit, Await, Lock, Begin, Polling, Committing
<1> QED BY <1>1, <1>2

LEMMA NextCases ==
  ASSUME Next
  PROVE  \/ \E s \in Sessions : Expire(s) \/ \E u \in Users : Authorize(s, u)
         \/ \E p \in Procs :
              \/ Reserve(p) \/ Refused(p) \/ Register(p) \/ Finish(p)
              \/ UpdateOk(p) \/ AppendOk(p) \/ Routine(p)
              \/ \E s \in Sessions : Claim(p, s)
  BY DEF Next, Continue, Routine

(* A cleanup drops no session that is being polled.                        *)
LEMMA BusyKept == busy \subseteq logins => busy \subseteq Kept /\ Kept \subseteq logins
  BY DEF Kept

LEMMA PollStep == PollInv /\ [Next]_vars => PollInv'
<1> SUFFICES ASSUME PollInv, [Next]_vars PROVE PollInv'
  OBVIOUS
<1> USE DEF PollInv
<1>1. ASSUME NEW p \in Procs, Routine(p) PROVE PollInv'
  <2>1. UNCHANGED <<logins, busy, session, consume>>
    BY <1>1, RoutineKeeps
  <2>2. PICK step : Goto(p, step) /\ (pc[p] \in Polling <=> step \in Polling)
    BY <1>1, RoutineKeeps
  <2>3. DOMAIN pc' = Procs /\ \A q \in Procs : pc'[q] \in Polling <=> pc[q] \in Polling
    BY <2>2 DEF Goto
  <2> QED BY <2>1, <2>3
<1>2. ASSUME NEW p \in Procs, Reserve(p) \/ Refused(p) \/ Register(p) PROVE PollInv'
  <2>1. UNCHANGED <<busy, session, consume>> /\ Kept \subseteq logins'
    BY <1>2 DEF Reserve, Refused, Register, Cleanup, Keep
  <2>2. DOMAIN pc' = Procs /\ \A q \in Procs : pc'[q] \in Polling <=> pc[q] \in Polling
    BY <1>2 DEF Reserve, Refused, Register, Goto, Polling, Committing
  <2> QED BY <2>1, <2>2, BusyKept
<1>3. ASSUME NEW p \in Procs, NEW s \in Sessions, Claim(p, s) PROVE PollInv'
  <2>1. /\ logins' = Kept /\ s \in Kept \ busy /\ busy' = busy \cup {s} /\ pc[p] = "idle"
        /\ session' = [session EXCEPT ![p] = s] /\ pc' = [pc EXCEPT ![p] = "poll"]
        /\ consume' = consume
    BY <1>3 DEF Claim, Cleanup, Keep, Goto
  <2>2. "poll" \in Polling /\ "idle" \notin Polling
    BY DEF Polling, Committing
  <2> QED BY <2>1, <2>2, BusyKept
<1>4. ASSUME NEW p \in Procs, Finish(p) PROVE PollInv'
  <2>1. /\ logins \ {session[p]} \subseteq logins' /\ busy' = busy \ {session[p]}
        /\ pc[p] = "finish" /\ pc' = [pc EXCEPT ![p] = "idle"]
        /\ session' = [session EXCEPT ![p] = Nobody]
        /\ consume' = [consume EXCEPT ![p] = FALSE]
    BY <1>4 DEF Finish, Keep, Goto
  <2>2. "finish" \in Polling /\ "idle" \notin Polling
    BY DEF Polling, Committing
  <2> QED BY <2>1, <2>2
<1>5. ASSUME NEW p \in Procs, UpdateOk(p) \/ AppendOk(p) PROVE PollInv'
  <2>1. /\ UNCHANGED <<logins, busy, session>> /\ consume' = [consume EXCEPT ![p] = TRUE]
        /\ pc[p] \in {"update", "append"} /\ pc' = [pc EXCEPT ![p] = "unlock"]
    BY <1>5 DEF UpdateOk, AppendOk, Goto
  <2>2. {"update", "append", "unlock"} \subseteq Polling
    BY DEF Polling, Committing
  <2> QED BY <2>1, <2>2
<1>6. ASSUME NEW s \in Sessions, Expire(s) \/ \E u \in Users : Authorize(s, u) PROVE PollInv'
  BY <1>6 DEF Expire, Authorize
<1>7. CASE UNCHANGED vars
  BY <1>7 DEF vars
<1> QED BY <1>1, <1>2, <1>3, <1>4, <1>5, <1>6, <1>7, NextCases

LEMMA DoneStep == PollInv /\ DoneInv /\ [Next]_vars => DoneInv'
<1> SUFFICES ASSUME PollInv, DoneInv, [Next]_vars PROVE DoneInv'
  OBVIOUS
<1> USE DEF PollInv, DoneInv
<1>1. ASSUME NEW p \in Procs, Routine(p) PROVE DoneInv'
  <2>1. UNCHANGED <<logins, busy, session, consume, done>>
    BY <1>1, RoutineKeeps
  <2>2. PICK step : /\ Goto(p, step) /\ (pc[p] \in Polling <=> step \in Polling)
                    /\ pc[p] \in {"unlock", "finish"} => step \in {"unlock", "finish"}
    BY <1>1, RoutineKeeps
  <2> QED BY <2>1, <2>2 DEF Goto
<1>2. ASSUME NEW p \in Procs, Reserve(p) \/ Refused(p) \/ Register(p) PROVE DoneInv'
  <2>1. /\ UNCHANGED <<busy, session, consume>> /\ done' \subseteq done
        /\ logins' \cap done' \subseteq logins
    BY <1>2 DEF Reserve, Refused, Register, Cleanup, Keep, Kept
  <2>2. \A q \in Procs : /\ pc'[q] \in Polling => pc'[q] = pc[q]
    BY <1>2 DEF Reserve, Refused, Register, Goto, Polling, Committing
  <2> QED BY <2>1, <2>2
<1>3. ASSUME NEW p \in Procs, NEW s \in Sessions, Claim(p, s) PROVE DoneInv'
  <2>1. /\ logins' = Kept /\ s \in Kept \ busy /\ busy' = busy \cup {s}
        /\ session' = [session EXCEPT ![p] = s] /\ pc' = [pc EXCEPT ![p] = "poll"]
        /\ consume' = consume /\ done' = done
    BY <1>3 DEF Claim, Cleanup, Keep, Goto
  <2> QED BY <2>1, BusyKept
<1>4. ASSUME NEW p \in Procs, Finish(p) PROVE DoneInv'
  <2>1. /\ logins' \subseteq logins /\ busy' = busy \ {session[p]} /\ pc[p] = "finish"
        /\ consume[p] => session[p] \notin logins'
        /\ pc' = [pc EXCEPT ![p] = "idle"] /\ done' = done
        /\ session' = [session EXCEPT ![p] = Nobody]
        /\ consume' = [consume EXCEPT ![p] = FALSE]
    BY <1>4 DEF Finish, Keep, Goto
  <2>2. "finish" \in Polling /\ "idle" \notin Polling
    BY DEF Polling, Committing
  <2> QED BY <2>1, <2>2
<1>5. ASSUME NEW p \in Procs, UpdateOk(p) \/ AppendOk(p) PROVE DoneInv'
  <2>1. /\ UNCHANGED <<logins, busy, session>> /\ consume' = [consume EXCEPT ![p] = TRUE]
        /\ pc[p] \in {"update", "append"} /\ pc' = [pc EXCEPT ![p] = "unlock"]
        /\ done' = done \cup {session[p]}
    BY <1>5 DEF UpdateOk, AppendOk, Goto
  <2>2. {"update", "append", "unlock"} \subseteq Polling
    BY DEF Polling, Committing
  <2> QED BY <2>1, <2>2
<1>6. ASSUME NEW s \in Sessions, Expire(s) \/ \E u \in Users : Authorize(s, u) PROVE DoneInv'
  BY <1>6 DEF Expire, Authorize
<1>7. CASE UNCHANGED vars
  BY <1>7 DEF vars
<1> QED BY <1>1, <1>2, <1>3, <1>4, <1>5, <1>6, <1>7, NextCases

LEMMA PollInvariance == Spec => [](PollInv /\ DoneInv)
<1>1. Init => PollInv /\ DoneInv
  BY DEF Init, PollInv, DoneInv, Polling, Committing
<1>2. PollInv /\ DoneInv /\ [Next]_vars => (PollInv /\ DoneInv)'
  BY PollStep, DoneStep
<1> HIDE DEF PollInv, DoneInv
<1> QED BY <1>1, <1>2, PTL DEF Spec

(* PollLogin: a session is kept while it is polled, even past its time, and*)
(* is busy only while somebody polls it.                                   *)
THEOREM PolledStays == Spec => []PolledSessionStays
<1>1. PollInv => PolledSessionStays
  BY DEF PollInv, PolledSessionStays
<1> HIDE DEF PollInv, DoneInv
<1> QED BY <1>1, PollInvariance, PTL

(* PollLogin: no session is committed twice.                               *)
THEOREM SessionCommitsOnce == Spec => []CommitsOnce
<1>1. DoneInv => CommitsOnce
  BY DEF DoneInv, CommitsOnce, Polling
<1> HIDE DEF PollInv, DoneInv
<1> QED BY <1>1, PollInvariance, PTL

-----------------------------------------------------------------------------
(* Who holds loginCommitMu and the account locks, and that nobody's copy of*)
(* the tokens is ever out of date.                                         *)
Serial == {"find", "await", "update", "append", "unlock"}

HoldInv ==
  /\ DOMAIN pc = Procs /\ DOMAIN target = Procs /\ DOMAIN lock = IDs /\ DOMAIN owner = IDs
  /\ \A p \in Procs : pc[p] \in Serial => commitMu = p
  /\ \A p \in Procs : pc[p] \in {"lock", "work", "delete", "await", "update"} => target[p] \in IDs
  /\ \A p \in Procs : pc[p] \in {"work", "delete"} => lock[target[p]] = p
  /\ \A p \in Procs : pc[p] = "update" /\ target[p] \in Live => lock[target[p]] = p
  /\ outdated = {}

(* What is left after a step of p that gives up its lock, if it had it.    *)
LEMMA UnlockedOthers ==
  ASSUME HoldInv, NEW p \in Procs, NEW i \in IDs, NEW q \in Procs \ {p}, lock[i] = q
  PROVE  Unlocked(p)[i] = q
  BY DEF HoldInv, Unlocked

LEMMA HoldStep == HoldInv /\ [Next]_vars => HoldInv'
<1> SUFFICES ASSUME HoldInv, [Next]_vars PROVE HoldInv'
  OBVIOUS
<1>0. Nobody \notin Procs /\ Live \subseteq IDs /\ \A u : Same(u) \subseteq Live
  BY NobodyAssumption DEF Live, Same
<1> USE DEF HoldInv, Serial
(* Nothing the invariant is about changes but the step of one goroutine.   *)
<1>1. ASSUME NEW p \in Procs, NEW step, Goto(p, step),
             UNCHANGED <<owner, locks, target, outdated>>,
             step \in {"idle", "start", "register", "poll", "finish", "commit", "release"}
      PROVE  HoldInv'
  BY <1>1 DEF Goto, Live
<1>2. ASSUME NEW p \in Procs,
             Reserve(p) \/ StartOk(p) \/ StartFails(p) \/ Register(p)
             \/ PollFails(p) \/ PollOk(p) \/ Finish(p) \/ WriteNothing(p)
             \/ (\E s \in Sessions : Claim(p, s))
      PROVE  HoldInv'
  <2>1. UNCHANGED <<owner, locks, target, outdated>>
    BY <1>2 DEF Reserve, StartOk, StartFails, Register, PollFails, PollOk, Finish, WriteNothing,
                Claim
  <2>2. \E step \in {"idle", "start", "register", "poll", "finish", "commit", "release"} :
          Goto(p, step)
    BY <1>2 DEF Reserve, StartOk, StartFails, Register, PollFails, PollOk, Finish, WriteNothing,
                Claim
  <2> QED BY <1>1, <2>1, <2>2
<1>3. ASSUME NEW p \in Procs, EnterCommit(p) PROVE HoldInv'
  BY <1>0, <1>3 DEF EnterCommit, Goto, Live
<1>4. ASSUME NEW p \in Procs, Find(p) PROVE HoldInv'
  <2>1. /\ pc[p] = "find" /\ UNCHANGED <<owner, lock, commitMu, outdated>>
        /\ \/ /\ pc' = [pc EXCEPT ![p] = "await"]
              /\ \E i \in IDs : target' = [target EXCEPT ![p] = i]
           \/ /\ pc' = [pc EXCEPT ![p] = "append"]
              /\ target' = [target EXCEPT ![p] = FreshID]
    BY <1>0, <1>4 DEF Find, Goto
  <2> QED BY <2>1 DEF Live
<1>5. ASSUME NEW p \in Procs, Await(p) PROVE HoldInv'
  <2>1. /\ pc[p] = "await" /\ pc' = [pc EXCEPT ![p] = "update"]
        /\ UNCHANGED <<owner, commitMu, target, outdated>>
        /\ \/ lock[target[p]] = Nobody /\ lock' = [lock EXCEPT ![target[p]] = p]
           \/ target[p] \notin Live /\ lock' = lock
    BY <1>5 DEF Await, Goto
  <2> QED BY <1>0, <2>1 DEF Live
<1>6. ASSUME NEW p \in Procs, Lock(p) PROVE HoldInv'
  <2>1. /\ pc[p] = "lock" /\ UNCHANGED <<owner, commitMu, target, outdated>>
        /\ \/ /\ lock[target[p]] = Nobody /\ lock' = [lock EXCEPT ![target[p]] = p]
              /\ \E step \in {"work", "delete", "release"} : pc' = [pc EXCEPT ![p] = step]
           \/ /\ lock' = lock
              /\ pc' = [pc EXCEPT ![p] = "release"]
    BY <1>6 DEF Lock, Goto
  <2> QED BY <1>0, <2>1 DEF Live
<1>7. ASSUME NEW p \in Procs, UpdateOk(p) \/ WriteTokens(p) PROVE HoldInv'
  <2>1. lock[target[p]] = p /\ target[p] \in IDs
    BY <1>0, <1>7 DEF UpdateOk, WriteTokens
  <2>2. Readers(p, target[p]) = {}
    BY <2>1 DEF Readers
  <2>3. /\ UNCHANGED <<owner, commitMu, target>> /\ outdated' = {}
        /\ \/ lock' = Unlocked(p) /\ pc' = [pc EXCEPT ![p] = "unlock"] /\ pc[p] = "update"
           \/ lock' = lock /\ pc' = [pc EXCEPT ![p] = "release"]
    BY <1>7, <2>2 DEF UpdateOk, WriteTokens, Goto
  <2> QED BY <2>3, UnlockedOthers DEF Live, Unlocked
<1>8. ASSUME NEW p \in Procs, UpdateFails(p) \/ UpdateGone(p) \/ Release(p) PROVE HoldInv'
  <2>1. /\ UNCHANGED <<owner, commitMu>> /\ outdated' = {} /\ lock' = Unlocked(p)
        /\ target' \in {target, [target EXCEPT ![p] = Nobody]}
        /\ \/ /\ pc[p] = "update"
              /\ pc' \in {[pc EXCEPT ![p] = "unlock"], [pc EXCEPT ![p] = "find"]}
           \/ pc' = [pc EXCEPT ![p] = "idle"]
    BY <1>8 DEF UpdateFails, UpdateGone, Release, Goto
  <2> QED BY <2>1, UnlockedOthers DEF Live, Unlocked
<1>9. ASSUME NEW p \in Procs, AppendOk(p) PROVE HoldInv'
  <2>1. /\ pc[p] = "append" /\ pc' = [pc EXCEPT ![p] = "unlock"]
        /\ UNCHANGED <<locks, target, outdated>>
        /\ owner' = [owner EXCEPT ![target[p]] = Mine(p)]
    BY <1>9 DEF AppendOk, Goto
  <2>2. \A q \in Procs \ {p} : pc[q] \notin Serial
    BY <2>1
  <2> QED BY <2>1, <2>2
<1>10. ASSUME NEW p \in Procs, AppendFails(p) PROVE HoldInv'
  <2>1. /\ pc[p] = "append" /\ UNCHANGED <<owner, locks, outdated>>
        /\ target' = [target EXCEPT ![p] = Nobody]
        /\ \E step \in {"unlock", "find"} : pc' = [pc EXCEPT ![p] = step]
    BY <1>10 DEF AppendFails, Goto
  <2> QED BY <2>1 DEF Live
<1>11. ASSUME NEW p \in Procs, LeaveCommit(p) PROVE HoldInv'
  <2>1. /\ pc[p] = "unlock" /\ pc' = [pc EXCEPT ![p] = "finish"]
        /\ UNCHANGED <<owner, lock, outdated>> /\ target' = [target EXCEPT ![p] = Nobody]
    BY <1>11 DEF LeaveCommit, Goto
  <2>2. \A q \in Procs \ {p} : pc[q] \notin Serial
    BY <2>1
  <2> QED BY <2>1, <2>2 DEF Live
<1>12. ASSUME NEW p \in Procs, NEW i \in IDs, Begin(p, i) PROVE HoldInv'
  BY <1>12 DEF Begin, Goto, Live
<1>13. ASSUME NEW p \in Procs, Delete(p) PROVE HoldInv'
  <2>1. /\ pc' = [pc EXCEPT ![p] = "release"] /\ UNCHANGED <<locks, target, outdated>>
        /\ owner' = [owner EXCEPT ![target[p]] = Nobody]
    BY <1>13 DEF Delete, Goto
  <2>2. Live' \subseteq Live
    BY <2>1 DEF Live
  <2> QED BY <2>1, <2>2
<1>14. ASSUME UNCHANGED <<owner, locks, pc, target, outdated>> PROVE HoldInv'
  BY <1>14 DEF Live
<1>15. ASSUME NEW p \in Procs, Refused(p) PROVE HoldInv'
  BY <1>14, <1>15 DEF Refused
<1>16. ASSUME NEW s \in Sessions, Expire(s) \/ \E u \in Users : Authorize(s, u) PROVE HoldInv'
  BY <1>14, <1>16 DEF Expire, Authorize
<1>17. CASE UNCHANGED vars
  BY <1>14, <1>17 DEF vars
<1> QED
  BY <1>2, <1>3, <1>4, <1>5, <1>6, <1>7, <1>8, <1>9, <1>10, <1>11, <1>12, <1>13, <1>15, <1>16,
     <1>17 DEF Next, Continue, Acquire

(* commitLoginResult: no operation that copied an account before a login   *)
(* writes its old tokens over those of the login.                          *)
THEOREM NothingStale == Spec => []NoStaleWrite
<1>1. Init => HoldInv
  BY DEF Init, HoldInv, Serial
<1>2. HoldInv => NoStaleWrite
  BY DEF HoldInv, NoStaleWrite
<1>3. HoldInv /\ [Next]_vars => HoldInv'
  BY HoldStep
<1> HIDE DEF HoldInv
<1> QED BY <1>1, <1>2, <1>3, PTL DEF Spec

-----------------------------------------------------------------------------
(* A goroutine refers to a session while it polls and to an account while  *)
(* it works on one.                                                        *)
Referring ==
  /\ \A p \in Procs : pc[p] \notin Polling => session[p] = Nobody
  /\ \A p \in Procs :
       pc[p] \in {"idle", "poll", "finish", "commit", "find"} \cup Starting => target[p] = Nobody

TypeInv == TypeOK /\ Referring

(* There is an account name that neither an account nor another goroutine  *)
(* has.                                                                    *)
LEMMA FreshIDFound ==
  ASSUME TypeInv, AccountInv, NEW p \in Procs, target[p] = Nobody
  PROVE  FreshID \in IDs
<1> DEFINE T == {target[q] : q \in Procs \ {p}}
           f == [q \in Procs \ {p} |-> target[q]]
           m == Cardinality(Procs)
<1>1. IsFiniteSet(Procs \ {p}) /\ m \in Nat /\ Cardinality(Procs \ {p}) = m - 1
  BY NamesAssumption, FS_RemoveElement, FS_CardinalityType
<1>2. f \in Surjection(Procs \ {p}, T)
  BY DEF Surjection
<1>3. IsFiniteSet(T) /\ Cardinality(T) <= m - 1
  BY <1>1, <1>2, FS_Surjection
<1>4. /\ IsFiniteSet(Live \cup T)
      /\ Cardinality(Live \cup T) <= Cardinality(Live) + Cardinality(T)
  <2>1. /\ IsFiniteSet(Live \cup T)
        /\ Cardinality(Live \cup T)
             = Cardinality(Live) + Cardinality(T) - Cardinality(Live \cap T)
    BY <1>3, LiveFinite, FS_Union
  <2>2. Cardinality(Live \cap T) \in Nat
    BY LiveFinite, FS_Subset, FS_CardinalityType
  <2>3. Cardinality(T) \in Nat
    BY <1>3, FS_CardinalityType
  <2> QED BY <2>1, <2>2, <2>3, LiveFinite
<1>5. Cardinality(Live \cup T) < Cardinality(IDs)
  <2>1. Cardinality(T) \in Nat /\ Cardinality(IDs) \in Nat /\ Cardinality(Live \cup T) \in Nat
    BY <1>3, <1>4, NamesAssumption, FS_CardinalityType
  <2> HIDE DEF T
  <2> QED BY <1>1, <1>3, <1>4, <2>1, LiveFinite, CapsAssumption, FreshAssumption
       DEF AccountInv, AccountCap
<1>6. \E i \in IDs : i \notin Live \cup T
  <2> SUFFICES ASSUME IDs \subseteq Live \cup T PROVE FALSE
    OBVIOUS
  <2>1. Cardinality(IDs) <= Cardinality(Live \cup T)
    BY <1>4, FS_Subset
  <2>2. Cardinality(IDs) \in Nat /\ Cardinality(Live \cup T) \in Nat
    BY <1>4, NamesAssumption, FS_CardinalityType
  <2> QED BY <1>5, <2>1, <2>2
<1>7. \E i \in IDs \ Live : \A q \in Procs : target[q] # i
  <2>1. PICK i \in IDs : i \notin Live \cup T
    BY <1>6
  <2>2. \A q \in Procs : target[q] # i
    <3> SUFFICES ASSUME NEW q \in Procs PROVE target[q] # i
      OBVIOUS
    <3>1. CASE q = p
      BY <3>1, NobodyAssumption
    <3>2. CASE q # p
      BY <2>1, <3>2
    <3> QED BY <3>1, <3>2
  <2> QED BY <2>1, <2>2
<1> QED BY <1>7 DEF FreshID

(* And a session name, for nobody refers to a session that is not kept.    *)
LEMMA FreshSessionFound ==
  ASSUME TypeInv, PollInv, Cardinality(Kept) < MaxSessions
  PROVE  FreshSession \in Sessions
<1>1. Kept \subseteq Sessions /\ IsFiniteSet(Kept) /\ Cardinality(Kept) \in Nat
  <2>1. Kept \subseteq Sessions
    BY DEF Kept, TypeInv, TypeOK
  <2> QED BY <2>1, NamesAssumption, FS_Subset, FS_CardinalityType
<1>2. Kept # Sessions
  BY <1>1, CapsAssumption, FreshAssumption
<1>3. PICK s \in Sessions \ Kept : TRUE
  BY <1>1, <1>2
<1>4. \A p \in Procs : session[p] # s
  BY <1>3, BusyKept, NobodyAssumption DEF PollInv, TypeInv, Referring
<1> QED BY <1>3, <1>4 DEF FreshSession

LEMMA TypeStep ==
  TypeInv /\ PollInv /\ AccountInv /\ SlotInv /\ SlotInv' /\ [Next]_vars => TypeInv'
<1> SUFFICES ASSUME TypeInv, PollInv, AccountInv, SlotInv', [Next]_vars PROVE TypeInv'
  OBVIOUS
<1>a. starting' \in Nat
  BY NamesAssumption, FS_Subset, FS_CardinalityType DEF SlotInv, Reserved
<1>b. \A p \in Procs : pc[p] \in Polling => session[p] \in Sessions /\ Mine(p) \in Users \cup {Nobody}
  BY DEF PollInv, TypeInv, TypeOK, Mine
<1>c. Kept \subseteq Sessions
  BY DEF Kept, TypeInv, TypeOK
<1> USE DEF TypeInv, TypeOK, Referring, Polling, Committing, Starting, Working, Goto
<1>1. ASSUME NEW p \in Procs, Reserve(p) \/ StartOk(p) \/ StartFails(p) \/ Refused(p) PROVE TypeInv'
  BY <1>1, <1>a, <1>c DEF Reserve, StartOk, StartFails, Refused, Cleanup, Keep
<1>2. ASSUME NEW p \in Procs, Register(p) PROVE TypeInv'
  <2>1. PICK kept \in SUBSET Sessions : Keep(kept)
    BY <1>2, <1>c, FreshSessionFound DEF Register
  <2>2. logins' \subseteq Sessions /\ expired' \subseteq Sessions
        /\ granted' \in [Sessions -> Users \cup {Nobody}]
    BY <2>1 DEF Keep
  <2>3. done' \subseteq Sessions
    BY <1>2, FreshSessionFound DEF Register
  <2> QED BY <1>2, <1>a, <2>2, <2>3 DEF Register
<1>3. ASSUME NEW p \in Procs, NEW s \in Sessions, Claim(p, s) PROVE TypeInv'
  BY <1>3, <1>a, <1>c DEF Claim, Cleanup, Keep
<1>4. ASSUME NEW p \in Procs, PollFails(p) \/ PollOk(p) \/ EnterCommit(p) PROVE TypeInv'
  BY <1>4, <1>a DEF PollFails, PollOk, EnterCommit
<1>5. ASSUME NEW p \in Procs, Finish(p) PROVE TypeInv'
  <2>1. PICK kept \in SUBSET Sessions : Keep(kept)
    BY <1>5 DEF Finish
  <2>2. logins' \subseteq Sessions /\ expired' \subseteq Sessions
        /\ granted' \in [Sessions -> Users \cup {Nobody}]
    BY <2>1 DEF Keep
  <2>3. busy' \subseteq Sessions
    BY <1>5 DEF Finish
  <2> QED BY <1>5, <1>a, <2>2, <2>3 DEF Finish
<1>6. ASSUME NEW p \in Procs, Find(p) PROVE TypeInv'
  <2>1. target[p] = Nobody
    BY <1>6 DEF Find
  <2>2. FreshID \in IDs
    BY <2>1, FreshIDFound
  <2>3. \E i \in IDs : target' = [target EXCEPT ![p] = i]
    BY <1>6, <2>2 DEF Find, Same, Live
  <2>4. \E step \in {"await", "append"} : pc' = [pc EXCEPT ![p] = step]
    BY <1>6 DEF Find
  <2>5. pc[p] = "find" /\ UNCHANGED <<sessions, owner, locks, session, consume, history>>
    BY <1>6 DEF Find
  <2> QED BY <2>3, <2>4, <2>5
<1>7. ASSUME NEW p \in Procs, Await(p) \/ Lock(p) PROVE TypeInv'
  BY <1>7, <1>a DEF Await, Lock
<1>8. ASSUME NEW p \in Procs, UpdateOk(p) PROVE TypeInv'
  BY <1>8, <1>a, <1>b DEF UpdateOk, Unlocked, Readers
<1>9. ASSUME NEW p \in Procs, UpdateFails(p) \/ UpdateGone(p) PROVE TypeInv'
  BY <1>9, <1>a, <1>b DEF UpdateFails, UpdateGone, Unlocked
<1>10. ASSUME NEW p \in Procs, AppendOk(p) PROVE TypeInv'
  BY <1>10, <1>a, <1>b DEF AppendOk
<1>11. ASSUME NEW p \in Procs, AppendFails(p) \/ LeaveCommit(p) PROVE TypeInv'
  BY <1>11, <1>a, <1>b DEF AppendFails, LeaveCommit
<1>12. ASSUME NEW p \in Procs, NEW i \in IDs, Begin(p, i) PROVE TypeInv'
  BY <1>12, <1>a DEF Begin
<1>13. ASSUME NEW p \in Procs, WriteTokens(p) \/ WriteNothing(p) \/ Delete(p) \/ Release(p)
       PROVE  TypeInv'
  BY <1>13, <1>a DEF WriteTokens, WriteNothing, Delete, Release, Unlocked, Readers
<1>14. ASSUME NEW s \in Sessions, Expire(s) \/ \E u \in Users : Authorize(s, u) PROVE TypeInv'
  BY <1>14, <1>a DEF Expire, Authorize
<1>15. CASE UNCHANGED vars
  BY <1>15 DEF vars
<1> QED BY <1>1, <1>2, <1>3, <1>4, <1>5, <1>6, <1>7, <1>8, <1>9, <1>10, <1>11, <1>12, <1>13, <1>14, <1>15
     DEF Next, Continue, Acquire

(* Every variable of the login sessions keeps to its values, for any       *)
(* goroutines and limits: a name drawn for a session or an account is one. *)
THEOREM TypeCorrect == Spec => []TypeOK
<1>1. Init => TypeInv
  BY DEF Init, TypeInv, TypeOK, Referring
<1>2. TypeInv => TypeOK
  BY DEF TypeInv
<1>3. TypeInv /\ (PollInv /\ DoneInv) /\ AccountInv /\ SlotInv /\ SlotInv' /\ [Next]_vars => TypeInv'
  BY TypeStep
<1> HIDE DEF TypeInv, PollInv, DoneInv, AccountInv, SlotInv
<1> QED BY <1>1, <1>2, <1>3, SlotInit, SlotStep, AccountInvariance, PollInvariance, PTL DEF Spec
=============================================================================
