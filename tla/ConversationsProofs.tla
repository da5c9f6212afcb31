------------------------ MODULE ConversationsProofs -------------------------
(***************************************************************************)
(* Theorems about the four conversations: the points query, the chat, the  *)
(* dial and the login dialog, for any lists, figures, answers and addresses. *)
(***************************************************************************)
EXTENDS PointsQuery, ChatCall, DialOut, LoginDialog, FiniteSetTheorems,
        SequenceTheorems, WellFoundedInduction, TLAPS

(***************************************************************************)
(* Induction over the numbers up to n, with a set for the property and a   *)
(* function for what each step does: what recursive functions are shown by. *)
(***************************************************************************)

LEMMA LeastNatural ==
  ASSUME NEW T \in SUBSET Nat, T # {}
  PROVE  \E n \in T : \A m \in T : n <= m
<1>1. PICK x \in T : \A y \in T : ~ (<<y, x>> \in OpToRel(<, Nat))
  BY NatLessThanWellFounded, WFMin
<1>2. ASSUME NEW y \in T, y < x PROVE FALSE
  <2>1. <<y, x>> \in {ss \in Nat \X Nat : ss[1] < ss[2]}
    BY <1>2
  <2> QED BY <1>1, <2>1 DEF OpToRel
<1> QED BY <1>2

LEMMA SetInduction ==
  ASSUME NEW T \in SUBSET Nat, NEW n \in Nat, 0 \in T,
         \A i \in 1 .. n : i - 1 \in T => i \in T
  PROVE  n \in T
<1> SUFFICES ASSUME n \notin T PROVE FALSE
  OBVIOUS
<1> DEFINE M == {i \in 0 .. n : i \notin T}
<1>1. M \in SUBSET Nat /\ n \in M
  OBVIOUS
<1>2. PICK m \in M : \A k \in M : m <= k
  BY <1>1, LeastNatural
<1>3. m \in 1 .. n /\ m - 1 \in 0 .. n /\ m - 1 \notin M
  BY <1>2
<1> QED BY <1>2, <1>3

(* A function can be defined step by step.                                 *)
LEMMA StepwiseFunction ==
  ASSUME NEW X, NEW first \in X, NEW n \in Nat, NEW F \in [1 .. n -> [X -> X]]
  PROVE  \E f \in [0 .. n -> X] : f[0] = first /\ \A i \in 1 .. n : f[i] = F[i][f[i - 1]]
<1> DEFINE Is(k, f) == f[0] = first /\ \A i \in 1 .. k : f[i] = F[i][f[i - 1]]
           T == {k \in 0 .. n : \E f \in [0 .. k -> X] : Is(k, f)}
<1>1. 0 \in T
  <2> DEFINE f == [i \in 0 .. 0 |-> first]
  <2>1. f \in [0 .. 0 -> X] /\ Is(0, f)
    OBVIOUS
  <2> HIDE DEF f, Is
  <2>2. \E h \in [0 .. 0 -> X] : Is(0, h)
    BY <2>1
  <2> QED BY <2>2
<1>2. ASSUME NEW k \in 1 .. n, k - 1 \in T PROVE k \in T
  <2>1. PICK f \in [0 .. (k - 1) -> X] : Is(k - 1, f)
    BY <1>2
  <2> DEFINE g == [i \in 0 .. k |-> IF i = k THEN F[k][f[k - 1]] ELSE f[i]]
  <2>2. f[k - 1] \in X
    OBVIOUS
  <2>3. F[k][f[k - 1]] \in X
    BY <2>2
  <2>4. g \in [0 .. k -> X]
    BY <2>3
  <2>5. g[0] = first
    BY <2>1
  <2>6. \A i \in 1 .. k : g[i] = F[i][g[i - 1]]
    BY <2>1
  <2> HIDE DEF g
  <2>7. Is(k, g)
    BY <2>5, <2>6
  <2> HIDE DEF Is
  <2> QED BY <2>4, <2>7
<1> HIDE DEF T
<1>3. T \in SUBSET Nat
  BY DEF T
<1>4. n \in T
  BY <1>1, <1>2, <1>3, SetInduction
<1> QED BY <1>4 DEF T

Stepwise(X, n) ==
  \A first \in X : \A F \in [1 .. n -> [X -> X]] :
    \E f \in [0 .. n -> X] : f[0] = first /\ \A i \in 1 .. n : f[i] = F[i][f[i - 1]]

LEMMA StepwiseAlways == ASSUME NEW X, NEW n \in Nat PROVE Stepwise(X, n)
<1> SUFFICES ASSUME NEW first \in X, NEW F \in [1 .. n -> [X -> X]]
             PROVE  \E f \in [0 .. n -> X] : f[0] = first /\ \A i \in 1 .. n : f[i] = F[i][f[i - 1]]
  BY DEF Stepwise
<1> QED BY StepwiseFunction

-----------------------------------------------------------------------------
(***************************************************************************)
(* PointsQuery: what a query gives for any packages, figures and pages.    *)
(***************************************************************************)

LEMMA CycleBounds ==
  ASSUME NEW f \in Figures, f.cycleSize >= 0
  PROVE  LET v == CycleValues(f)
         IN  /\ v.remain \in Int /\ v.used \in Int /\ v.total \in Int
             /\ 0 <= v.remain /\ v.remain <= v.total
             /\ v.total <= v.remain + v.used
<1>1. f.cycleRemain \in Int /\ f.cycleUsed \in Int /\ f.cycleSize \in Int
  BY DEF Figures
<1> DEFINE remain == Least(Most(f.cycleRemain, 0), f.cycleSize)
           used == Most(f.cycleUsed, f.cycleSize - remain)
<1>2. remain \in Int /\ 0 <= remain /\ remain <= f.cycleSize
  BY <1>1 DEF Least, Most
<1>3. used \in Int /\ f.cycleSize - remain <= used
  BY <1>1, <1>2 DEF Most
<1>4. CycleValues(f) = [total  |-> f.cycleSize, used |-> used,
                        remain |-> IF used > f.cycleSize - remain /\ used <= f.cycleSize
                                     THEN f.cycleSize - used ELSE remain]
  BY DEF CycleValues
<1> HIDE DEF remain, used
<1> QED BY <1>1, <1>2, <1>3, <1>4

LEMMA PlainBounds ==
  ASSUME NEW f \in Figures
  PROVE  LET v == PlainValues(f)
         IN  /\ v.remain \in Int /\ v.used \in Int /\ v.total \in Int
             /\ 0 <= v.remain
             /\ v.total > 0 => v.remain <= v.total
             /\ f.used = 0 => v.total <= v.remain + v.used
  BY DEF Figures, PlainValues, Least, Most

(* packageValues: whatever figures a service gives, the remaining part of  *)
(* a package that has a size lies between nothing and that size.           *)
THEOREM PackageValuesCovered ==
  ASSUME NEW f \in Figures, f.cycleSize >= 0
  PROVE  LET v == PackageValues(f)
         IN  v.total > 0 => 0 <= v.remain /\ v.remain <= v.total
  BY CycleBounds, PlainBounds DEF PackageValues

(* packageValues: figures of a cycle are made consistent upwards, nothing  *)
(* of the size is unaccounted for.                                         *)
THEOREM CycleAccounted ==
  ASSUME NEW f \in Figures, f.cycleSize > 0
  PROVE  LET v == PackageValues(f) IN v.total <= v.remain + v.used
<1>1. f.cycleSize >= 0 /\ PackageValues(f) = CycleValues(f)
  BY DEF Figures, PackageValues
<1> QED BY <1>1, CycleBounds

(* Points never succeeds with fewer packages than the service has named,   *)
(* for any list, page length and change of the list between two requests.  *)
THEOREM NothingMissing == Spec => []NeverPartial
<1>1. Init => NeverPartial
  BY DEF Init, NeverPartial
<1>2. NeverPartial /\ [Next]_vars => NeverPartial'
  <2> SUFFICES ASSUME NeverPartial, [Next]_vars PROVE NeverPartial'
    OBVIOUS
  <2>1. CASE Answer
    <3>1. PICK total \in Totals :
            LET known == IF total = Unknown THEN expected ELSE total
                list  == PageOf(page)
            IN  IF Misplaced(total) THEN End("protocol", expected)
                ELSE IF list = <<>> THEN Empty(known) ELSE Take(known, list)
      BY <2>1 DEF Answer
    <3> DEFINE known == IF total = Unknown THEN expected ELSE total
               list == PageOf(page)
    <3>2. CASE End("protocol", expected)
      BY <3>2 DEF End, NeverPartial
    <3>3. CASE Empty(known)
      BY <3>3 DEF Empty, End, NeverPartial
    <3>4. CASE Take(known, list)
      <4> HIDE DEF known, list
      <4>1. got' = got \o list /\ expected' = known
        BY <3>4 DEF Take
      <4>2. phase' = "done" /\ known # Unknown => Len(got \o list) = known
        BY <3>4 DEF Take, Complete, Further
      <4>3. Len(got') \in Int => NeverPartial'
        BY <4>1, <4>2 DEF NeverPartial
      <4> QED BY <4>1, <4>2, <4>3 DEF NeverPartial
    <3> QED BY <3>1, <3>2, <3>3, <3>4
  <2>2. CASE Fail
    BY <2>2 DEF Fail, End, NeverPartial
  <2>3. CASE Drift
    BY <2>3 DEF Drift, NeverPartial
  <2>4. CASE UNCHANGED vars
    BY <2>4 DEF vars, NeverPartial
  <2> QED BY <2>1, <2>2, <2>3, <2>4 DEF Next
<1> QED BY <1>1, <1>2, PTL DEF Spec

LEMMA ListTyped == List \in Seq(Packages)
<1> DEFINE X == Seq(Packages)
           G(i, s) == IF i \in present THEN Append(s, i) ELSE s
           F == [i \in 1 .. Count |-> [s \in X |-> G(i, s)]]
           Body(g) == [n \in 0 .. Count |-> IF n = 0 THEN <<>> ELSE G(n, g[n - 1])]
<1>1. ASSUME NEW i \in 1 .. Count, NEW s \in X PROVE G(i, s) \in X
  <2>1. i \in Packages /\ Append(s, i) \in Seq(Packages)
    BY AppendProperties DEF Packages
  <2> QED BY <2>1
<1>2. <<>> \in X /\ Count \in Nat
  BY BoundsAssumption
<1>3. ListTo = CHOOSE g : g = Body(g)
  BY DEF ListTo
<1> HIDE DEF X, G
<1>4. F \in [1 .. Count -> [X -> X]] /\ \A i \in 1 .. Count, s \in X : F[i][s] = G(i, s)
  BY <1>1
<1> HIDE DEF F
<1>5. PICK f \in [0 .. Count -> X] :
        f[0] = <<>> /\ \A i \in 1 .. Count : f[i] = F[i][f[i - 1]]
  <2>1. Stepwise(X, Count)
    BY <1>2, StepwiseAlways
  <2> QED BY <1>2, <1>4, <2>1 DEF Stepwise
<1>6. \A i \in 1 .. Count : f[i] = G(i, f[i - 1])
  BY <1>2, <1>4, <1>5
<1>7. f = Body(f)
  BY <1>5, <1>6
<1>8. ListTo = Body(ListTo)
  BY <1>3, <1>7
<1> DEFINE T == {n \in 0 .. Count : ListTo[n] \in X}
<1>9. 0 \in T
  BY <1>2, <1>8 DEF Packages
<1>10. ASSUME NEW i \in 1 .. Count, i - 1 \in T PROVE i \in T
  <2>1. ListTo[i] = G(i, ListTo[i - 1])
    BY <1>2, <1>8
  <2> QED BY <1>1, <1>10, <2>1
<1>11. T \in SUBSET Nat
  OBVIOUS
<1> HIDE DEF T
<1>12. Count \in T
  BY <1>2, <1>9, <1>10, <1>11, SetInduction
<1> QED BY <1>12 DEF List, T, X

(* Sums of a balance between nothing and the total.                        *)
Covers == {s \in Sums : 0 <= s.balance /\ s.balance <= s.total}

LEMMA ValuesTyped ==
  ASSUME NEW f \in Figures
  PROVE  LET v == PackageValues(f)
         IN v.remain \in Int /\ v.used \in Int /\ v.total \in Int
<1>1. LET v == CycleValues(f) IN v.remain \in Int /\ v.used \in Int /\ v.total \in Int
  BY DEF Figures, CycleValues, Least, Most
<1> QED BY <1>1, PlainBounds DEF PackageValues

(* The next package adds whole numbers.                                    *)
LEMMA AddTyped ==
  ASSUME NEW q \in Packages, NEW s \in Sums
  PROVE  Add(s, PackageValues(Raw[q])) \in Sums
<1> DEFINE v == PackageValues(Raw[q])
<1>1. v.remain \in Int /\ v.used \in Int /\ v.total \in Int
  BY RawAssumption, ValuesTyped
<1> HIDE DEF v
<1>2. Add(s, v) \in Sums
  BY <1>1 DEF Add, Sums
<1> QED BY <1>2 DEF v

(* The next package keeps the sum covered.                                 *)
LEMMA AddCovered ==
  ASSUME Sized, NEW q \in Packages, NEW s \in Covers
  PROVE  Add(s, PackageValues(Raw[q])) \in Covers
<1> DEFINE f == Raw[q]
           v == PackageValues(f)
<1>1. f \in Figures /\ f.cycleSize >= 0 /\ v.total > 0
  BY RawAssumption DEF Sized
<1>2. v.remain \in Int /\ v.used \in Int /\ v.total \in Int
  BY <1>1, ValuesTyped
<1>3. 0 <= v.remain /\ v.remain <= v.total
  BY <1>1, PackageValuesCovered
<1> HIDE DEF v
<1>4. s.balance \in Int /\ s.used \in Int /\ s.total \in Int
      /\ 0 <= s.balance /\ s.balance <= s.total
  BY DEF Covers, Sums
<1>5. Add(s, v) = [balance |-> s.balance + v.remain, used |-> s.used + v.used,
                   total |-> s.total + v.total]
  BY DEF Add
<1>6. Add(s, v) \in Sums /\ 0 <= Add(s, v).balance /\ Add(s, v).balance <= Add(s, v).total
  BY <1>2, <1>3, <1>4, <1>5 DEF Sums
<1> QED BY <1>6 DEF Covers, v

(* Whatever a set of sums every package keeps, a page keeps.               *)
KeptByAdd(X) == \A q \in Packages, s \in X : Add(s, PackageValues(Raw[q])) \in X

LEMMA AddedIn ==
  ASSUME NEW X, sum \in X, NEW list \in Seq(Packages), KeptByAdd(X)
  PROVE  Added(list) \in X
<1> PICK L \in Nat : L = Len(list)
  OBVIOUS
<1> DEFINE G(i, s) == Add(s, PackageValues(Raw[list[i]]))
           F == [i \in 1 .. L |-> [s \in X |-> G(i, s)]]
           Body(g) == [n \in 0 .. L |-> IF n = 0 THEN sum ELSE G(n, g[n - 1])]
           S == CHOOSE g : g = Body(g)
<1>1. ASSUME NEW i \in 1 .. L, NEW s \in X PROVE G(i, s) \in X
  <2>1. list[i] \in Packages
    OBVIOUS
  <2> QED BY <2>1 DEF KeptByAdd
<1>2. sum \in X /\ L \in Nat
  OBVIOUS
<1>3. Added(list) = S[L]
  BY DEF Added
<1> HIDE DEF G
<1>4. F \in [1 .. L -> [X -> X]] /\ \A i \in 1 .. L, s \in X : F[i][s] = G(i, s)
  BY <1>1
<1> HIDE DEF F
<1>5. PICK f \in [0 .. L -> X] :
        f[0] = sum /\ \A i \in 1 .. L : f[i] = F[i][f[i - 1]]
  <2>1. Stepwise(X, L)
    BY <1>2, StepwiseAlways
  <2> QED BY <1>2, <1>4, <2>1 DEF Stepwise
<1>6. \A i \in 1 .. L : f[i] = G(i, f[i - 1])
  BY <1>2, <1>4, <1>5
<1>7. f = Body(f)
  BY <1>5, <1>6
<1>8. S = Body(S)
  BY <1>7
<1> HIDE DEF S
<1> DEFINE T == {n \in 0 .. L : S[n] \in X}
<1>9. 0 \in T
  BY <1>2, <1>8
<1>10. ASSUME NEW i \in 1 .. L, i - 1 \in T PROVE i \in T
  <2>1. S[i] = G(i, S[i - 1])
    BY <1>2, <1>8
  <2> QED BY <1>1, <1>10, <2>1
<1>11. T \in SUBSET Nat
  OBVIOUS
<1> HIDE DEF T
<1>12. L \in T
  BY <1>2, <1>9, <1>10, <1>11, SetInduction
<1> QED BY <1>3, <1>12 DEF T

(* The packages of one page, and what a query knows before it.             *)
LEMMA PageTyped ==
  ASSUME TypeOK
  PROVE  PageOf(page) \in Seq(Packages)
<1> PICK s \in Seq(Packages) : s = List
  BY ListTyped
<1> PICK m \in Int : m = (page - 1) * cap + 1
  BY BoundsAssumption DEF TypeOK
<1>1. cap \in Nat \ {0} /\ page \in Nat \ {0}
  BY BoundsAssumption DEF TypeOK
<1>2. m >= 1
  BY <1>1
<1> PICK e \in Int : e = Least(page * cap, Len(List))
  BY <1>1 DEF Least
<1>3. e <= Len(s)
  BY <1>1 DEF Least
<1>4. SubSeq(s, m, e) \in Seq(Packages)
  BY <1>2, <1>3
<1> QED BY <1>4 DEF PageOf

LEMMA PointsTypeStep == TypeOK /\ [Next]_vars => TypeOK'
<1> SUFFICES ASSUME TypeOK, [Next]_vars PROVE TypeOK'
  OBVIOUS
<1> USE DEF TypeOK
<1> USE BoundsAssumption
<1>1. CASE Answer
  <2>1. PICK total \in Totals :
          LET known == IF total = Unknown THEN expected ELSE total
              list  == PageOf(page)
          IN  IF Misplaced(total) THEN End("protocol", expected)
              ELSE IF list = <<>> THEN Empty(known) ELSE Take(known, list)
    BY <1>1 DEF Answer
  <2> DEFINE known == IF total = Unknown THEN expected ELSE total
             list == PageOf(page)
  <2>2. present' = present /\ cap' = cap /\ changed' = changed
    BY <1>1 DEF Answer
  <2>3. CASE Misplaced(total) /\ End("protocol", expected)
    BY <2>2, <2>3 DEF End
  <2>4. ~Misplaced(total) => known \in {Unknown} \cup 0 .. PageSize * MaxPages
    <3>1. total = Unknown \/ total \in Nat
      BY ListTyped DEF Totals
    <3>2. PageSize * MaxPages \in Nat
      OBVIOUS
    <3>3. CASE total = Unknown
      BY <3>3
    <3>4. CASE total # Unknown /\ ~Misplaced(total)
      BY <3>1, <3>2, <3>4 DEF Misplaced
    <3> QED BY <3>3, <3>4
  <2>5. CASE ~Misplaced(total) /\ Empty(known)
    <3> HIDE DEF known
    <3>1. phase' \in {"done", "protocol"} /\ expected' = known /\ page' = page /\ got' = got
          /\ sum' = sum
      BY <2>5 DEF Empty, End
    <3> QED BY <2>2, <2>4, <2>5, <3>1
  <2>6. CASE ~Misplaced(total) /\ Take(known, list)
    <3> HIDE DEF known, list
    <3>1. list \in Seq(Packages)
      BY PageTyped DEF list
    <3>2. got' = got \o list /\ expected' = known /\ sum' = Added(list)
      BY <2>6 DEF Take
    <3>3. phase' \in {"protocol", "done", "ask"} /\ (phase' = "ask" => page # MaxPages)
      BY <2>6 DEF Take, Further
    <3>4. page' = IF phase' = "ask" THEN page + 1 ELSE page
      BY <2>6 DEF Take
    <3>5. page' \in 1 .. MaxPages
      BY <3>3, <3>4
    <3>6. sum' \in Sums
      BY <3>1, <3>2, AddTyped, AddedIn DEF KeptByAdd
    <3> QED BY <2>2, <2>4, <2>6, <3>1, <3>2, <3>3, <3>5, <3>6
  <2> QED BY <2>1, <2>3, <2>5, <2>6
<1>2. CASE Fail
  BY <1>2 DEF Fail, End
<1>3. CASE Drift
  BY <1>3 DEF Drift
<1>4. CASE UNCHANGED vars
  BY <1>4 DEF vars
<1> QED BY <1>1, <1>2, <1>3, <1>4 DEF Next

LEMMA LeastBetween ==
  ASSUME NEW m \in Nat, NEW n \in Nat, NEW c \in Nat, m <= n
  PROVE  Least(m + c, n) \in Nat /\ m <= Least(m + c, n) /\ Least(m + c, n) <= n
  BY DEF Least

(* The first m of a list and the next c, or what is left, are its start.   *)
LEMMA StartExtended ==
  ASSUME NEW X, NEW s \in Seq(X), NEW n \in Nat, n = Len(s), NEW m \in Nat, m <= n,
         NEW e \in Nat, m <= e, e <= n
  PROVE  /\ Len(SubSeq(s, m + 1, e)) = e - m
         /\ SubSeq(s, 1, m) \o SubSeq(s, m + 1, e) = SubSeq(s, 1, e)
         /\ Len(SubSeq(s, 1, e)) = e
<1>1. SubSeq(s, 1, m) \o SubSeq(s, m + 1, e) = SubSeq(s, 1, e)
  <2>1. 1 \in 1 .. Len(s) + 1 /\ m \in 1 - 1 .. Len(s) /\ e \in m .. Len(s)
    OBVIOUS
  <2> QED BY <2>1, ConcatAdjacentSubSeq
<1> QED BY <1>1

(* Pages that were full: the next one begins where they end.               *)
LEMMA PageProducts ==
  ASSUME TypeOK
  PROVE  /\ (page - 1) * cap \in Nat /\ page * cap = (page - 1) * cap + cap
         /\ (page + 1 - 1) * cap = page * cap
         /\ cap * MaxPages <= PageSize * MaxPages
         /\ cap \in Nat \ {0} /\ cap <= PageSize
<1>1. cap \in Nat \ {0} /\ page \in Nat \ {0} /\ cap <= PageSize
  BY BoundsAssumption DEF TypeOK
<1>2. MaxPages \in Nat /\ PageSize \in Nat
  BY BoundsAssumption
<1>3. page - 1 \in Nat /\ page = (page - 1) + 1
  BY <1>1
<1>4. \A x, y \in Nat : x * y \in Nat /\ (x + 1) * y = x * y + y
  OBVIOUS
<1>5. \A x, y, z \in Nat : x <= y => x * z <= y * z
  <2> TAKE x, y, z \in Nat
  <2> HAVE x <= y
  <2>1. y = x + (y - x) /\ y - x \in Nat
    OBVIOUS
  <2>2. \A u, v, w \in Nat : (u + v) * w = u * w + v * w
    OBVIOUS
  <2> QED BY <2>1, <2>2, <1>4
<1>6. page + 1 - 1 = page
  BY <1>1
<1> QED BY <1>1, <1>2, <1>3, <1>4, <1>5, <1>6

(* While the list stands still, the pages so far were full and hold its    *)
(* first packages, and the number that was named is its length.            *)
PagesSoFar ==
  phase = "ask" /\ ~changed =>
    /\ (page - 1) * cap <= Len(List)
    /\ got = SubSeq(List, 1, (page - 1) * cap)
    /\ expected \in {Unknown, Len(List)}

QueryInv == TypeOK /\ PagesSoFar /\ StableExact /\ RefusedForCause

LEMMA QueryInit == Init => QueryInv
<1> SUFFICES ASSUME Init PROVE QueryInv
  OBVIOUS
<1> USE BoundsAssumption DEF Init
<1>1. TypeOK
  <2>1. 1 \in 1 .. MaxPages /\ got \in Seq(Packages) /\ sum \in Sums
    BY DEF Sums, Nothing
  <2> QED BY <2>1 DEF TypeOK
<1>2. (page - 1) * cap = 0 /\ Len(List) \in Nat
  <2>1. cap \in Int /\ \A x \in Int : (1 - 1) * x = 0
    OBVIOUS
  <2> QED BY <2>1, ListTyped
<1>3. SubSeq(List, 1, 0) = <<>>
  BY SubSeqEmpty
<1>4. PagesSoFar
  BY <1>2, <1>3 DEF PagesSoFar
<1> QED BY <1>1, <1>4 DEF QueryInv, StableExact, RefusedForCause

(* The list is a matter of the packages there are.                         *)
LEMMA ListStays == present' = present => List' = List
  BY DEF List, ListTo

LEMMA NextPage ==
  ASSUME TypeOK, page' = page + 1, cap' = cap
  PROVE  (page' - 1) * cap' = page * cap
<1>1. page \in Int /\ cap \in Int
  BY BoundsAssumption DEF TypeOK
<1>2. page' - 1 = page
  BY <1>1
<1> QED BY <1>1, <1>2

(* Two stretches of the list, one behind the other, are one.               *)
Splits(m, e) ==
  /\ Len(SubSeq(List, m + 1, e)) = e - m
  /\ SubSeq(List, 1, m) \o SubSeq(List, m + 1, e) = SubSeq(List, 1, e)
  /\ Len(SubSeq(List, 1, e)) = e

LEMMA ListSplits ==
  ASSUME NEW m \in Nat, NEW e \in Nat, m <= e, e <= Len(List)
  PROVE  Splits(m, e)
<1> PICK n \in Nat : n = Len(List)
  BY ListTyped
<1>1. m <= n /\ e <= n
  OBVIOUS
<1> QED BY <1>1, ListTyped, StartExtended DEF Splits

(* What a page adds, of a list that stands still.                          *)
LEMMA PageAdds ==
  ASSUME TypeOK, PagesSoFar, phase = "ask", ~changed
  PROVE  \E m, n, c, e \in Nat :
           /\ m = (page - 1) * cap /\ n = Len(List) /\ c = cap /\ c >= 1 /\ c <= PageSize
           /\ page * cap = m + c
           /\ m <= n /\ e = (IF m + c < n THEN m + c ELSE n) /\ m <= e /\ e <= n
           /\ Len(got) = m /\ got = SubSeq(List, 1, m)
           /\ Len(PageOf(page)) = e - m
           /\ got \o PageOf(page) = SubSeq(List, 1, e)
           /\ Len(got \o PageOf(page)) = e
<1> PICK m \in Nat : m = (page - 1) * cap
  BY PageProducts
<1> PICK n \in Nat : n = Len(List)
  BY ListTyped
<1> PICK c \in Nat : c = cap
  BY PageProducts
<1>1. c >= 1 /\ c <= PageSize /\ page * cap = m + c
  BY PageProducts
<1>2. m <= n /\ got = SubSeq(List, 1, m)
  BY DEF PagesSoFar
<1> PICK e \in Nat : e = (IF m + c < n THEN m + c ELSE n)
  OBVIOUS
<1>3. m <= e /\ e <= n
  BY <1>1, <1>2
<1>4. PageOf(page) = SubSeq(List, m + 1, e)
  BY <1>1 DEF PageOf, Least
<1>5. Len(got) = m
  BY <1>2
<1>6. /\ Len(SubSeq(List, m + 1, e)) = e - m
      /\ SubSeq(List, 1, m) \o SubSeq(List, m + 1, e) = SubSeq(List, 1, e)
      /\ Len(SubSeq(List, 1, e)) = e
  <2>1. m <= n /\ m <= e /\ e <= n
    BY <1>2, <1>3
  <2>2. Splits(m, e)
    BY <2>1, ListSplits
  <2> QED BY <2>2 DEF Splits
<1>7. /\ m = (page - 1) * cap /\ n = Len(List) /\ c = cap /\ c >= 1 /\ c <= PageSize
      /\ page * cap = m + c
      /\ m <= n /\ e = (IF m + c < n THEN m + c ELSE n) /\ m <= e /\ e <= n
      /\ Len(got) = m /\ got = SubSeq(List, 1, m)
  BY <1>1, <1>2, <1>3, <1>5
<1>8. /\ Len(PageOf(page)) = e - m
      /\ got \o PageOf(page) = SubSeq(List, 1, e)
      /\ Len(got \o PageOf(page)) = e
  BY <1>2, <1>4, <1>6
<1> QED BY <1>7, <1>8

LEMMA AnswerStep ==
  ASSUME QueryInv, TypeOK', Answer
  PROVE  PagesSoFar' /\ StableExact' /\ RefusedForCause'
<1> USE DEF QueryInv
<1>9. \A m, n, c, e, k \in Nat :
        e = (IF m + c < n THEN m + c ELSE n) /\ e - m < k => e = n \/ c # k
  OBVIOUS
<1>1. present' = present /\ cap' = cap /\ changed' = changed /\ phase = "ask" /\ List' = List
  BY ListStays DEF Answer
<1> SUFFICES ASSUME ~changed PROVE PagesSoFar' /\ StableExact' /\ RefusedForCause'
  BY <1>1 DEF PagesSoFar, StableExact, RefusedForCause
<1> PICK m, n, c, e \in Nat :
           /\ m = (page - 1) * cap /\ n = Len(List) /\ c = cap /\ c >= 1 /\ c <= PageSize
           /\ page * cap = m + c
           /\ m <= n /\ e = (IF m + c < n THEN m + c ELSE n) /\ m <= e /\ e <= n
           /\ Len(got) = m /\ got = SubSeq(List, 1, m)
           /\ Len(PageOf(page)) = e - m
           /\ got \o PageOf(page) = SubSeq(List, 1, e)
           /\ Len(got \o PageOf(page)) = e
  BY <1>1, PageAdds
<1>2. expected \in {Unknown, n} /\ n # Unknown
  BY <1>1 DEF PagesSoFar, Unknown
<1>3. SubSeq(List, 1, n) = List
  BY ListTyped, SubSeqFull
<1>4. c * MaxPages <= PageSize * MaxPages
  BY PageProducts
<1>5. PICK total \in {Unknown, n} :
          LET known == IF total = Unknown THEN expected ELSE total
              list  == PageOf(page)
          IN  IF Misplaced(total) THEN End("protocol", expected)
              ELSE IF list = <<>> THEN Empty(known) ELSE Take(known, list)
  BY DEF Answer, Totals
<1> PICK known \in {Unknown, n} : known = IF total = Unknown THEN expected ELSE total
  BY <1>2
<1> DEFINE list == PageOf(page)
<1>6. CASE Misplaced(total)
  <2>1. n > PageSize * MaxPages
    BY <1>2, <1>6 DEF Misplaced
  <2>2. phase' = "protocol"
    BY <1>5, <1>6 DEF End
  <2>3. n > c * MaxPages
    <3>1. c * MaxPages \in Int /\ PageSize * MaxPages \in Int
      BY BoundsAssumption
    <3> QED BY <1>4, <2>1, <3>1
  <2> QED BY <1>1, <2>2, <2>3 DEF PagesSoFar, StableExact, RefusedForCause
<1>7. CASE ~Misplaced(total) /\ list = <<>> /\ Empty(known)
  <2>1. e = m
    BY <1>7
  <2>2. n = m
    BY <2>1
  <2>3. got = List
    BY <1>3, <2>2
  <2>4. phase' = "done" /\ got' = got
    BY <1>7, <2>2 DEF Empty, End
  <2> QED BY <1>1, <2>3, <2>4 DEF PagesSoFar, StableExact, RefusedForCause
<1>8. CASE ~Misplaced(total) /\ list # <<>> /\ Take(known, list)
  <2> DEFINE all == got \o list
  <2>1. got' = SubSeq(List, 1, e) /\ expected' = known
    BY <1>8 DEF Take
  <2>2. ~(known # Unknown /\ e > known)
    BY <1>2
  <2>3. CASE Complete(known, all, list)
    <3>1. phase' = "done"
      BY <1>8, <2>2, <2>3 DEF Take
    <3>2. e = n \/ (known = Unknown /\ c # PageSize)
      <4>1. CASE known # Unknown
        BY <1>2, <2>3, <4>1 DEF Complete
      <4>2. CASE known = Unknown
        <5>1. e - m < PageSize
          BY <2>3, <4>2 DEF Complete
        <5>2. PageSize \in Nat
          BY BoundsAssumption
        <5> QED BY <1>9, <4>2, <5>1, <5>2, Zenon
      <4> QED BY <4>1, <4>2
    <3> QED BY <1>1, <1>3, <2>1, <3>1, <3>2 DEF PagesSoFar, StableExact, RefusedForCause
  <2>4. CASE ~Complete(known, all, list)
    <3>1. phase' = Further
      BY <1>8, <2>2, <2>4 DEF Take
    <3>2. e = m + c /\ (known # Unknown => e < n) /\ (known = Unknown => c = PageSize)
      BY <1>2, <2>4, BoundsAssumption DEF Complete
    <3>3. CASE page = MaxPages
      <4>1. phase' = "protocol" /\ page' = MaxPages
        BY <1>8, <3>1, <3>3 DEF Take, Further
      <4>2. MaxPages * cap = e
        BY <3>2, <3>3
      <4>3. cap * MaxPages = e
        <5>1. cap \in Nat /\ MaxPages \in Nat
          BY BoundsAssumption
        <5>2. \A x, y \in Nat : x * y = y * x
          OBVIOUS
        <5> QED BY <4>2, <5>1, <5>2
      <4>4. n > cap * MaxPages \/ (n = cap * MaxPages /\ known = Unknown /\ cap = PageSize)
        BY <1>2, <3>2, <4>3
      <4> QED BY <1>1, <2>1, <4>1, <4>4 DEF PagesSoFar, StableExact, RefusedForCause
    <3>4. CASE page # MaxPages
      <4>1. phase' = "ask" /\ page' = page + 1
        BY <1>8, <3>1, <3>4 DEF Take, Further
      <4>2. (page' - 1) * cap' = e
        BY <1>1, <3>2, <4>1, NextPage
      <4> QED BY <1>1, <2>1, <4>1, <4>2 DEF PagesSoFar, StableExact, RefusedForCause
    <3> QED BY <3>3, <3>4
  <2> QED BY <2>3, <2>4
<1> QED BY <1>5, <1>6, <1>7, <1>8

LEMMA QueryStep == QueryInv /\ [Next]_vars => QueryInv'
<1> SUFFICES ASSUME QueryInv, [Next]_vars PROVE QueryInv'
  OBVIOUS
<1>1. TypeOK'
  BY PointsTypeStep DEF QueryInv
<1>2. CASE Answer
  BY <1>1, <1>2, AnswerStep DEF QueryInv
<1>3. CASE Fail
  BY <1>1, <1>3 DEF QueryInv, Fail, End, PagesSoFar, StableExact, RefusedForCause
<1>4. CASE Drift
  BY <1>1, <1>4 DEF QueryInv, Drift, PagesSoFar, StableExact, RefusedForCause
<1>5. CASE UNCHANGED vars
  BY <1>1, <1>5, ListStays DEF QueryInv, vars, PagesSoFar, StableExact, RefusedForCause
<1> QED BY <1>2, <1>3, <1>4, <1>5 DEF Next

(* Every variable of the query keeps to its values.                        *)
THEOREM QueryTyped == Spec => []TypeOK
<1>1. QueryInv => TypeOK
  BY DEF QueryInv
<1> QED BY <1>1, QueryInit, QueryStep, PTL DEF Spec

(* A query of a list that stands still sums up exactly its packages, or is *)
(* refused because the pages cannot hold them or their number is not       *)
(* named, and none succeeds with less than was named: for any list, any    *)
(* page length and any bound of pages (Points).                            *)
THEOREM QueryExact == Spec => []ExactOrRefused
<1>1. QueryInv => StableExact /\ RefusedForCause
  BY DEF QueryInv
<1>2. StableExact /\ RefusedForCause /\ NeverPartial => ExactOrRefused
  BY DEF ExactOrRefused
<1> QED BY <1>1, <1>2, QueryInit, QueryStep, NothingMissing, PTL DEF Spec

(* The sum that a query has reached lies between nothing and the total.    *)
THEOREM BalanceAlwaysCovered == Spec => []BalanceCovered
<1> DEFINE CoverInv == Sized => sum \in Covers
<1>1. Init => CoverInv
  BY DEF Init, Nothing, Covers, Sums
<1>2. QueryInv /\ CoverInv /\ [Next]_vars => CoverInv'
  <2> SUFFICES ASSUME QueryInv, Sized, sum \in Covers, [Next]_vars PROVE sum' \in Covers
    BY DEF Sized
  <2>1. CASE sum' = sum
    BY <2>1
  <2>2. CASE sum' = Added(PageOf(page))
    <3>1. PageOf(page) \in Seq(Packages) /\ KeptByAdd(Covers)
      BY PageTyped, AddCovered DEF QueryInv, KeptByAdd
    <3> QED BY <2>2, <3>1, AddedIn
  <2>3. sum' = sum \/ sum' = Added(PageOf(page))
    BY DEF Next, vars, Answer, Fail, Drift, End, Empty, Take
  <2> QED BY <2>1, <2>2, <2>3
<1>3. CoverInv => BalanceCovered
  BY DEF BalanceCovered, Covers
<1> QED BY <1>1, <1>2, <1>3, QueryInit, QueryStep, PTL DEF Spec

-----------------------------------------------------------------------------
(***************************************************************************)
(* ChatCall: what is reported of a chat, for any answer.                   *)
(***************************************************************************)

Talks == {Local(1), Local(2), Server(1), Server(2)}

(* Each attempt sends at most one chat, in a conversation of its own; what *)
(* is reported is the conversation of the last chat.                       *)
TalkInv ==
  /\ attempt \in 1 .. 2
  /\ at \in {"register", "chat", "stream", "report", "refresh", "over"}
  /\ at = "refresh" => attempt = 1
  /\ chats \in Seq(Talks)
  /\ Len(chats) = IF at \in {"register", "chat"} THEN attempt - 1 ELSE attempt
  /\ \A i \in DOMAIN chats : chats[i] \in {Local(i), Server(i)}
  /\ at # "register" => conv \in {Local(attempt), Server(attempt)}
  /\ at \notin {"register", "chat"} => conv = chats[Len(chats)]

ReportInv ==
  /\ unknown \subseteq 1 .. attempt
  /\ at = "register" => attempt \notin unknown
  /\ at # "register" => (unregistered <=> attempt \in unknown)
  /\ verdict \in Failures \cup {"none", "answered"}
  /\ verdict = "answered" => at \in {"report", "over"}
  /\ at = "report" => verdict = "answered"
  /\ at = "over" /\ verdict = "answered" =>
       /\ reported = {conv}
       /\ "conversation" \in warnings <=> unregistered
  /\ at # "over" \/ verdict # "answered" => reported = {}

LEMMA TalkersDiffer ==
  ASSUME NEW i \in Nat, NEW j \in Nat, i # j,
         NEW c \in {Local(i), Server(i)}, NEW d \in {Local(j), Server(j)}
  PROVE  c # d
  BY DEF Local, Server

LEMMA TalkStep == TalkInv /\ [ChatNext]_chatVars => TalkInv'
<1> SUFFICES ASSUME TalkInv, [ChatNext]_chatVars PROVE TalkInv'
  OBVIOUS
<1>a. attempt \in {1, 2} /\ attempt \in Nat
  BY DEF TalkInv
<1>1. ASSUME Register \/ RegisterFails PROVE TalkInv'
  <2>1. /\ at = "register" /\ at' = "chat" /\ UNCHANGED <<attempt, chats>>
        /\ conv' \in {Local(attempt), Server(attempt)}
    BY <1>1 DEF Register, RegisterFails, Registered
  <2> QED BY <2>1 DEF TalkInv
<1>2. ASSUME NEW kind \in Failures, FailWith(kind)
      PROVE  /\ at' \in {"refresh", "over"} /\ UNCHANGED <<attempt, conv>>
             /\ at' = "refresh" => attempt = 1
  BY <1>2 DEF FailWith
<1>3. ASSUME ChatAnswered \/ ChatFails PROVE TalkInv'
  <2>1. /\ at = "chat" /\ at' \in {"stream", "refresh", "over"}
        /\ UNCHANGED <<attempt, conv>> /\ chats' = Append(chats, conv)
        /\ at' = "refresh" => attempt = 1
    BY <1>2, <1>3 DEF ChatAnswered, ChatFails
  <2>2. conv \in {Local(attempt), Server(attempt)} /\ conv \in Talks /\ Len(chats) = attempt - 1
    BY <1>a, <2>1 DEF TalkInv, Talks
  <2>3. chats \in Seq(Talks) /\ \A i \in DOMAIN chats : chats[i] \in {Local(i), Server(i)}
    BY DEF TalkInv
  <2>4. chats' \in Seq(Talks) /\ Len(chats') = attempt /\ chats'[Len(chats')] = conv
    BY <1>a, <2>1, <2>2, <2>3
  <2>7. /\ DOMAIN chats' = 1 .. attempt /\ DOMAIN chats = 1 .. attempt - 1
        /\ \A i \in 1 .. attempt - 1 : chats'[i] = chats[i]
    BY <1>a, <2>1, <2>2, <2>3
  <2>5. \A i \in DOMAIN chats' : \/ i \in DOMAIN chats /\ chats'[i] = chats[i]
                                 \/ i = attempt /\ chats'[i] = conv
    <3>1. \A i \in DOMAIN chats' : i \in 1 .. attempt - 1 \/ i = attempt
      BY <1>a, <2>7
    <3>2. \A i \in DOMAIN chats' : i = attempt => chats'[i] = conv
      BY <2>4
    <3>3. \A i \in 1 .. attempt - 1 : i \in DOMAIN chats /\ chats'[i] = chats[i]
      BY <2>7
    <3> QED BY <3>1, <3>2, <3>3
  <2>6. \A i \in DOMAIN chats' : chats'[i] \in {Local(i), Server(i)}
    BY <2>2, <2>3, <2>5
  <2> QED BY <1>a, <2>1, <2>2, <2>4, <2>6 DEF TalkInv
<1>4. ASSUME at \in {"stream", "report"}, UNCHANGED <<attempt, conv, chats>>,
             at' \in {"stream", "report", "refresh", "over"},
             at' = "refresh" => attempt = 1
      PROVE  TalkInv'
  BY <1>4 DEF TalkInv
<1>5. ASSUME NEW line \in LineKinds, Read(line) PROVE TalkInv'
  <2>1. at = "stream" /\ UNCHANGED <<attempt, conv, chats>> /\ at' \in {"stream", "refresh", "over"}
         /\ (at' = "refresh" => attempt = 1)
    BY <1>2, <1>5 DEF Read, EndEvent
  <2> QED BY <1>4, <2>1
<1>9. ASSUME NEW STATE found, Conclude(found)
      PROVE  /\ UNCHANGED <<attempt, conv, chats>> /\ at' \in {"report", "refresh", "over"}
             /\ at' = "refresh" => attempt = 1
  <2>1. "protocol" \in Failures
    BY DEF Failures
  <2> QED BY <1>2, <1>9, <2>1 DEF Conclude
<1>6. ASSUME EndOfStream \/ PlainBody \/ Report PROVE TalkInv'
  <2> DEFINE Goes == /\ at \in {"stream", "report"} /\ UNCHANGED <<attempt, conv, chats>>
                     /\ at' \in {"report", "refresh", "over"}
                     /\ at' = "refresh" => attempt = 1
  <2>1. Goes
    <3>1. ASSUME Report PROVE Goes
      BY <3>1 DEF Report
    <3>2. ASSUME EndOfStream PROVE Goes
      <4>1. at = "stream" /\ Conclude(LastEvent)
        BY <3>2 DEF EndOfStream
      <4> QED BY <1>9, <4>1
    <3>3. ASSUME PlainBody PROVE Goes
      <4>1. PICK body \in Whole \cup {"void"} :
              Conclude(IF body = "void" THEN "skipped" ELSE CheckEvent("none", <<body>>))
        BY <3>3 DEF PlainBody
      <4>2. at = "stream"
        BY <3>3 DEF PlainBody
      <4> QED BY <1>9, <4>1, <4>2
    <3> QED BY <1>6, <3>1, <3>2, <3>3
  <2> QED BY <1>4, <2>1
<1>7. ASSUME Refreshed \/ RefreshFails PROVE TalkInv'
  <2>1. CASE RefreshFails
    BY <2>1 DEF RefreshFails, TalkInv
  <2>2. CASE Refreshed
    <3>1. at = "refresh" /\ at' = "register" /\ attempt' = 2 /\ UNCHANGED chats
      BY <2>2 DEF Refreshed
    <3>2. Len(chats) = 1
      BY <3>1 DEF TalkInv
    <3> QED BY <3>1, <3>2 DEF TalkInv
  <2> QED BY <1>7, <2>1, <2>2
<1>8. ASSUME UNCHANGED chatVars PROVE TalkInv'
  BY <1>8 DEF chatVars, TalkInv
<1> QED BY <1>1, <1>3, <1>5, <1>6, <1>7, <1>8 DEF ChatNext

LEMMA ReportStep == TalkInv /\ ReportInv /\ [ChatNext]_chatVars => ReportInv'
<1> SUFFICES ASSUME TalkInv, ReportInv, [ChatNext]_chatVars PROVE ReportInv'
  OBVIOUS
<1>a. attempt \in {1, 2}
  BY DEF TalkInv
<1>1. CASE Register
  BY <1>1, <1>a DEF Register, Registered, ReportInv, TalkInv
<1>2. CASE RegisterFails
  BY <1>2, <1>a DEF RegisterFails, Registered, ReportInv, TalkInv
<1>3. ASSUME NEW kind \in Failures, FailWith(kind), at \in {"chat", "stream"} PROVE ReportInv'
  <2>1. /\ UNCHANGED <<attempt, conv, unregistered, warnings, unknown, reported>>
        /\ at' \in {"refresh", "over"} /\ verdict' \in {verdict, kind}
    BY <1>3 DEF FailWith
  <2>2. kind # "answered" /\ verdict # "answered" /\ kind \in Failures \cup {"none", "answered"}
    BY <1>3 DEF ReportInv, Failures
  <2> QED BY <1>3, <2>1, <2>2 DEF ReportInv
<1>4. ASSUME at \in {"chat", "stream"}, at' = "stream",
             UNCHANGED <<attempt, conv, unregistered, verdict, warnings, unknown, reported>>
      PROVE  ReportInv'
  BY <1>4 DEF ReportInv
<1>5. CASE ChatAnswered \/ ChatFails
  BY <1>3, <1>4, <1>5 DEF ChatAnswered, ChatFails
<1>6. ASSUME NEW line \in LineKinds, Read(line) PROVE ReportInv'
  <2>1. at = "stream"
    BY <1>6 DEF Read
  <2> QED BY <1>3, <1>4, <1>6, <2>1 DEF Read, EndEvent
<1>7. ASSUME NEW STATE found, Conclude(found), at = "stream" PROVE ReportInv'
  <2>1. CASE \E kind \in Failures : FailWith(kind)
    BY <1>3, <1>7, <2>1
  <2>2. CASE /\ at' = "report" /\ verdict' = "answered"
             /\ UNCHANGED <<attempt, conv, unregistered, warnings, unknown, reported>>
    BY <1>7, <2>2 DEF ReportInv
  <2>3. "protocol" \in Failures
    BY DEF Failures
  <2> QED BY <1>7, <2>1, <2>2, <2>3 DEF Conclude
<1>8. CASE EndOfStream
  BY <1>7, <1>8 DEF EndOfStream
<1>9. CASE PlainBody
  <2>1. PICK body \in Whole \cup {"void"} :
          Conclude(IF body = "void" THEN "skipped" ELSE CheckEvent("none", <<body>>))
    BY <1>9 DEF PlainBody
  <2>2. at = "stream"
    BY <1>9 DEF PlainBody
  <2> QED BY <1>7, <2>1, <2>2
<1>10. CASE Report
  <2>1. PICK failed \in BOOLEAN : warnings' = Warnings(failed)
    BY <1>10 DEF Report
  <2>2. "conversation" \in warnings' <=> unregistered
    BY <2>1 DEF Warnings
  <2>3. /\ at = "report" /\ at' = "over" /\ reported' = reported \cup {conv}
        /\ UNCHANGED <<attempt, conv, unregistered, verdict, unknown>>
    BY <1>10 DEF Report
  <2>4. reported' = {conv}
    BY <2>3 DEF ReportInv
  <2> QED BY <2>2, <2>3, <2>4 DEF ReportInv
<1>11. CASE Refreshed
  BY <1>11 DEF Refreshed, ReportInv, TalkInv
<1>12. CASE RefreshFails
  BY <1>12 DEF RefreshFails, ReportInv, Failures
<1>13. CASE UNCHANGED chatVars
  BY <1>13 DEF chatVars, ReportInv
<1> QED BY <1>1, <1>2, <1>5, <1>6, <1>8, <1>9, <1>10, <1>11, <1>12, <1>13 DEF ChatNext

LEMMA TalkInvariance == ChatSpec => [](TalkInv /\ ReportInv)
<1>1. ChatInit => TalkInv /\ ReportInv
  BY DEF ChatInit, TalkInv, ReportInv
<1> QED BY <1>1, TalkStep, ReportStep, PTL DEF ChatSpec

(* ActiveChatWithResult: each attempt talks in a conversation of its own,  *)
(* and report and warning are about that of the answered chat.             *)
THEOREM ChatTalksApart == ChatSpec => []ChatOwnConversation
<1>1. TalkInv /\ ReportInv => ChatOwnConversation
  <2> SUFFICES ASSUME TalkInv, ReportInv PROVE ChatOwnConversation
    OBVIOUS
  <2>1. ASSUME NEW i \in DOMAIN chats, NEW j \in DOMAIN chats, chats[i] = chats[j] PROVE i = j
    <3>1. i \in Nat /\ j \in Nat
      BY DEF TalkInv
    <3> QED BY <2>1, <3>1, TalkersDiffer DEF TalkInv
  <2>2. \A c \in reported : verdict = "answered" /\ c = chats[Len(chats)]
    BY DEF TalkInv, ReportInv
  <2>3. at = "over" /\ verdict = "answered" =>
          reported # {} /\ ("conversation" \in warnings <=> attempt \in unknown)
    BY DEF TalkInv, ReportInv
  <2> QED BY <2>1, <2>2, <2>3 DEF ChatOwnConversation
<1> QED BY <1>1, TalkInvariance, PTL

Trouble == {"dead", "refused", "junk"}

LEMMA PacketFacts ==
  ASSUME NEW data \in Seq(DataLines)
  PROVE  /\ Packet(data) \in Whole
         /\ Packet(data) \notin Trouble => \A k \in DOMAIN data : data[k] \notin Trouble
         /\ Packet(data) = "answer" =>
              \/ \E k \in DOMAIN data : data[k] = "answer"
              \/ \E k, m \in DOMAIN data : k < m /\ data[k] = "head" /\ data[m] = "tail"
         /\ Len(data) = 1 /\ data[1] \in Whole => Packet(data) = data[1]
         /\ data = <<>> => Packet(data) = "junk"
<1> DEFINE parts == {i \in DOMAIN data : data[i] # "void"}
<1> USE DEF Whole, Trouble
<1>1. CASE \E i \in parts : parts = {i} /\ data[i] \in Whole
  <2>1. PICK i \in parts : parts = {i} /\ data[i] \in Whole
    BY <1>1
  <2>2. Packet(data) = data[i]
    <3>1. (CHOOSE n \in parts : TRUE) = i
      BY <2>1
    <3>2. Packet(data) = data[CHOOSE n \in parts : TRUE]
      BY <1>1 DEF Packet
    <3> QED BY <3>1, <3>2
  <2>3. \A k \in DOMAIN data : data[k] = "void" \/ k = i
    BY <2>1
  <2> QED BY <2>1, <2>2, <2>3
<1>2. CASE /\ ~ \E i \in parts : parts = {i} /\ data[i] \in Whole
           /\ \E i, j \in parts : parts = {i, j} /\ i < j /\ data[i] = "head" /\ data[j] = "tail"
  <2>1. PICK i \in parts, j \in parts : parts = {i, j} /\ i < j /\ data[i] = "head" /\ data[j] = "tail"
    BY <1>2
  <2>2. Packet(data) = "answer"
    BY <1>2 DEF Packet
  <2>3. \A k \in DOMAIN data : data[k] = "void" \/ k = i \/ k = j
    BY <2>1
  <2>4. \A k \in DOMAIN data : data[k] \notin Trouble
    BY <2>1, <2>3
  <2>5. ~ (Len(data) = 1 /\ data[1] \in Whole)
    BY <2>1
  <2> QED BY <2>1, <2>2, <2>4, <2>5
<1>3. CASE /\ ~ \E i \in parts : parts = {i} /\ data[i] \in Whole
           /\ ~ \E i, j \in parts : parts = {i, j} /\ i < j /\ data[i] = "head" /\ data[j] = "tail"
  <2>1. Packet(data) = "junk"
    BY <1>3 DEF Packet
  <2>2. ~ (Len(data) = 1 /\ data[1] \in Whole)
    <3> SUFFICES ASSUME Len(data) = 1, data[1] \in Whole PROVE FALSE
      OBVIOUS
    <3>1. DOMAIN data = {1}
      OBVIOUS
    <3>2. parts = {1}
      BY <3>1
    <3> QED BY <1>3, <3>2
  <2> QED BY <2>1, <2>2
<1> QED BY <1>1, <1>2, <1>3

LEMMA EventFacts ==
  ASSUME NEW data \in Seq(DataLines), NEW name
  PROVE  LET found == CheckEvent(name, data)
         IN  /\ found \in {"skipped", "protocol", "dead", "refused", "answer"}
             /\ found \notin Failures => \A k \in DOMAIN data : data[k] \notin Trouble
             /\ found = "answer" =>
                  \/ \E k \in DOMAIN data : data[k] = "answer"
                  \/ \E k, m \in DOMAIN data : k < m /\ data[k] = "head" /\ data[m] = "tail"
             /\ /\ Len(data) <= 1 /\ \A k \in DOMAIN data : data[k] \in Whole
                /\ data # <<>> => name # "event: error"
                => /\ found \in Failures => \E k \in DOMAIN data : data[k] \in Trouble
                   /\ (\E k \in DOMAIN data : data[k] = "answer") => found = "answer"
<1> DEFINE packet == Packet(data)
<1>1. packet \in Whole
  BY PacketFacts
<1>2. CASE data = <<>>
  <2>1. CheckEvent(name, data) = "skipped"
    BY <1>2, PacketFacts DEF CheckEvent
  <2> QED BY <1>2, <2>1 DEF Failures
<1>3. CASE data # <<>>
  <2>1. CheckEvent(name, data) =
          CASE packet = "done" -> "skipped"
            [] packet = "junk" -> "protocol"
            [] packet \in {"dead", "refused"} -> packet
            [] packet \in {"answer", "mute"} ->
                 IF name = "event: error" THEN "refused"
                 ELSE IF packet = "answer" THEN "answer" ELSE "skipped"
    BY <1>1, <1>3 DEF CheckEvent, Whole
  <2> DEFINE found == CheckEvent(name, data)
  <2>2. /\ found \in {"skipped", "protocol", "dead", "refused", "answer"}
        /\ found \notin Failures => packet \notin Trouble
        /\ found = "answer" => packet = "answer"
        /\ found \in Failures => packet \in Trouble \/ name = "event: error"
        /\ packet = "answer" /\ name # "event: error" => found = "answer"
    <3> HIDE DEF packet
    <3> QED BY <1>1, <2>1 DEF Whole, Failures, Trouble
  <2>3. Len(data) <= 1 /\ (\A k \in DOMAIN data : data[k] \in Whole) =>
          1 \in DOMAIN data /\ packet = data[1] /\ \A k \in DOMAIN data : k = 1
    <3> SUFFICES ASSUME Len(data) <= 1, \A k \in DOMAIN data : data[k] \in Whole
                 PROVE  1 \in DOMAIN data /\ packet = data[1] /\ \A k \in DOMAIN data : k = 1
      OBVIOUS
    <3>2. Len(data) \in Nat /\ Len(data) # 0
      BY <1>3, EmptySeq
    <3>3. Len(data) = 1
      <4>1. \A n \in Nat : n # 0 /\ n <= 1 => n = 1
        OBVIOUS
      <4> QED BY <3>2, <4>1, Zenon
    <3>1. Len(data) = 1 /\ DOMAIN data = {1}
      BY <3>3
    <3> QED BY <3>1, PacketFacts
  <2> HIDE DEF found, packet
  <2>4. /\ packet \notin Trouble => \A k \in DOMAIN data : data[k] \notin Trouble
        /\ packet = "answer" =>
              \/ \E k \in DOMAIN data : data[k] = "answer"
              \/ \E k, m \in DOMAIN data : k < m /\ data[k] = "head" /\ data[m] = "tail"
    BY PacketFacts DEF packet
  <2>5. /\ found \notin Failures => \A k \in DOMAIN data : data[k] \notin Trouble
        /\ found = "answer" =>
              \/ \E k \in DOMAIN data : data[k] = "answer"
              \/ \E k, m \in DOMAIN data : k < m /\ data[k] = "head" /\ data[m] = "tail"
    BY <2>2, <2>4
  <2>6. /\ Len(data) <= 1 /\ \A k \in DOMAIN data : data[k] \in Whole
        /\ data # <<>> => name # "event: error"
        => /\ found \in Failures => \E k \in DOMAIN data : data[k] \in Trouble
           /\ (\E k \in DOMAIN data : data[k] = "answer") => found = "answer"
    BY <1>3, <2>2, <2>3
  <2> QED BY <2>2, <2>5, <2>6 DEF found
<1> QED BY <1>2, <1>3

(* A line of the event that has not ended yet.                             *)
Open(i) == i \in DOMAIN lines /\ \A k \in DOMAIN lines : lines[k] = "blank" => k < i

JudgeTyped ==
  /\ lines \in Seq(LineKinds)
  /\ eventName \in Names \cup {"none"}
  /\ dataLines \in Seq(DataLines)
  /\ sawAnswer \in BOOLEAN

(* What the judge keeps of an event is in the lines of the event.          *)
EventInv ==
  /\ \A k \in DOMAIN dataLines : \E i \in DOMAIN lines : Open(i) /\ lines[i] = dataLines[k]
  /\ \A k, m \in DOMAIN dataLines : k < m =>
       \E i, j \in DOMAIN lines :
         i < j /\ Open(i) /\ Open(j) /\ lines[i] = dataLines[k] /\ lines[j] = dataLines[m]
  /\ eventName # "none" => \E i \in DOMAIN lines : Open(i) /\ lines[i] = eventName
  /\ sawAnswer => Answered \/ Split

(* What it may not forget: trouble is still to be looked at, an answer is  *)
(* so or was seen.                                                         *)
StreamInv ==
  /\ at \in {"register", "chat"} => Silence
  /\ at = "stream" =>
       /\ \A i \in DOMAIN lines : lines[i] \in Trouble =>
            \E k \in DOMAIN dataLines : dataLines[k] = lines[i]
       /\ Regular /\ Answered => sawAnswer \/ \E k \in DOMAIN dataLines : dataLines[k] = "answer"

VerdictInv ==
  /\ verdict = "answered" => (Answered \/ Split) /\ ~Troubled
  /\ at \in {"refresh", "over"} /\ verdict # "answered" /\ lines # <<>> /\ Regular =>
       Troubled \/ ~Answered

JudgeInv == JudgeTyped /\ EventInv /\ StreamInv /\ VerdictInv

-----------------------------------------------------------------------------
LEMMA FirstOfSome ==
  ASSUME NEW S, NEW s \in Seq(S), s # <<>>
  PROVE  1 \in DOMAIN s
<1>1. Len(s) \in Nat /\ Len(s) # 0
  BY EmptySeq
<1>2. DOMAIN s = 1 .. Len(s)
  OBVIOUS
<1>3. \A n \in Nat : n # 0 => 1 \in 1 .. n
  OBVIOUS
<1> QED BY <1>1, <1>2, <1>3, Zenon

LEMMA OpenTogether ==
  ASSUME NEW i, NEW j, Open(i), Open(j)
  PROVE  SameEvent(i, j)
  BY DEF Open, SameEvent

(* The event at hand of a well-formed answer.                              *)
LEMMA OneWhole ==
  ASSUME JudgeTyped, EventInv, Regular
  PROVE  /\ Len(dataLines) <= 1 /\ \A k \in DOMAIN dataLines : dataLines[k] \in Whole
         /\ dataLines # <<>> => eventName # "event: error"
<1>1. ASSUME NEW k \in DOMAIN dataLines PROVE dataLines[k] \in Whole
  <2>1. PICK i \in DOMAIN lines : Open(i) /\ lines[i] = dataLines[k]
    BY DEF EventInv
  <2>2. dataLines \in Seq(DataLines)
    BY DEF JudgeTyped
  <2>3. dataLines[k] \in DataLines
    BY <2>2
  <2>4. lines[i] \notin {"head", "tail", "void"}
    BY <2>1 DEF Regular
  <2> QED BY <2>1, <2>3, <2>4 DEF DataLines
<1>2. ASSUME NEW k \in DOMAIN dataLines, NEW m \in DOMAIN dataLines, k < m PROVE FALSE
  <2>1. PICK i \in DOMAIN lines, j \in DOMAIN lines :
           i < j /\ Open(i) /\ Open(j) /\ lines[i] = dataLines[k] /\ lines[j] = dataLines[m]
    BY <1>2 DEF EventInv
  <2>2. lines[i] \in Whole /\ lines[j] \in Whole
    BY <1>1, <2>1
  <2>3. i # j
    BY <2>1 DEF JudgeTyped
  <2> QED BY <2>1, <2>2, <2>3, OpenTogether DEF Regular
<1>3. Len(dataLines) <= 1
  <2>1. Len(dataLines) \in Nat /\ DOMAIN dataLines = 1 .. Len(dataLines)
    BY DEF JudgeTyped
  <2>2. \A n \in Nat : ~(n <= 1) => 1 \in 1 .. n /\ 2 \in 1 .. n
    OBVIOUS
  <2>3. 1 < 2
    OBVIOUS
  <2> QED BY <1>2, <2>1, <2>2, <2>3, Zenon
<1>4. ASSUME dataLines # <<>>, eventName = "event: error" PROVE FALSE
  <2>1. 1 \in DOMAIN dataLines
    <3>1. dataLines \in Seq(DataLines)
      BY DEF JudgeTyped
    <3> QED BY <1>4, <3>1, FirstOfSome
  <2>2. PICK i \in DOMAIN lines : Open(i) /\ lines[i] = dataLines[1]
    BY <2>1 DEF EventInv
  <2>3. PICK j \in DOMAIN lines : Open(j) /\ lines[j] = "event: error"
    BY <1>4 DEF EventInv
  <2>4. lines[i] \in Whole /\ "event: error" \notin Whole
    BY <1>1, <2>1, <2>2 DEF Whole
  <2> QED BY <2>2, <2>3, <2>4, OpenTogether DEF Regular
<1> QED BY <1>1, <1>3, <1>4

(* A line more.                                                            *)
LEMMA LineMore ==
  ASSUME JudgeTyped, NEW line \in LineKinds, lines' = Append(lines, line)
  PROVE  /\ lines' \in Seq(LineKinds)
         /\ DOMAIN lines \subseteq DOMAIN lines'
         /\ \A i \in DOMAIN lines : lines'[i] = lines[i] /\ i < Len(lines) + 1
         /\ Len(lines) + 1 \in DOMAIN lines' /\ lines'[Len(lines) + 1] = line
         /\ \A i \in DOMAIN lines' : i \in DOMAIN lines \/ i = Len(lines) + 1
         /\ DOMAIN lines \subseteq Nat /\ Len(lines) \in Nat
<1>1. lines \in Seq(LineKinds)
  BY DEF JudgeTyped
<1> QED BY <1>1

LEMMA WellFormedBefore ==
  ASSUME JudgeTyped, NEW line \in LineKinds, lines' = Append(lines, line)
  PROVE  /\ Regular' => Regular
         /\ Answered' <=> Answered \/ line = "answer"
         /\ Split => Split'
         /\ Troubled' <=> Troubled \/ line \in Trouble
<1>1. \A i, j \in DOMAIN lines : SameEvent(i, j) => SameEvent(i, j)'
  <2> SUFFICES ASSUME NEW i \in DOMAIN lines, NEW j \in DOMAIN lines, SameEvent(i, j),
                      NEW k \in DOMAIN lines', lines'[k] = "blank"
               PROVE  k < i <=> k < j
    BY DEF SameEvent
  <2>1. CASE k \in DOMAIN lines
    BY <2>1, LineMore DEF SameEvent
  <2>2. CASE k = Len(lines) + 1
    <3>1. ~ (k < i) /\ ~ (k < j)
      <4>1. \A x, y \in Nat : y < x + 1 => ~(x + 1 < y)
        OBVIOUS
      <4> QED BY <2>2, <4>1, LineMore
    <3> QED BY <3>1
  <2> QED BY <2>1, <2>2, LineMore
<1>2. Regular' => Regular
  BY <1>1, LineMore DEF Regular
<1>3. Split => Split'
  BY LineMore DEF Split
<1>4. Answered' <=> Answered \/ line = "answer"
  BY LineMore DEF Answered
<1>5. Troubled' <=> Troubled \/ line \in Trouble
  BY LineMore DEF Troubled, Trouble
<1> QED BY <1>2, <1>3, <1>4, <1>5

LEMMA DataMore ==
  ASSUME JudgeTyped, NEW line \in DataLines, dataLines' = Append(dataLines, line)
  PROVE  /\ dataLines' \in Seq(DataLines)
         /\ \A k \in DOMAIN dataLines : k \in DOMAIN dataLines' /\ dataLines'[k] = dataLines[k]
         /\ \A k \in DOMAIN dataLines' :
              k \in DOMAIN dataLines \/ (k = Len(dataLines) + 1 /\ dataLines'[k] = line)
         /\ Len(dataLines) + 1 \in DOMAIN dataLines' /\ dataLines'[Len(dataLines) + 1] = line
         /\ \A k, m \in DOMAIN dataLines' : k < m => k \in DOMAIN dataLines
<1>1. dataLines \in Seq(DataLines)
  BY DEF JudgeTyped
<1>2. /\ dataLines' \in Seq(DataLines) /\ Len(dataLines') = Len(dataLines) + 1
      /\ Len(dataLines) \in Nat
      /\ DOMAIN dataLines = 1 .. Len(dataLines) /\ DOMAIN dataLines' = 1 .. Len(dataLines) + 1
      /\ \A k \in DOMAIN dataLines : dataLines'[k] = dataLines[k]
      /\ dataLines'[Len(dataLines) + 1] = line
  BY <1>1
<1>3. \A n \in Nat : /\ n + 1 \in 1 .. n + 1
                     /\ \A k \in 1 .. n + 1 : k \in 1 .. n \/ k = n + 1
                     /\ \A k \in 1 .. n : k \in 1 .. n + 1
                     /\ \A k, m \in 1 .. n + 1 : k < m => k \in 1 .. n
  OBVIOUS
<1> QED BY <1>2, <1>3, Zenon

LEMMA OpenStays ==
  ASSUME JudgeTyped, NEW line \in LineKinds, line # "blank", lines' = Append(lines, line)
  PROVE  /\ \A i \in DOMAIN lines : Open(i) => Open(i)'
         /\ \A n : n = Len(lines) + 1 => Open(n)'
<1>1. /\ \A k \in DOMAIN lines : k \in DOMAIN lines' /\ lines'[k] = lines[k] /\ k < Len(lines) + 1
      /\ Len(lines) + 1 \in DOMAIN lines'
      /\ \A k \in DOMAIN lines' : k \in DOMAIN lines \/ lines'[k] = line
  BY LineMore
<1>2. \A k \in DOMAIN lines' : lines'[k] = "blank" => k \in DOMAIN lines /\ lines[k] = "blank"
  BY <1>1
<1>3. \A i \in DOMAIN lines : Open(i) => Open(i)'
  BY <1>1, <1>2 DEF Open
<1>4. ASSUME NEW n, n = Len(lines) + 1 PROVE Open(n)'
  BY <1>1, <1>2, <1>4 DEF Open
<1> QED BY <1>3, <1>4

LEMMA EventGoesOn ==
  ASSUME JudgeTyped, EventInv, NEW line \in LineKinds, line # "blank",
         lines' = Append(lines, line), sawAnswer' = sawAnswer,
         eventName' = IF line \in Names THEN line ELSE eventName,
         dataLines' = IF line \in DataLines THEN Append(dataLines, line) ELSE dataLines
  PROVE  EventInv'
<1> PICK n : n = Len(lines) + 1
  OBVIOUS
<1>1. /\ \A i \in DOMAIN lines : Open(i) => i \in DOMAIN lines' /\ Open(i)' /\ lines'[i] = lines[i] /\ i < n
      /\ n \in DOMAIN lines' /\ Open(n)' /\ lines'[n] = line
  BY OpenStays, LineMore
<1>2. eventName' # "none" => \E i \in DOMAIN lines' : Open(i)' /\ lines'[i] = eventName'
  <2>1. CASE line \in Names
    BY <1>1, <2>1
  <2>2. CASE line \notin Names
    BY <1>1, <2>2 DEF EventInv
  <2> QED BY <2>1, <2>2
<1>3. sawAnswer' => Answered' \/ Split'
  BY WellFormedBefore DEF EventInv
<1>4. CASE line \notin DataLines
  <2>1. dataLines' = dataLines
    BY <1>4
  <2>2. ASSUME NEW k \in DOMAIN dataLines' PROVE \E i \in DOMAIN lines' : Open(i)' /\ lines'[i] = dataLines'[k]
    <3>1. PICK i \in DOMAIN lines : Open(i) /\ lines[i] = dataLines[k]
      BY <2>1 DEF EventInv
    <3> QED BY <1>1, <2>1, <3>1
  <2>3. ASSUME NEW k \in DOMAIN dataLines', NEW m \in DOMAIN dataLines', k < m
        PROVE  \E i, j \in DOMAIN lines' : i < j /\ Open(i)' /\ Open(j)'
                  /\ lines'[i] = dataLines'[k] /\ lines'[j] = dataLines'[m]
    <3>1. PICK i \in DOMAIN lines, j \in DOMAIN lines :
            i < j /\ Open(i) /\ Open(j) /\ lines[i] = dataLines[k] /\ lines[j] = dataLines[m]
      BY <2>1, <2>3 DEF EventInv
    <3> QED BY <1>1, <2>1, <3>1
  <2> QED BY <1>2, <1>3, <2>2, <2>3 DEF EventInv
<1>5. CASE line \in DataLines
  <2>1. dataLines' = Append(dataLines, line)
    BY <1>5
  <2>2. ASSUME NEW k \in DOMAIN dataLines' PROVE \E i \in DOMAIN lines' : Open(i)' /\ lines'[i] = dataLines'[k]
    <3>1. CASE k \in DOMAIN dataLines
      <4>1. PICK i \in DOMAIN lines : Open(i) /\ lines[i] = dataLines[k]
        BY <3>1 DEF EventInv
      <4>2. dataLines'[k] = dataLines[k]
        BY <1>5, <2>1, <3>1, DataMore
      <4> QED BY <1>1, <4>1, <4>2
    <3>2. CASE k \notin DOMAIN dataLines
      <4>1. dataLines'[k] = line
        BY <1>5, <2>1, <3>2, DataMore
      <4> QED BY <1>1, <4>1
    <3> QED BY <3>1, <3>2
  <2>3. ASSUME NEW k \in DOMAIN dataLines', NEW m \in DOMAIN dataLines', k < m
        PROVE  \E i, j \in DOMAIN lines' : i < j /\ Open(i)' /\ Open(j)'
                  /\ lines'[i] = dataLines'[k] /\ lines'[j] = dataLines'[m]
    <3>1. k \in DOMAIN dataLines /\ dataLines'[k] = dataLines[k]
      BY <1>5, <2>1, <2>3, DataMore
    <3>2. CASE m \in DOMAIN dataLines
      <4>1. PICK i \in DOMAIN lines, j \in DOMAIN lines :
              i < j /\ Open(i) /\ Open(j) /\ lines[i] = dataLines[k] /\ lines[j] = dataLines[m]
        BY <2>3, <3>1, <3>2 DEF EventInv
      <4>2. dataLines'[m] = dataLines[m]
        BY <1>5, <2>1, <3>2, DataMore
      <4> QED BY <1>1, <3>1, <4>1, <4>2
    <3>3. CASE m \notin DOMAIN dataLines
      <4>1. PICK i \in DOMAIN lines : Open(i) /\ lines[i] = dataLines[k]
        BY <3>1 DEF EventInv
      <4>2. dataLines'[m] = line
        BY <1>5, <2>1, <3>3, DataMore
      <4> QED BY <1>1, <3>1, <4>1, <4>2
    <3> QED BY <3>2, <3>3
  <2> QED BY <1>2, <1>3, <2>2, <2>3 DEF EventInv
<1> QED BY <1>4, <1>5

LEMMA ReadLine ==
  ASSUME JudgeInv, ReportInv, NEW line \in LineKinds, line # "blank", Read(line)
  PROVE  JudgeInv'
<1>1. /\ at = "stream" /\ at' = "stream" /\ lines' = Append(lines, line)
      /\ sawAnswer' = sawAnswer /\ verdict' = verdict
      /\ eventName' = IF line \in Names THEN line ELSE eventName
      /\ dataLines' = IF line \in DataLines THEN Append(dataLines, line) ELSE dataLines
  BY DEF Read
<1>2. JudgeTyped /\ EventInv /\ verdict # "answered"
  BY <1>1 DEF JudgeInv, ReportInv
<1>3. JudgeTyped'
  <2>1. lines' \in Seq(LineKinds)
    BY <1>1, <1>2, LineMore
  <2>2. dataLines' \in Seq(DataLines)
    <3>1. dataLines \in Seq(DataLines)
      BY <1>2 DEF JudgeTyped
    <3> QED BY <1>1, <1>2, <3>1, DataMore
  <2> QED BY <1>1, <1>2, <2>1, <2>2 DEF JudgeTyped
<1>4. EventInv'
  BY <1>1, <1>2, EventGoesOn
<1>5. StreamInv'
  <2>1. \A k \in DOMAIN dataLines : k \in DOMAIN dataLines' /\ dataLines'[k] = dataLines[k]
    BY <1>1, <1>2, DataMore
  <2>2. line \in DataLines => \E k \in DOMAIN dataLines' : dataLines'[k] = line
    BY <1>1, <1>2, DataMore
  <2>3. Trouble \subseteq DataLines /\ "answer" \in DataLines
    BY DEF Trouble, DataLines, Whole
  <2>4. ASSUME NEW i \in DOMAIN lines', lines'[i] \in Trouble
        PROVE  \E k \in DOMAIN dataLines' : dataLines'[k] = lines'[i]
    <3>1. CASE i \in DOMAIN lines
      <4>1. lines'[i] = lines[i]
        BY <1>1, <1>2, <3>1, LineMore
      <4>2. PICK k \in DOMAIN dataLines : dataLines[k] = lines[i]
        BY <1>1, <2>4, <3>1, <4>1 DEF JudgeInv, StreamInv
      <4> QED BY <2>1, <4>1, <4>2
    <3>2. CASE i \notin DOMAIN lines
      <4>1. lines'[i] = line
        BY <1>1, <1>2, <3>2, LineMore
      <4> QED BY <2>2, <2>3, <2>4, <4>1
    <3> QED BY <3>1, <3>2
  <2>5. ASSUME Regular', Answered'
        PROVE  sawAnswer' \/ \E k \in DOMAIN dataLines' : dataLines'[k] = "answer"
    <3>1. Regular /\ (Answered \/ line = "answer")
      BY <1>1, <1>2, <2>5, WellFormedBefore
    <3>2. CASE Answered
      BY <1>1, <2>1, <3>1, <3>2 DEF JudgeInv, StreamInv
    <3>3. CASE line = "answer"
      BY <2>2, <2>3, <3>3
    <3> QED BY <3>1, <3>2, <3>3
  <2> QED BY <1>1, <2>4, <2>5 DEF StreamInv
<1>6. VerdictInv'
  BY <1>1, <1>2 DEF VerdictInv
<1> QED BY <1>3, <1>4, <1>5, <1>6 DEF JudgeInv

(* What the end of the event at hand says about the whole answer.          *)
LEMMA EventJudged ==
  ASSUME JudgeInv, at = "stream"
  PROVE  LET found == CheckEvent(eventName, dataLines)
         IN  /\ found \in {"skipped", "protocol", "dead", "refused", "answer"}
             /\ found \notin Failures => ~Troubled
             /\ found = "answer" => Answered \/ Split
             /\ Regular /\ found \in Failures => Troubled
             /\ Regular /\ Answered => found \in Failures \/ sawAnswer \/ found = "answer"
<1> DEFINE found == CheckEvent(eventName, dataLines)
<1>1. JudgeTyped /\ EventInv /\ dataLines \in Seq(DataLines)
  BY DEF JudgeInv, JudgeTyped
<1>2. /\ found \in {"skipped", "protocol", "dead", "refused", "answer"}
      /\ found \notin Failures => \A k \in DOMAIN dataLines : dataLines[k] \notin Trouble
      /\ found = "answer" =>
           \/ \E k \in DOMAIN dataLines : dataLines[k] = "answer"
           \/ \E k, m \in DOMAIN dataLines : k < m /\ dataLines[k] = "head" /\ dataLines[m] = "tail"
      /\ Regular => /\ found \in Failures => \E k \in DOMAIN dataLines : dataLines[k] \in Trouble
                    /\ (\E k \in DOMAIN dataLines : dataLines[k] = "answer") => found = "answer"
  BY <1>1, EventFacts, OneWhole
<1> HIDE DEF found
<1>3. found \notin Failures => ~Troubled
  BY <1>2 DEF JudgeInv, StreamInv, Troubled, Trouble
<1>4. found = "answer" => Answered \/ Split
  <2>1. (\E k \in DOMAIN dataLines : dataLines[k] = "answer") => Answered
    BY <1>1 DEF EventInv, Answered
  <2>2. (\E k, m \in DOMAIN dataLines : k < m /\ dataLines[k] = "head" /\ dataLines[m] = "tail") => Split
    <3> SUFFICES ASSUME NEW k \in DOMAIN dataLines, NEW m \in DOMAIN dataLines,
                        k < m, dataLines[k] = "head", dataLines[m] = "tail"
                 PROVE  Split
      OBVIOUS
    <3>1. PICK i \in DOMAIN lines, j \in DOMAIN lines :
            i < j /\ lines[i] = dataLines[k] /\ lines[j] = dataLines[m]
      BY <1>1 DEF EventInv
    <3> QED BY <3>1 DEF Split
  <2> QED BY <1>2, <2>1, <2>2
<1>5. Regular /\ found \in Failures => Troubled
  <2>1. (\E k \in DOMAIN dataLines : dataLines[k] \in Trouble) => Troubled
    BY <1>1 DEF EventInv, Troubled, Trouble
  <2> QED BY <1>2, <2>1
<1>6. Regular /\ Answered => found \in Failures \/ sawAnswer \/ found = "answer"
  BY <1>2 DEF JudgeInv, StreamInv
<1> QED BY <1>2, <1>3, <1>4, <1>5, <1>6 DEF found

LEMMA FailsInto ==
  ASSUME ReportInv, NEW STATE kind, kind \in Failures, FailWith(kind), verdict # "answered"
  PROVE  at' \in {"refresh", "over"} /\ verdict' # "answered"
  BY DEF FailWith, Failures

LEMMA ReadBlank ==
  ASSUME JudgeInv, ReportInv, Read("blank")
  PROVE  JudgeInv'
<1> DEFINE found == CheckEvent(eventName, dataLines)
<1>1. /\ at = "stream" /\ lines' = Append(lines, "blank")
      /\ dataLines' = <<>> /\ eventName' = "none"
      /\ sawAnswer' = (sawAnswer \/ found = "answer")
      /\ IF found \in Failures THEN FailWith(found) ELSE at' = at /\ verdict' = verdict
  BY DEF Read, EndEvent
<1>2. JudgeTyped /\ EventInv /\ verdict # "answered"
  BY <1>1 DEF JudgeInv, ReportInv
<1>3. verdict' # "answered" /\ at' \in {"stream", "refresh", "over"}
      /\ (at' # "stream" <=> found \in Failures)
  <2>1. CASE found \in Failures
    BY <1>1, <1>2, <2>1, FailsInto
  <2>2. CASE found \notin Failures
    BY <1>1, <1>2, <2>2
  <2> QED BY <2>1, <2>2
<1>4. /\ found \notin Failures => ~Troubled
      /\ found = "answer" => Answered \/ Split
      /\ Regular /\ found \in Failures => Troubled
      /\ Regular /\ Answered => found \in Failures \/ sawAnswer \/ found = "answer"
  BY <1>1, EventJudged
<1>5. /\ Regular' => Regular
      /\ Answered' <=> Answered
      /\ Split => Split'
      /\ Troubled' <=> Troubled
  <2>1. "blank" \in LineKinds /\ "blank" \notin Trouble
    BY DEF LineKinds, Trouble
  <2> QED BY <1>1, <1>2, <2>1, WellFormedBefore
<1> HIDE DEF found
<1>6. JudgeTyped'
  <2>1. "blank" \in LineKinds
    BY DEF LineKinds
  <2>2. lines' \in Seq(LineKinds)
    BY <1>1, <1>2, <2>1, LineMore
  <2>3. sawAnswer' \in BOOLEAN
    BY <1>1, Zenon
  <2> QED BY <1>1, <2>2, <2>3 DEF JudgeTyped
<1>7. EventInv'
  <2>1. sawAnswer' => Answered' \/ Split'
    <3>1. sawAnswer => Answered \/ Split
      BY <1>2 DEF EventInv
    <3> QED BY <1>1, <1>4, <1>5, <3>1, Zenon
  <2> QED BY <1>1, <2>1 DEF EventInv
<1>8. StreamInv'
  <2>1. at' = "stream" => \A i \in DOMAIN lines' : lines'[i] \notin Trouble
    BY <1>3, <1>4, <1>5 DEF Troubled, Trouble
  <2>2. at' = "stream" /\ Regular' /\ Answered' => sawAnswer'
    BY <1>1, <1>3, <1>4, <1>5, Zenon
  <2> QED BY <1>3, <2>1, <2>2 DEF StreamInv
<1>9. VerdictInv'
  BY <1>3, <1>4, <1>5 DEF VerdictInv
<1> QED BY <1>6, <1>7, <1>8, <1>9 DEF JudgeInv

(* The end of a body: the verdict fits the answer judged.                  *)
LEMMA Concluded ==
  ASSUME ReportInv, at = "stream", NEW STATE found, Conclude(found),
         found \in {"skipped", "protocol", "dead", "refused", "answer"}
  PROVE  /\ at' \in {"report", "refresh", "over"}
         /\ UNCHANGED <<eventName, dataLines, sawAnswer>>
         /\ verdict' = "answered" => found \notin Failures /\ (sawAnswer \/ found = "answer")
         /\ verdict' # "answered" => found \in Failures \/ ~(sawAnswer \/ found = "answer")
<1>1. verdict # "answered" /\ "protocol" \in Failures
  BY DEF ReportInv, Failures
<1>2. UNCHANGED <<eventName, dataLines, sawAnswer>>
  BY DEF Conclude
<1>3. CASE found \in Failures
  <2>1. FailWith(found)
    BY <1>3 DEF Conclude
  <2> QED BY <1>1, <1>2, <1>3, <2>1, FailsInto
<1>4. CASE found \notin Failures /\ (sawAnswer \/ found = "answer")
  BY <1>2, <1>4 DEF Conclude
<1>5. CASE found \notin Failures /\ ~(sawAnswer \/ found = "answer")
  <2>1. FailWith("protocol")
    BY <1>5 DEF Conclude
  <2> QED BY <1>1, <1>2, <1>5, <2>1, FailsInto
<1> QED BY <1>3, <1>4, <1>5

LEMMA EndJudged ==
  ASSUME JudgeInv, ReportInv, EndOfStream
  PROVE  JudgeInv'
<1> DEFINE found == CheckEvent(eventName, dataLines)
<1>1. at = "stream" /\ Conclude(found) /\ lines' = lines
  BY DEF EndOfStream, LastEvent
<1>2. /\ found \in {"skipped", "protocol", "dead", "refused", "answer"}
      /\ found \notin Failures => ~Troubled
      /\ found = "answer" => Answered \/ Split
      /\ Regular /\ found \in Failures => Troubled
      /\ Regular /\ Answered => found \in Failures \/ sawAnswer \/ found = "answer"
  BY <1>1, EventJudged
<1>3. /\ at' \in {"report", "refresh", "over"}
      /\ UNCHANGED <<lines, eventName, dataLines, sawAnswer>>
      /\ verdict' = "answered" => found \notin Failures /\ (sawAnswer \/ found = "answer")
      /\ verdict' # "answered" => found \in Failures \/ ~(sawAnswer \/ found = "answer")
  BY <1>1, <1>2, Concluded
<1> HIDE DEF found
<1>4. JudgeTyped' /\ EventInv'
  BY <1>3 DEF JudgeInv, JudgeTyped, EventInv, Open, Answered, Split
<1>5. StreamInv'
  BY <1>3 DEF StreamInv
<1>6. sawAnswer => Answered \/ Split
  BY DEF JudgeInv, EventInv
<1>7. verdict' = "answered" => (Answered \/ Split) /\ ~Troubled
  BY <1>2, <1>3, <1>6
<1>8. verdict' # "answered" /\ Regular => Troubled \/ ~Answered
  BY <1>2, <1>3
<1>9. (Answered' <=> Answered) /\ (Split' <=> Split) /\ (Troubled' <=> Troubled) /\ (Regular' <=> Regular)
  BY <1>3 DEF Answered, Split, Troubled, Regular, SameEvent
<1> QED BY <1>4, <1>5, <1>7, <1>8, <1>9 DEF JudgeInv, VerdictInv

LEMMA PlainJudged ==
  ASSUME JudgeInv, ReportInv, PlainBody
  PROVE  JudgeInv'
<1>1. PICK body \in Whole \cup {"void"} :
        /\ lines' = <<body>>
        /\ Conclude(IF body = "void" THEN "skipped" ELSE CheckEvent("none", <<body>>))
  BY DEF PlainBody
<1> DEFINE found == IF body = "void" THEN "skipped" ELSE CheckEvent("none", <<body>>)
<1>2. at = "stream" /\ lines = <<>>
  BY DEF PlainBody
<1>3. ~sawAnswer /\ eventName = "none" /\ dataLines \in Seq(DataLines) /\ dataLines = <<>>
  <2>1. DOMAIN lines = {}
    BY <1>2
  <2>2. ~sawAnswer /\ eventName = "none"
    BY <2>1 DEF JudgeInv, EventInv, Answered, Split
  <2>3. dataLines \in Seq(DataLines)
    BY DEF JudgeInv, JudgeTyped
  <2>4. DOMAIN dataLines = {}
    BY <2>1 DEF JudgeInv, EventInv
  <2> QED BY <2>2, <2>3, <2>4, FirstOfSome
<1>4. <<body>> \in Seq(DataLines) /\ DOMAIN <<body>> = {1} /\ <<body>>[1] = body /\ Len(<<body>>) = 1
  BY DEF DataLines
<1>5. /\ found \in {"skipped", "protocol", "dead", "refused", "answer"}
      /\ found \notin Failures => body \notin Trouble
      /\ found = "answer" <=> body = "answer"
      /\ found \in Failures => body \in Trouble
  <2>1. CASE body = "void"
    BY <2>1 DEF Failures, Trouble
  <2>2. CASE body # "void"
    <3>1. body \in Whole
      BY <2>2
    <3> PICK data \in Seq(DataLines) : data = <<body>>
      BY <1>4
    <3>2. DOMAIN data = {1} /\ data[1] = body /\ Len(data) <= 1 /\ data[1] \in Whole
      BY <1>4, <3>1
    <3>3. found = CheckEvent("none", data)
      BY <2>2
    <3> HIDE DEF found
    <3>4. /\ found \in {"skipped", "protocol", "dead", "refused", "answer"}
          /\ found \notin Failures => \A k \in DOMAIN data : data[k] \notin Trouble
          /\ found = "answer" =>
               \/ \E k \in DOMAIN data : data[k] = "answer"
               \/ \E k, m \in DOMAIN data : k < m /\ data[k] = "head" /\ data[m] = "tail"
          /\ found \in Failures => \E k \in DOMAIN data : data[k] \in Trouble
          /\ (\E k \in DOMAIN data : data[k] = "answer") => found = "answer"
      BY <3>2, <3>3, EventFacts
    <3> QED BY <3>2, <3>4
  <2> QED BY <2>1, <2>2
<1>6. /\ at' \in {"report", "refresh", "over"}
      /\ UNCHANGED <<eventName, dataLines, sawAnswer>>
      /\ verdict' = "answered" => found \notin Failures /\ (sawAnswer \/ found = "answer")
      /\ verdict' # "answered" => found \in Failures \/ ~(sawAnswer \/ found = "answer")
  BY <1>1, <1>2, <1>5, Concluded
<1> HIDE DEF found
<1>7. DOMAIN lines' = {1} /\ lines'[1] = body
  BY <1>1
<1>8. (Answered' <=> body = "answer") /\ (Troubled' <=> body \in Trouble)
  BY <1>7 DEF Answered, Troubled, Trouble
<1>9. JudgeTyped'
  <2>1. lines' \in Seq(LineKinds)
    BY <1>1 DEF LineKinds, DataLines
  <2> QED BY <1>6, <2>1 DEF JudgeInv, JudgeTyped
<1>10. EventInv'
  BY <1>3, <1>6 DEF EventInv
<1>11. StreamInv' /\ VerdictInv'
  BY <1>3, <1>5, <1>6, <1>8 DEF StreamInv, VerdictInv
<1> QED BY <1>9, <1>10, <1>11 DEF JudgeInv

LEMMA JudgeStep == JudgeInv /\ ReportInv /\ [ChatNext]_chatVars => JudgeInv'
<1> SUFFICES ASSUME JudgeInv, ReportInv, [ChatNext]_chatVars PROVE JudgeInv'
  OBVIOUS
<1>a. JudgeTyped /\ EventInv /\ StreamInv /\ VerdictInv
  BY DEF JudgeInv
<1>b. ASSUME UNCHANGED judge
      PROVE  /\ JudgeTyped' /\ EventInv'
             /\ (Answered' <=> Answered) /\ (Split' <=> Split)
             /\ (Troubled' <=> Troubled) /\ (Regular' <=> Regular)
  <2>1. UNCHANGED <<lines, eventName, dataLines, sawAnswer>>
    BY <1>b DEF judge
  <2>2. JudgeTyped' /\ EventInv'
    BY <1>a, <2>1 DEF JudgeTyped, EventInv, Open, Answered, Split
  <2>3. /\ (Answered' <=> Answered) /\ (Split' <=> Split)
        /\ (Troubled' <=> Troubled) /\ (Regular' <=> Regular)
    BY <2>1 DEF Answered, Split, Troubled, Regular, SameEvent
  <2> QED BY <2>2, <2>3
<1>1. ASSUME at \in {"register", "chat"}, UNCHANGED judge, verdict' # "answered"
      PROVE  JudgeInv'
  <2>1. Silence /\ lines' = <<>> /\ dataLines' = <<>> /\ eventName' = "none" /\ sawAnswer' = FALSE
    BY <1>1, <1>a DEF StreamInv, Silence, judge
  <2>2. StreamInv'
    BY <2>1 DEF StreamInv, Silence, Answered
  <2>3. VerdictInv'
    BY <1>1, <2>1 DEF VerdictInv
  <2> QED BY <1>1, <1>b, <2>2, <2>3 DEF JudgeInv
<1>2. CASE Register \/ RegisterFails \/ ChatAnswered
  <2>1. at \in {"register", "chat"} /\ UNCHANGED <<judge, verdict>>
    BY <1>2 DEF Register, RegisterFails, ChatAnswered
  <2> QED BY <1>1, <2>1 DEF ReportInv
<1>3. CASE ChatFails
  <2>1. at = "chat" /\ UNCHANGED judge
    BY <1>3 DEF ChatFails
  <2>2. PICK kind \in Failures : FailWith(kind)
    BY <1>3 DEF ChatFails
  <2>3. verdict' # "answered"
    BY <2>1, <2>2, FailsInto DEF ReportInv
  <2> QED BY <1>1, <2>1, <2>3
<1>4. ASSUME NEW line \in LineKinds, Read(line) PROVE JudgeInv'
  BY <1>4, ReadLine, ReadBlank
<1>5. CASE EndOfStream
  BY <1>5, EndJudged
<1>6. CASE PlainBody
  BY <1>6, PlainJudged
<1>7. CASE Report
  <2>1. UNCHANGED <<judge, verdict>> /\ verdict = "answered" /\ at' = "over"
    BY <1>7 DEF Report, ReportInv
  <2>2. StreamInv' /\ VerdictInv'
    BY <1>a, <1>b, <2>1 DEF StreamInv, VerdictInv
  <2> QED BY <1>b, <2>1, <2>2 DEF JudgeInv
<1>8. CASE Refreshed
  <2>1. /\ at = "refresh" /\ at' = "register" /\ verdict' = verdict
        /\ lines' = <<>> /\ eventName' = "none" /\ dataLines' = <<>> /\ sawAnswer' = FALSE
    BY <1>8 DEF Refreshed
  <2>4. JudgeTyped'
    BY <2>1, EmptySeq DEF JudgeTyped
  <2>5. DOMAIN dataLines' = {}
    BY <2>1
  <2>2. JudgeTyped' /\ EventInv'
    BY <2>1, <2>4, <2>5 DEF EventInv
  <2>3. StreamInv' /\ VerdictInv'
    BY <2>1 DEF StreamInv, VerdictInv, Silence, ReportInv
  <2> QED BY <2>2, <2>3 DEF JudgeInv
<1>9. CASE RefreshFails
  <2>1. at = "refresh" /\ at' = "over" /\ UNCHANGED judge
    BY <1>9 DEF RefreshFails
  <2>2. verdict # "answered" /\ verdict' # "answered"
    BY <1>9, <2>1 DEF RefreshFails, ReportInv, Failures
  <2>3. lines' = lines
    BY <2>1 DEF judge
  <2>4. StreamInv' /\ VerdictInv'
    BY <1>a, <1>b, <2>1, <2>2, <2>3 DEF StreamInv, VerdictInv
  <2> QED BY <1>b, <2>1, <2>4 DEF JudgeInv
<1>10. CASE UNCHANGED chatVars
  <2>1. UNCHANGED <<judge, lines, at, verdict, dataLines, eventName, sawAnswer>>
    BY <1>10 DEF chatVars, judge
  <2>2. StreamInv' /\ VerdictInv'
    BY <1>a, <1>b, <2>1 DEF StreamInv, VerdictInv, Silence
  <2> QED BY <1>b, <2>1, <2>2 DEF JudgeInv
<1> QED BY <1>2, <1>3, <1>4, <1>5, <1>6, <1>7, <1>8, <1>9, <1>10 DEF ChatNext

LEMMA JudgeInvariance == ChatSpec => []JudgeInv
<1>1. ChatInit => JudgeInv
  <2> SUFFICES ASSUME ChatInit PROVE JudgeInv
    OBVIOUS
  <2>1. Silence /\ at = "register" /\ verdict = "none"
    BY DEF ChatInit
  <2>2. JudgeTyped
    BY <2>1, EmptySeq DEF Silence, JudgeTyped
  <2>3. DOMAIN dataLines = {} /\ eventName = "none" /\ ~sawAnswer
    BY <2>1 DEF Silence
  <2>4. EventInv
    BY <2>3 DEF EventInv
  <2>5. StreamInv /\ VerdictInv
    BY <2>1 DEF StreamInv, VerdictInv
  <2> QED BY <2>2, <2>4, <2>5 DEF JudgeInv
<1>2. JudgeInv /\ ReportInv /\ [ChatNext]_chatVars => JudgeInv'
  BY JudgeStep
<1> QED BY <1>1, <1>2, TalkInvariance, PTL DEF ChatSpec

(* validateActiveChatResponse: an answer counts only if it is in the       *)
(* stream and no error is, and every well-formed stream with an answer and *)
(* no error counts, for streams of any length.                             *)
THEOREM ChatsJudged == ChatSpec => []ChatJudged
<1>1. JudgeInv /\ ReportInv => ChatJudged
  <2> SUFFICES ASSUME JudgeInv, ReportInv PROVE ChatJudged
    OBVIOUS
  <2>1. verdict = "answered" => (Answered \/ Split) /\ ~Troubled
    BY DEF JudgeInv, VerdictInv
  <2>2. Regular => ~Split
    BY DEF Regular, Split
  <2>3. at = "report" => verdict = "answered"
    BY DEF ReportInv
  <2>4. at = "over" /\ verdict # "answered" /\ lines # <<>> /\ Regular => Troubled \/ ~Answered
    BY DEF JudgeInv, VerdictInv
  <2> QED BY <2>1, <2>2, <2>3, <2>4 DEF ChatJudged
<1> QED BY <1>1, JudgeInvariance, TalkInvariance, PTL

(* What the other invariants leave open of the types.                      *)
Kept ==
  /\ conv \in Talks
  /\ unregistered \in BOOLEAN
  /\ Len(lines) <= MaxLines
  /\ warnings \subseteq {"report", "conversation"}

LEMMA KeptStep == JudgeTyped /\ TalkInv /\ Kept /\ [ChatNext]_chatVars => Kept'
<1> SUFFICES ASSUME JudgeTyped, TalkInv, Kept, [ChatNext]_chatVars PROVE Kept'
  OBVIOUS
<1>1. attempt \in 1 .. 2 /\ lines \in Seq(LineKinds) /\ Len(lines) \in Nat /\ MaxLines \in Nat \ {0}
  BY LinesAssumption DEF TalkInv, JudgeTyped
<1>2. CASE Register \/ RegisterFails
  <2>1. conv' \in Talks
    BY <1>1, <1>2 DEF Register, RegisterFails, Registered, Talks
  <2> QED BY <1>2, <2>1 DEF Register, RegisterFails, Kept, judge
<1>3. ASSUME NEW kind, FailWith(kind) PROVE UNCHANGED <<conv, unregistered, warnings>>
  BY <1>3 DEF FailWith
<1>4. CASE ChatAnswered \/ ChatFails
  BY <1>3, <1>4 DEF ChatAnswered, ChatFails, Kept, judge
<1>5. ASSUME NEW line \in LineKinds, Read(line) PROVE Kept'
  <2>1. Len(lines) < MaxLines /\ lines' = Append(lines, line)
    BY <1>5 DEF Read
  <2>2. Len(lines') <= MaxLines
    BY <1>1, <2>1
  <2>3. UNCHANGED <<conv, unregistered, warnings>>
    BY <1>3, <1>5 DEF Read, EndEvent
  <2> QED BY <2>2, <2>3 DEF Kept
<1>6. ASSUME NEW found, Conclude(found) PROVE UNCHANGED <<conv, unregistered, warnings>>
  BY <1>3, <1>6 DEF Conclude
<1>7. CASE EndOfStream
  BY <1>6, <1>7 DEF EndOfStream, Kept
<1>8. CASE PlainBody
  <2>1. PICK body \in Whole \cup {"void"} :
          /\ lines' = <<body>>
          /\ Conclude(IF body = "void" THEN "skipped" ELSE CheckEvent("none", <<body>>))
    BY <1>8 DEF PlainBody
  <2>2. UNCHANGED <<conv, unregistered, warnings>>
    BY <1>6, <2>1
  <2>3. Len(lines') = 1
    BY <2>1
  <2> QED BY <1>1, <2>2, <2>3 DEF Kept
<1>9. CASE Report
  BY <1>9 DEF Report, Warnings, Kept, judge
<1>10. CASE Refreshed
  <2>1. lines' = <<>> /\ unregistered' = FALSE /\ UNCHANGED <<conv, warnings>>
    BY <1>10 DEF Refreshed
  <2>2. Len(lines') = 0
    BY <2>1
  <2>3. Len(lines') <= MaxLines
    BY <1>1, <2>2
  <2>4. conv' \in Talks /\ unregistered' \in BOOLEAN /\ warnings' \subseteq {"report", "conversation"}
    BY <2>1 DEF Kept
  <2> QED BY <2>3, <2>4 DEF Kept
<1>11. CASE RefreshFails \/ UNCHANGED chatVars
  BY <1>11 DEF RefreshFails, chatVars, Kept, judge
<1> QED BY <1>2, <1>4, <1>5, <1>7, <1>8, <1>9, <1>10, <1>11 DEF ChatNext

(* Every variable of a chat keeps to its values, for bodies of any length. *)
THEOREM ChatTypeCorrect == ChatSpec => []ChatTypeOK
<1>1. ChatInit => Kept
  <2> SUFFICES ASSUME ChatInit PROVE Kept
    OBVIOUS
  <2>1. lines = <<>> /\ conv = Local(1) /\ unregistered = FALSE /\ warnings = {}
    BY DEF ChatInit, Silence
  <2>2. Len(lines) = 0
    BY <2>1
  <2>3. Len(lines) <= MaxLines
    BY <2>2, LinesAssumption
  <2>4. conv \in Talks
    BY <2>1 DEF Talks
  <2> QED BY <2>1, <2>3, <2>4 DEF Kept
<1>2. ChatSpec => []Kept
  <2>1. JudgeInv => JudgeTyped
    BY DEF JudgeInv
  <2> QED BY <1>1, <2>1, KeptStep, JudgeInvariance, TalkInvariance, PTL DEF ChatSpec
<1>3. Kept /\ JudgeTyped /\ TalkInv /\ ReportInv => ChatTypeOK
  <2> SUFFICES ASSUME Kept, JudgeTyped, TalkInv, ReportInv PROVE ChatTypeOK
    OBVIOUS
  <2>1. reported \subseteq Talks
    BY DEF ReportInv, Kept
  <2>2. conv \in {Local(n) : n \in 1 .. 2} \cup {Server(n) : n \in 1 .. 2}
    BY DEF Kept, Talks
  <2> QED BY <2>1, <2>2 DEF ChatTypeOK, Kept, JudgeTyped, TalkInv, ReportInv, Talks
<1>4. JudgeInv => JudgeTyped
  BY DEF JudgeInv
<1> QED BY <1>2, <1>3, <1>4, JudgeInvariance, TalkInvariance, PTL

-----------------------------------------------------------------------------
(***************************************************************************)
(* DialOut: whom a dial asks, for any dns.conf and any answers.            *)
(***************************************************************************)

Lines == DnsServers \cup {System, Comment, NoFile[1]}

(* What a file of k lines names, line by line.                             *)
LEMMA NamedLines ==
  ASSUME NEW file \in Seq(Lines), NEW L \in Nat, L = Len(file)
  PROVE  \E N \in [0 .. L -> Seq(DnsServers)] :
           /\ Named(file) = N[L]
           /\ N[0] = <<>>
           /\ \A i \in 1 .. L :
                N[i] = IF file[i] \in DnsServers THEN Append(N[i - 1], file[i]) ELSE N[i - 1]
<1> DEFINE X == Seq(DnsServers)
           G(i, s) == IF file[i] \in DnsServers THEN Append(s, file[i]) ELSE s
           F == [i \in 1 .. L |-> [s \in X |-> G(i, s)]]
           Body(g) == [n \in 0 .. L |-> IF n = 0 THEN <<>> ELSE G(n, g[n - 1])]
           N == CHOOSE g : g = Body(g)
<1>1. ASSUME NEW i \in 1 .. L, NEW s \in X PROVE G(i, s) \in X
  BY AppendProperties
<1>2. <<>> \in X /\ L \in Nat
  OBVIOUS
<1>3. Named(file) = N[L]
  BY DEF Named
<1> HIDE DEF X, G
<1>4. F \in [1 .. L -> [X -> X]] /\ \A i \in 1 .. L, s \in X : F[i][s] = G(i, s)
  BY <1>1
<1> HIDE DEF F
<1>5. PICK f \in [0 .. L -> X] :
        f[0] = <<>> /\ \A i \in 1 .. L : f[i] = F[i][f[i - 1]]
  <2>1. Stepwise(X, L)
    BY <1>2, StepwiseAlways
  <2> QED BY <1>2, <1>4, <2>1 DEF Stepwise
<1>6. \A i \in 1 .. L : f[i] = G(i, f[i - 1])
  BY <1>2, <1>4, <1>5
<1>7. f = Body(f)
  BY <1>5, <1>6
<1>8. N = Body(N)
  BY <1>7
<1> HIDE DEF N
<1> DEFINE T == {n \in 0 .. L : N[n] \in X}
<1>9. 0 \in T
  BY <1>2, <1>8
<1>10. ASSUME NEW i \in 1 .. L, i - 1 \in T PROVE i \in T
  <2>1. N[i] = G(i, N[i - 1])
    BY <1>2, <1>8
  <2> QED BY <1>1, <1>10, <2>1
<1>11. T \in SUBSET Nat
  OBVIOUS
<1> HIDE DEF T
<1>12. \A n \in 0 .. L : n \in T
  <2> TAKE n \in 0 .. L
  <2>1. n \in Nat /\ \A i \in 1 .. n : i - 1 \in T => i \in T
    BY <1>10
  <2> QED BY <1>9, <1>11, <2>1, SetInduction
<1>13. N \in [0 .. L -> X]
  BY <1>8, <1>12 DEF T
<1>14. N[0] = <<>> /\ \A i \in 1 .. L : N[i] = G(i, N[i - 1])
  BY <1>2, <1>8
<1> QED BY <1>3, <1>13, <1>14 DEF X, G

LEMMA NamedTyped ==
  ASSUME NEW file \in Seq(Lines)
  PROVE  Named(file) \in Seq(DnsServers)
<1> PICK L \in Nat : L = Len(file)
  OBVIOUS
<1> PICK N \in [0 .. L -> Seq(DnsServers)] : Named(file) = N[L]
  BY NamedLines
<1> QED OBVIOUS

LEMMA StartGrows ==
  ASSUME NEW X, NEW list \in Seq(X), NEW i \in Nat, 1 <= i, i <= Len(list)
  PROVE  Append(SubSeq(list, 1, i - 1), list[i]) = SubSeq(list, 1, i)
<1>1. SubSeq(list, 1, i) = SubSeq(list, 1, i - 1) \o <<list[i]>>
  BY SubSeqRecursiveSecond
<1>2. SubSeq(list, 1, i - 1) \in Seq(X) /\ list[i] \in X
  OBVIOUS
<1>3. Append(SubSeq(list, 1, i - 1), list[i]) = SubSeq(list, 1, i - 1) \o <<list[i]>>
  BY <1>2, AppendIsConcat
<1> QED BY <1>1, <1>3

(* A file that was saved for a missing one names what it was saved for.    *)
LEMMA NamedOfSaved ==
  ASSUME NEW list \in Seq(DnsServers)
  PROVE  Named(<<Comment>> \o list) = list
<1> DEFINE file == <<Comment>> \o list
<1> PICK k \in Nat : k = Len(list)
  OBVIOUS
<1>1. file \in Seq(Lines) /\ Len(file) = k + 1
  BY DEF Lines
<1>2. file[1] = Comment /\ \A i \in 1 .. k : file[i + 1] = list[i]
  OBVIOUS
<1> HIDE DEF file
<1>3. PICK N \in [0 .. k + 1 -> Seq(DnsServers)] :
        /\ Named(file) = N[k + 1]
        /\ N[0] = <<>>
        /\ \A i \in 1 .. k + 1 :
             N[i] = IF file[i] \in DnsServers THEN Append(N[i - 1], file[i]) ELSE N[i - 1]
  <2>1. k + 1 \in Nat
    OBVIOUS
  <2> QED BY <1>1, <2>1, NamedLines
<1>4. N[1] = <<>>
  <2>1. Comment \notin DnsServers
    BY DnsAssumption
  <2> QED BY <1>2, <1>3, <2>1
<1>5. \A i \in 1 .. k : N[i + 1] = Append(N[i], list[i])
  <2> TAKE i \in 1 .. k
  <2> PICK j \in 1 .. k + 1 : j = i + 1
    OBVIOUS
  <2>1. j - 1 = i
    OBVIOUS
  <2>2. file[j] = list[i] /\ list[i] \in DnsServers
    BY <1>2
  <2>3. N[j] = Append(N[j - 1], file[j])
    BY <1>3, <2>2
  <2> QED BY <2>1, <2>2, <2>3
<1> DEFINE T == {i \in 0 .. k : N[i + 1] = SubSeq(list, 1, i)}
<1>6. 0 \in T
  <2>1. SubSeq(list, 1, 0) = <<>>
    BY SubSeqEmpty
  <2> QED BY <1>4, <2>1
<1>7. ASSUME NEW i \in 1 .. k, i - 1 \in T PROVE i \in T
  <2>1. N[i] = SubSeq(list, 1, i - 1)
    <3>1. i - 1 + 1 = i
      OBVIOUS
    <3> QED BY <1>7, <3>1
  <2>2. N[i + 1] = SubSeq(list, 1, i)
    <3>1. N[i + 1] = Append(SubSeq(list, 1, i - 1), list[i])
      BY <1>5, <2>1
    <3>2. i \in Nat /\ 1 <= i /\ i <= Len(list)
      OBVIOUS
    <3>3. Append(SubSeq(list, 1, i - 1), list[i]) = SubSeq(list, 1, i)
      BY <3>2, StartGrows
    <3> QED BY <3>1, <3>3
  <2> QED BY <2>2
<1>8. T \in SUBSET Nat
  OBVIOUS
<1> HIDE DEF T
<1>9. k \in T
  BY <1>6, <1>7, <1>8, SetInduction
<1>10. N[k + 1] = SubSeq(list, 1, k)
  BY <1>9 DEF T
<1>11. SubSeq(list, 1, k) = list
  BY SubSeqFull
<1> QED BY <1>3, <1>10, <1>11 DEF file

LEMMA ElementsOfNone == Elements(<<>>) = {}
  BY DEF Elements

LEMMA ElementsOfTail ==
  ASSUME NEW X, NEW s \in Seq(X), s # <<>>
  PROVE  /\ Head(s) \in X /\ Tail(s) \in Seq(X)
         /\ Elements(s) = {Head(s)} \cup Elements(Tail(s))
<1>1. /\ Head(s) \in X /\ Tail(s) \in Seq(X) /\ Len(Tail(s)) = Len(s) - 1
      /\ \A i \in 1 .. Len(Tail(s)) : Tail(s)[i] = s[i + 1]
  BY HeadTailProperties
<1> PICK t \in Seq(X) : t = Tail(s)
  BY <1>1
<1> PICK n \in Nat : n = Len(t)
  OBVIOUS
<1>2. DOMAIN s = 1 .. n + 1 /\ DOMAIN t = 1 .. n /\ Head(s) = s[1]
      /\ \A i \in 1 .. n : t[i] = s[i + 1]
  BY <1>1
<1>3. ASSUME NEW i \in 1 .. n + 1 PROVE s[i] = Head(s) \/ \E j \in 1 .. n : s[i] = t[j]
  <2>1. CASE i = 1
    BY <1>2, <2>1
  <2>2. CASE i # 1
    <3>1. i - 1 \in 1 .. n /\ i - 1 + 1 = i
      BY <2>2
    <3>2. t[i - 1] = s[i - 1 + 1]
      BY <1>2, <3>1
    <3> QED BY <3>1, <3>2
  <2> QED BY <2>1, <2>2
<1>4. ASSUME NEW j \in 1 .. n PROVE \E i \in 1 .. n + 1 : t[j] = s[i]
  <2>1. j + 1 \in 1 .. n + 1
    OBVIOUS
  <2> QED BY <1>2, <2>1
<1>5. Elements(s) = {Head(s)} \cup Elements(t)
  <2>1. 1 \in 1 .. n + 1
    OBVIOUS
  <2>2. Elements(s) = {s[i] : i \in 1 .. n + 1} /\ Elements(t) = {t[i] : i \in 1 .. n}
    BY <1>2 DEF Elements
  <2>3. Elements(s) \subseteq {Head(s)} \cup Elements(t)
    BY <1>3, <2>2
  <2>4. {Head(s)} \cup Elements(t) \subseteq Elements(s)
    BY <1>2, <1>4, <2>1, <2>2
  <2> QED BY <2>3, <2>4
<1> QED BY <1>1, <1>5

LEMMA ElementsIn ==
  ASSUME NEW X, NEW s \in Seq(X)
  PROVE  Elements(s) \subseteq X /\ (s # <<>> => Elements(s) # {})
  BY DEF Elements

LEMMA AddressListsTyped == AddressLists \subseteq Seq(Addresses)
  BY DnsAssumption

(* What New leaves behind names the servers in use.                        *)
LEMMA SavedReads ==
  ASSUME NEW list \in Seq(DnsServers), list # <<>>
  PROVE  /\ Saved(list) \in Seq(DnsServers \cup {System, Comment})
         /\ Saved(list) # NoFile /\ Loaded(Saved(list)) = list
<1> PICK k \in Nat : k = Len(list)
  OBVIOUS
<1>1. Saved(list) = <<Comment>> \o list
  BY DEF Saved
<1>2. Saved(list) \in Seq(DnsServers \cup {System, Comment})
  BY <1>1
<1>3. Saved(list)[1] = Comment
  BY <1>1
<1>4. Saved(list) # NoFile
  <2>1. NoFile[1] = "no file"
    BY DEF NoFile
  <2> QED BY <1>3, <2>1 DEF Comment
<1>5. System \notin Elements(Saved(list))
  <2>1. \A i \in DOMAIN Saved(list) : Saved(list)[i] \in DnsServers \cup {Comment}
    BY <1>1
  <2>2. System \notin DnsServers /\ System # Comment
    BY DnsAssumption DEF System, Comment
  <2> QED BY <2>1, <2>2 DEF Elements
<1>6. Named(Saved(list)) = list
  BY <1>1, NamedOfSaved
<1> QED BY <1>2, <1>4, <1>5, <1>6 DEF Loaded

LEMMA LoadedTyped ==
  ASSUME NEW file \in Seq(DnsServers \cup {System, Comment}) \cup {NoFile}
  PROVE  Loaded(file) \in Seq(DnsServers)
<1>1. NoFile \in Seq(Lines) /\ Seq(DnsServers \cup {System, Comment}) \subseteq Seq(Lines)
  <2>1. "no file" \in Lines
    BY DEF NoFile, Lines
  <2>2. NoFile \in Seq(Lines)
    <3>1. \A x \in Lines : <<x>> \in Seq(Lines)
      OBVIOUS
    <3> QED BY <2>1, <3>1 DEF NoFile
  <2>3. DnsServers \cup {System, Comment} \subseteq Lines
    BY DEF Lines
  <2>4. Seq(DnsServers \cup {System, Comment}) \subseteq Seq(Lines)
    BY <2>3
  <2> QED BY <2>2, <2>4
<1>2. Named(file) \in Seq(DnsServers)
  BY <1>1, NamedTyped
<1>3. DefaultDNS \in Seq(DnsServers) /\ <<>> \in Seq(DnsServers)
  BY DnsAssumption
<1> QED BY <1>2, <1>3 DEF Loaded

(* A list of none is a list of any.                                        *)
LEMMA NoneTyped == ASSUME NEW S PROVE <<>> \in Seq(S)
  OBVIOUS

(* The servers in use are those of dns.conf from the first start on.       *)
ConfRead == step # "off" => dnsConf # NoFile /\ activeDNS = Loaded(dnsConf)

(* Who may have been asked.                                                *)
AskedOnly ==
  /\ asked \ {System} \subseteq Elements(activeDNS)
  /\ step = "idle" => asked = {} /\ offered = {}
  /\ link = "domestic" /\ step \notin {"off", "idle"} /\ activeDNS # <<>>
       => System \notin asked /\ step # "system"

(* What every step of a dial has left to do, and has done.                 *)
Progress ==
  /\ step = "system" =>
       /\ offered \cap reachable = {}
       /\ again => activeDNS = <<>>
  /\ step = "lookup" =>
       /\ offered \cap reachable = {}
       /\ activeDNS # <<>> /\ servers # <<>>
       /\ Elements(servers) \subseteq Elements(activeDNS)
       /\ Elements(activeDNS) \subseteq asked \cup Elements(servers)
  /\ step = "connect" =>
       /\ ips # <<>> /\ offered \cap reachable \subseteq Elements(ips)
       /\ again /\ activeDNS # <<>> => answered \cap Elements(activeDNS) # {}

DialInv == DialTypeOK /\ ConfRead /\ AskedOnly /\ Progress /\ FailsForCause

LEMMA DialStart == DialInit => DialInv
<1> SUFFICES ASSUME DialInit PROVE DialInv
  OBVIOUS
<1> USE DnsAssumption DEF DialInit
<1>1. DialTypeOK
  <2>1. dnsConf \in Seq(DnsServers \cup {System, Comment}) \cup {NoFile}
    OBVIOUS
  <2>2. again \in BOOLEAN
    OBVIOUS
  <2>3. activeDNS \in Seq(DnsServers) /\ servers \in Seq(DnsServers) /\ ips \in Seq(Addresses)
    OBVIOUS
  <2> QED BY <2>1, <2>2, <2>3 DEF DialTypeOK, Ended
<1> QED BY <1>1 DEF DialInv, ConfRead, AskedOnly, Progress, FailsForCause

LEMMA UseStep ==
  ASSUME DialInv, UseDnsConf
  PROVE  DialInv'
<1> USE DEF DialInv, DialTypeOK, UseDnsConf
<1>1. /\ activeDNS' \in Seq(DnsServers)
      /\ dnsConf' \in Seq(DnsServers \cup {System, Comment}) \cup {NoFile}
      /\ dnsConf' # NoFile /\ activeDNS' = Loaded(dnsConf')
  <2>1. CASE dnsConf = NoFile
    <3>1. activeDNS' = DefaultDNS /\ dnsConf' = Saved(DefaultDNS)
      BY <2>1 DEF Loaded
    <3> QED BY <3>1, DnsAssumption, SavedReads
  <2>2. CASE dnsConf # NoFile
    BY <2>2, LoadedTyped
  <2> QED BY <2>1, <2>2
<1>2. DialTypeOK'
  BY <1>1
<1> QED BY <1>1, <1>2 DEF ConfRead, AskedOnly, Progress, FailsForCause

LEMMA DialStep ==
  ASSUME DialInv, NEW how \in {"domestic", "fallback"}, Dial(how)
  PROVE  DialInv'
<1> USE DEF DialInv, Dial
<1>1. DialTypeOK'
  <2>1. again' \in BOOLEAN
    <3>1. again' = (how = "domestic")
      OBVIOUS
    <3> HIDE DEF DialInv, Dial
    <3> QED BY <3>1
  <2>2. servers' \in Seq(DnsServers) /\ ips' \in Seq(Addresses)
    <3>1. activeDNS \in Seq(DnsServers)
      BY DEF DialTypeOK
    <3>2. servers' \in {activeDNS, <<>>} /\ ips' = <<>>
      OBVIOUS
    <3> HIDE DEF DialInv, Dial
    <3> QED BY <3>1, <3>2, NoneTyped
  <2>3. link' \in {"domestic", "fallback"} /\ step' \in {"lookup", "system"}
    OBVIOUS
  <2> QED BY <2>1, <2>2, <2>3 DEF DialTypeOK
<1>2. ConfRead' /\ AskedOnly' /\ FailsForCause'
  BY DEF ConfRead, AskedOnly, FailsForCause
<1>3. Progress'
  BY DEF Progress, AskedOnly
<1> QED BY <1>1, <1>2, <1>3

LEMMA AskSystemStep ==
  ASSUME DialInv, AskSystem
  PROVE  DialInv'
<1> USE DEF DialInv
<1> PICK list \in AddressLists :
       /\ Heard(System, list)
       /\ ips' = list
       /\ CASE list # <<>>                          -> step' = "connect" /\ UNCHANGED servers
            [] list = <<>> /\ activeDNS # <<>>      -> step' = "lookup" /\ servers' = activeDNS
            [] list = <<>> /\ activeDNS = <<>>      -> step' = "failed" /\ UNCHANGED servers
  BY DEF AskSystem
<1>1. list \in Seq(Addresses) /\ Elements(list) \subseteq Addresses
  BY AddressListsTyped, ElementsIn
<1>2. /\ asked' = asked \cup {System} /\ offered' = offered \cup Elements(list)
      /\ answered' = IF list = <<>> THEN answered ELSE answered \cup {System}
      /\ UNCHANGED <<dnsConf, activeDNS, link, reachable>> /\ again' = again /\ step = "system"
  BY DEF Heard, AskSystem
<1>3. \/ list # <<>> /\ step' = "connect" /\ servers' = servers
      \/ list = <<>> /\ activeDNS # <<>> /\ step' = "lookup" /\ servers' = activeDNS
      \/ list = <<>> /\ activeDNS = <<>> /\ step' = "failed" /\ servers' = servers
  OBVIOUS
<1>4. DialTypeOK'
  BY <1>1, <1>2, <1>3 DEF DialTypeOK, Ended
<1>5. ConfRead' /\ AskedOnly'
  BY <1>2, <1>3 DEF ConfRead, AskedOnly
<1>6. Progress' /\ FailsForCause'
  BY <1>2, <1>3, ElementsOfNone DEF Progress, FailsForCause
<1> QED BY <1>4, <1>5, <1>6

LEMMA AskServerStep ==
  ASSUME DialInv, AskServer
  PROVE  DialInv'
<1> USE DEF DialInv
<1> PICK list \in AddressLists :
       /\ Heard(Head(servers), list)
       /\ ips' = list
       /\ IF list # <<>> THEN step' = "connect" /\ servers' = <<>>
          ELSE /\ servers' = Tail(servers)
               /\ step' = IF Tail(servers) = <<>> THEN "failed" ELSE "lookup"
  BY DEF AskServer
<1>1. list \in Seq(Addresses) /\ Elements(list) \subseteq Addresses
  BY AddressListsTyped, ElementsIn
<1> PICK h \in DnsServers : h = Head(servers)
  BY ElementsOfTail DEF DialTypeOK, Progress, AskServer
<1> PICK t \in Seq(DnsServers) : t = Tail(servers)
  BY ElementsOfTail DEF DialTypeOK, Progress, AskServer
<1>2. /\ asked' = asked \cup {h} /\ offered' = offered \cup Elements(list)
      /\ answered' = IF list = <<>> THEN answered ELSE answered \cup {h}
      /\ UNCHANGED <<dnsConf, activeDNS, link, reachable>> /\ again' = again /\ step = "lookup"
  BY DEF Heard, AskServer
<1>3. \/ list # <<>> /\ step' = "connect" /\ servers' = <<>>
      \/ list = <<>> /\ t # <<>> /\ step' = "lookup" /\ servers' = t
      \/ list = <<>> /\ t = <<>> /\ step' = "failed" /\ servers' = t
  OBVIOUS
<1>4. Elements(servers) = {h} \cup Elements(t) /\ h # System
  BY <1>2, ElementsOfTail, DnsAssumption DEF DialTypeOK, Progress
<1>5. DialTypeOK'
  <2>1. servers' \in Seq(DnsServers)
    <3>1. servers' \in {<<>>, t}
      BY <1>3, Zenon
    <3> QED BY <3>1, NoneTyped, Zenon
  <2>3. ips' \in Seq(Addresses)
    BY <1>1
  <2>2. /\ asked' \subseteq DnsServers \cup {System} /\ answered' \subseteq asked'
        /\ offered' \subseteq Addresses
    BY <1>1, <1>2 DEF DialTypeOK
  <2> QED BY <1>2, <1>3, <2>1, <2>2, <2>3 DEF DialTypeOK, Ended
<1>6. ConfRead' /\ AskedOnly'
  BY <1>2, <1>3, <1>4 DEF ConfRead, AskedOnly, Progress
<1>7. Progress' /\ FailsForCause'
  BY <1>2, <1>3, <1>4, ElementsOfNone DEF Progress, FailsForCause
<1> QED BY <1>5, <1>6, <1>7

LEMMA ConnectFailsStep ==
  ASSUME DialInv, ConnectFails
  PROVE  DialInv'
<1> USE DEF DialInv
<1>1. step = "connect" /\ ips # <<>> /\ ips \in Seq(Addresses)
  BY DEF ConnectFails, Progress, DialTypeOK
<1> PICK h \in Addresses : h = Head(ips)
  BY <1>1, ElementsOfTail
<1> PICK t \in Seq(Addresses) : t = Tail(ips)
  BY <1>1, ElementsOfTail
<1>2. Elements(ips) = {h} \cup Elements(t)
  BY <1>1, ElementsOfTail
<1>3. /\ h \notin reachable /\ ips' = t
      /\ UNCHANGED <<dnsConf, activeDNS, link, reachable, asked, answered, offered>>
  BY DEF ConnectFails
<1>4. \/ t # <<>> /\ UNCHANGED <<step, servers, again>>
      \/ /\ t = <<>> /\ (again \/ activeDNS = <<>>)
         /\ step' = "failed" /\ UNCHANGED <<servers, again>>
      \/ /\ t = <<>> /\ ~again /\ activeDNS # <<>>
         /\ step' = "lookup" /\ servers' = activeDNS /\ again' = TRUE
  BY DEF ConnectFails, Exhausted
<1>5. DialTypeOK'
  BY <1>3, <1>4 DEF DialTypeOK, Ended
<1>6. ConfRead' /\ AskedOnly'
  BY <1>1, <1>3, <1>4 DEF ConfRead, AskedOnly
<1>7. Progress' /\ FailsForCause'
  <2>1. Elements(<<>>) = {} /\ offered \cap reachable \subseteq Elements(t)
    BY <1>1, <1>2, <1>3, ElementsOfNone DEF Progress
  <2>2. CASE t # <<>> /\ UNCHANGED <<step, servers, again>>
    BY <1>1, <1>3, <2>1, <2>2 DEF Progress, FailsForCause
  <2>3. CASE /\ t = <<>> /\ (again \/ activeDNS = <<>>)
             /\ step' = "failed" /\ UNCHANGED <<servers, again>>
    BY <1>1, <1>3, <2>1, <2>3 DEF Progress, FailsForCause
  <2>4. CASE /\ t = <<>> /\ ~again /\ activeDNS # <<>>
             /\ step' = "lookup" /\ servers' = activeDNS /\ again' = TRUE
    BY <1>1, <1>3, <2>1, <2>4 DEF Progress, FailsForCause
  <2> QED BY <1>4, <2>2, <2>3, <2>4
<1> QED BY <1>5, <1>6, <1>7

LEMMA DialNextStep == DialInv /\ [DialNext]_dialVars => DialInv'
<1> SUFFICES ASSUME DialInv, [DialNext]_dialVars PROVE DialInv'
  OBVIOUS
<1>1. CASE Connect
  BY <1>1 DEF Connect, DialInv, DialTypeOK, Ended, ConfRead, AskedOnly, Progress, FailsForCause
<1>2. CASE Expire
  BY <1>2 DEF Expire, DialInv, DialTypeOK, Ended, ConfRead, AskedOnly, Progress, FailsForCause
<1>3. CASE UNCHANGED dialVars
  BY <1>3 DEF dialVars, dialled, DialInv, DialTypeOK, ConfRead, AskedOnly, Progress,
     FailsForCause
<1> QED BY <1>1, <1>2, <1>3, UseStep, DialStep, AskSystemStep, AskServerStep,
       ConnectFailsStep DEF DialNext

(* A dial fails only for a cause, and the domestic link asks only whom     *)
(* dns.conf names (fixedDNSDialer, fallbackResolver): for any file, any    *)
(* number of servers and addresses, and any answers.                       *)
THEOREM DialAsksAsConfigured == DialSpec => []AsksAsConfigured
<1>1. DialInv => DomesticStaysFixed
  <2> SUFFICES ASSUME DialInv, link = "domestic", step \notin {"off", "idle"}
               PROVE  /\ asked \ {System} \subseteq Elements(Named(dnsConf))
                      /\ System \in asked => System \in Elements(dnsConf) \/ Named(dnsConf) = <<>>
                      /\ activeDNS = Loaded(dnsConf)
    BY DEF DomesticStaysFixed
  <2>1. dnsConf # NoFile /\ activeDNS = Loaded(dnsConf)
    BY DEF DialInv, ConfRead
  <2>2. activeDNS = IF System \in Elements(dnsConf) THEN <<>> ELSE Named(dnsConf)
    BY <2>1 DEF Loaded
  <2> QED BY <2>1, <2>2, ElementsOfNone DEF DialInv, AskedOnly
<1>2. DialInv => FailsForCause
  BY DEF DialInv
<1> QED BY <1>1, <1>2, DialStart, DialNextStep, PTL DEF DialSpec, AsksAsConfigured

(* Every variable of a dial keeps to its values, for any dns.conf, any     *)
(* servers and addresses, and any answers.                                 *)
THEOREM DialTypeCorrect == DialSpec => []DialTypeOK
<1>1. DialInv => DialTypeOK
  BY DEF DialInv
<1> QED BY <1>1, DialStart, DialNextStep, PTL DEF DialSpec

-----------------------------------------------------------------------------
(***************************************************************************)
(* LoginDialog: one chain of polls, for any number of starts.              *)
(***************************************************************************)

(* Each start is remembered with a generation of its own, later starts with*)
(* later ones; closing twice as often as starting bounds the generation.   *)
DialogTyped ==
  /\ DialogTypeOK
  /\ generation <= 3 * starts - (IF open THEN 2 ELSE 0)
  /\ \A c \in Starts : c > starts => start[c] = "none" /\ chain[c] = "none"
  /\ \A c \in Starts : c <= starts => gen[c] <= generation
  /\ \A c, d \in Starts : c < d /\ d <= starts => gen[c] < gen[d]

(* Nothing but the request of a start or its chain of polls moves.         *)
ChainStep(c) ==
  \/ ServeStart(c) \/ RefuseStart(c) \/ DropStart(c) \/ StartAnswered(c) \/ StartFailed(c)
  \/ Served(c) \/ LosePoll(c) \/ DropPoll(c) \/ Waits(c) \/ GivesUp(c) \/ Succeeds(c)
  \/ SyncedLate(c) \/ Poll(c) \/ AuthorizeLogin(c) \/ LoseLogin(c)

LEMMA ChainTyped ==
  ASSUME DialogTyped, NEW c \in Starts, ChainStep(c)
  PROVE  DialogTyped'
<1> USE DEF DialogTyped, DialogTypeOK
<1>1. UNCHANGED <<generation, open, starts, gen>>
  BY DEF ChainStep, ServeStart, RefuseStart, DropStart, StartAnswered, StartFailed, Served,
         ServePoll, ServeComplete, ServeGone, LosePoll, DropPoll, Waits, GivesUp, Succeeds,
         SyncedLate, Poll, AuthorizeLogin, LoseLogin, dialog
<1>2. /\ stage' \in {"starting", "ready", "error"}
      /\ status' \in {"waiting", "failing", "success"}
      /\ loginId' \in Starts \cup {NoLogin}
  BY DEF ChainStep, ServeStart, RefuseStart, DropStart, StartAnswered, StartFailed, Served,
         ServePoll, ServeComplete, ServeGone, LosePoll, DropPoll, Waits, GivesUp, Succeeds,
         SyncedLate, Poll, AuthorizeLogin, LoseLogin, dialog
<1>3. c <= starts \/ UNCHANGED <<start, chain>>
  BY DEF ChainStep, ServeStart, RefuseStart, DropStart, StartAnswered, StartFailed, Served,
         ServePoll, ServeComplete, ServeGone, LosePoll, DropPoll, Waits, GivesUp, Succeeds,
         SyncedLate, Poll, AuthorizeLogin, LoseLogin, Starts, Answers
<1>4. \E x \in {"none", "sent", "opened", "refused", "done"} : start' = [start EXCEPT ![c] = x]
  BY DEF ChainStep, ServeStart, RefuseStart, DropStart, StartAnswered, StartFailed, Served,
         ServePoll, ServeComplete, ServeGone, LosePoll, DropPoll, Waits, GivesUp, Succeeds,
         SyncedLate, Poll, AuthorizeLogin, LoseLogin
<1>5. \E x \in {"none", "timer", "sent", "loading"} \cup Answers : chain' = [chain EXCEPT ![c] = x]
  BY DEF ChainStep, ServeStart, RefuseStart, DropStart, StartAnswered, StartFailed, Served,
         ServePoll, ServeComplete, ServeGone, LosePoll, DropPoll, Waits, GivesUp, Succeeds,
         SyncedLate, Poll, AuthorizeLogin, LoseLogin, Hear, Answers
<1>6. \E x \in {"none", "waiting", "authorized", "added", "gone"} :
        remote' = [remote EXCEPT ![c] = x]
  BY DEF ChainStep, ServeStart, RefuseStart, DropStart, StartAnswered, StartFailed, Served,
         ServePoll, ServeComplete, ServeGone, LosePoll, DropPoll, Waits, GivesUp, Succeeds,
         SyncedLate, Poll, AuthorizeLogin, LoseLogin
<1> QED BY <1>1, <1>2, <1>3, <1>4, <1>5, <1>6 DEF Starts

(* The steps that stop the polling.                                        *)
LEMMA StopTyped ==
  ASSUME DialogTyped, StartLogin \/ CloseDialog \/ \E c \in Starts : Synced(c)
  PROVE  DialogTyped'
<1> USE DEF DialogTyped, DialogTypeOK, StopLoginPolling, Starts
<1>0. MaxStarts \in Nat
  BY StartsAssumption
<1>1. CASE StartLogin
  <2>1. /\ starts' = starts + 1 /\ generation' = generation + 1 /\ open' = TRUE
        /\ starts < MaxStarts /\ starts + 1 \in Starts
    BY <1>0, <1>1 DEF StartLogin
  <2>2. generation' <= 3 * starts' - 2 /\ generation' \in 0 .. 3 * MaxStarts
    BY <1>0, <2>1
  <2>3. /\ gen' = [gen EXCEPT ![starts + 1] = generation']
        /\ start' = [start EXCEPT ![starts + 1] = "sent"]
        /\ chain' = [c \in Starts |-> IF chain[c] = "timer" THEN "none" ELSE chain[c]]
        /\ stage' = "starting" /\ loginId' = NoLogin /\ UNCHANGED <<status, remote>>
    BY <1>1 DEF StartLogin
  <2>4. DialogTypeOK'
    BY <1>0, <2>1, <2>2, <2>3
  <2>5. \A c \in Starts : c > starts' => start'[c] = "none" /\ chain'[c] = "none"
    BY <1>0, <2>1, <2>3
  <2>6. \A c \in Starts : gen'[c] = IF c = starts + 1 THEN generation + 1 ELSE gen[c]
    BY <2>1, <2>3
  <2>7. \A c \in Starts : c \in Nat /\ gen[c] \in Nat
    BY <1>0
  <2>8. ASSUME NEW c \in Starts, c <= starts' PROVE gen'[c] <= generation'
    <3>1. c = starts + 1 \/ c <= starts
      BY <2>1, <2>7, <2>8
    <3> QED BY <2>1, <2>6, <2>7, <3>1
  <2>9. ASSUME NEW c \in Starts, NEW d \in Starts, c < d, d <= starts'
        PROVE  gen'[c] < gen'[d]
    <3>1. c <= starts /\ gen'[c] = gen[c] /\ gen[c] <= generation
      BY <2>1, <2>6, <2>7, <2>9
    <3>2. d = starts + 1 \/ d <= starts
      BY <2>1, <2>7, <2>9
    <3> QED BY <2>1, <2>6, <2>7, <2>9, <3>1, <3>2
  <2> QED BY <2>1, <2>2, <2>4, <2>5, <2>8, <2>9
<1>2. ASSUME CloseDialog \/ \E c \in Starts : Synced(c) PROVE DialogTyped'
  <2>1. /\ open /\ open' = FALSE /\ UNCHANGED <<stage, status, loginId, starts, gen, start, remote>>
        /\ generation' \in {generation + 1, generation + 2}
        /\ chain' \in [Starts -> {"none", "timer", "sent", "loading"} \cup Answers]
        /\ \A c \in Starts : chain'[c] \in {"none", chain[c]}
    <3>1. CASE CloseDialog
      BY <3>1 DEF CloseDialog
    <3>2. ASSUME NEW c \in Starts, Synced(c)
          PROVE  /\ open /\ open' = FALSE /\ generation' = generation + 1
                 /\ UNCHANGED <<stage, status, loginId, starts, gen, start, remote>>
                 /\ chain' = [k \in Starts |->
                                IF k = c \/ chain[k] = "timer" THEN "none" ELSE chain[k]]
      BY <3>2 DEF Synced
    <3> QED BY <1>2, <3>1, <3>2
  <2>2. generation' <= 3 * starts' /\ generation' \in 0 .. 3 * MaxStarts
    BY <1>0, <2>1
  <2>3. \A c \in Starts : c > starts => chain'[c] = "none"
    BY <2>1
  <2>4. ASSUME NEW c \in Starts, c <= starts PROVE gen[c] <= generation'
    <3>1. gen[c] \in Nat /\ generation \in Nat /\ gen[c] <= generation
      BY <1>0, <2>4
    <3> QED BY <2>1, <3>1
  <2>5. DialogTypeOK'
    BY <2>1, <2>2
  <2>6. generation' <= 3 * starts' - (IF open' THEN 2 ELSE 0)
    BY <2>1, <2>2
  <2> HIDE DEF DialogTypeOK, StopLoginPolling, Starts
  <2> QED BY <2>1, <2>3, <2>4, <2>5, <2>6
<1> QED BY <1>1, <1>2

LEMMA DialogSplits ==
  ASSUME DialogNext
  PROVE  \/ StartLogin \/ CloseDialog
         \/ \E c \in Starts : ChainStep(c) \/ Synced(c)
  BY DEF DialogNext, Reacts, ChainStep

LEMMA DialogTypedStep == DialogTyped /\ [DialogNext]_dialogVars => DialogTyped'
<1>1. ASSUME DialogTyped, DialogNext PROVE DialogTyped'
  BY <1>1, DialogSplits, ChainTyped, StopTyped
<1>2. ASSUME DialogTyped, UNCHANGED dialogVars PROVE DialogTyped'
  BY <1>2 DEF dialogVars, dialog, DialogTyped, DialogTypeOK
<1> QED BY <1>1, <1>2

LEMMA DialogTypedInit == DialogInit => DialogTyped
<1> SUFFICES ASSUME DialogInit PROVE DialogTyped
  OBVIOUS
<1>1. MaxStarts \in Nat /\ \A c \in Starts : c \in Nat /\ c > 0
  BY StartsAssumption DEF Starts
<1>2. DialogTypeOK
  <2>1. 0 \in 0 .. 3 * MaxStarts /\ 0 \in 0 .. MaxStarts
    BY <1>1
  <2> QED BY <2>1 DEF DialogInit, DialogTypeOK, NoLogin
<1>3. starts = 0 /\ generation = 0 /\ ~open /\ \A c \in Starts : start[c] = "none" /\ chain[c] = "none"
  BY DEF DialogInit
<1>4. \A c, d \in Starts : ~(d <= starts)
  BY <1>1, <1>3
<1> QED BY <1>2, <1>3, <1>4 DEF DialogTyped

LEMMA DialogTypedAlways == DialogSpec => []DialogTyped
  BY DialogTypedInit, DialogTypedStep, PTL DEF DialogSpec

(* startLogin, stopLoginPolling: however often the dialog is closed and    *)
(* opened, one chain at most polls on behalf of the opening that is shown. *)
THEOREM DialogOneChain == DialogSpec => []OneChain
<1>1. DialogTyped => OneChain
  <2> SUFFICES ASSUME DialogTyped PROVE OneChain
    OBVIOUS
  <2> DEFINE S == {c \in Starts : Waiting(c) /\ Current(c)}
  <2>1. \A c \in S : c <= starts
    BY DEF DialogTyped, DialogTypeOK, Waiting, Starts
  <2>2. ASSUME NEW c \in S, NEW d \in S, c # d PROVE FALSE
    <3>1. c < d \/ d < c
      BY <2>2, StartsAssumption DEF Starts
    <3>2. gen[c] = gen[d] /\ gen[c] \in Int /\ gen[d] \in Int
      BY DEF Current, DialogTyped, DialogTypeOK
    <3> QED BY <2>1, <3>1, <3>2 DEF DialogTyped
  <2>3. CASE S = {}
    BY <2>3, FS_EmptySet DEF OneChain
  <2>4. ASSUME NEW c \in S PROVE Cardinality(S) = 1
    <3>1. S = {c}
      BY <2>2
    <3> QED BY <3>1, FS_Singleton
  <2> QED BY <2>3, <2>4 DEF OneChain
<1> QED BY <1>1, DialogTypedAlways, PTL

(* Every variable of the login dialog keeps to its values; its generations *)
(* are three for each start at most, for any number of starts.             *)
THEOREM DialogTypeCorrect == DialogSpec => []DialogTypeOK
<1>1. DialogTyped => DialogTypeOK
  BY DEF DialogTyped
<1> QED BY <1>1, DialogTypedAlways, PTL

-----------------------------------------------------------------------------
(* What is under way belongs to the opening that is shown, or to none.     *)
ResultInv ==
  /\ \A c \in Starts : chain[c] # "none" /\ Current(c) => c = loginId
  /\ \A c \in Starts : start[c] # "done" => chain[c] = "none"
  /\ \A c \in Starts : chain[c] \in {"complete", "loading"} => remote[c] = "added"
  /\ loginId # NoLogin => start[loginId] = "done"
  /\ open /\ stage = "ready" => loginId # NoLogin /\ Current(loginId)
  /\ open /\ stage = "ready" /\ status = "success" => remote[loginId] = "added"

LEMMA ResultStep == DialogTyped /\ ResultInv /\ [DialogNext]_dialogVars => ResultInv'
<1> SUFFICES ASSUME DialogTyped, ResultInv, [DialogNext]_dialogVars PROVE ResultInv'
  OBVIOUS
<1> USE DEF ResultInv
<1>0. /\ DOMAIN gen = Starts /\ DOMAIN start = Starts /\ DOMAIN chain = Starts
      /\ DOMAIN remote = Starts /\ loginId \in Starts \cup {NoLogin} /\ NoLogin \notin Starts
  BY StartsAssumption DEF DialogTyped, DialogTypeOK, NoLogin, Starts
<1>1. CASE StartLogin
  <2>1. /\ open' = TRUE /\ stage' = "starting" /\ loginId' = NoLogin /\ remote' = remote
        /\ start' = [start EXCEPT ![starts + 1] = "sent"]
        /\ gen' = [gen EXCEPT ![starts + 1] = generation']
        /\ generation' = generation + 1 /\ starts + 1 > starts
        /\ \A c \in Starts : chain'[c] \in {"none", chain[c]}
    BY <1>1 DEF StartLogin, StopLoginPolling, DialogTyped, DialogTypeOK
  <2>2. ASSUME NEW c \in Starts, chain'[c] # "none" PROVE gen'[c] # generation' /\ start'[c] = start[c]
    <3>1. c <= starts /\ c # starts + 1
      BY <2>1, <2>2 DEF DialogTyped, DialogTypeOK, Starts
    <3>2. gen'[c] = gen[c] /\ gen[c] <= generation /\ gen[c] \in Nat /\ generation \in Nat
      BY <1>0, <2>1, <3>1 DEF DialogTyped, DialogTypeOK
    <3> QED BY <1>0, <2>1, <3>1, <3>2
  <2> QED BY <1>0, <2>1, <2>2 DEF Current
<1>2. ASSUME CloseDialog \/ \E c \in Starts : Synced(c) PROVE ResultInv'
  <2>1. /\ open' = FALSE /\ UNCHANGED <<stage, status, loginId, starts, gen, start, remote>>
        /\ generation' \in {generation + 1, generation + 2}
        /\ \A c \in Starts : chain'[c] \in {"none", chain[c]}
    <3>1. CASE CloseDialog
      BY <3>1 DEF CloseDialog, StopLoginPolling
    <3>2. ASSUME NEW c \in Starts, Synced(c)
          PROVE  /\ open' = FALSE /\ generation' = generation + 1
                 /\ UNCHANGED <<stage, status, loginId, starts, gen, start, remote>>
                 /\ \A k \in Starts : chain'[k] \in {"none", chain[k]}
      BY <3>2 DEF Synced
    <3> QED BY <1>2, <3>1, <3>2
  <2>2. ASSUME NEW c \in Starts, chain'[c] # "none" PROVE gen[c] # generation'
    <3>1. c <= starts /\ gen[c] <= generation /\ gen[c] \in Nat /\ generation \in Nat
      BY <2>1, <2>2 DEF DialogTyped, DialogTypeOK, Starts
    <3> QED BY <2>1, <3>1
  <2> QED BY <2>1, <2>2 DEF Current
<1>3. ASSUME NEW c \in Starts, ChainStep(c) PROVE ResultInv'
  <2> USE DEF dialog, Hear, Current, Answers
  <2>1. CASE ServeStart(c) \/ RefuseStart(c) \/ DropStart(c)
    BY <1>0, <2>1 DEF ServeStart, RefuseStart, DropStart
  <2>2. CASE StartAnswered(c)
    <3>1. ASSUME NEW k \in Starts, chain[k] # "none", Current(k) PROVE k = c
      <4>1. k <= starts /\ c <= starts /\ k \in Int /\ c \in Int
        BY <2>2, <3>1 DEF StartAnswered, DialogTyped, DialogTypeOK, Starts
      <4>2. gen[k] = gen[c] /\ gen[k] \in Int
        BY <2>2, <3>1 DEF StartAnswered, DialogTyped, DialogTypeOK
      <4> QED BY <4>1, <4>2 DEF DialogTyped
    <3> QED BY <1>0, <2>2, <3>1 DEF StartAnswered
  <2>3. CASE StartFailed(c)
    BY <1>0, <2>3 DEF StartFailed
  <2>4. CASE ServePoll(c) \/ ServeGone(c) \/ LosePoll(c) \/ Poll(c)
    BY <1>0, <2>4 DEF ServePoll, ServeGone, LosePoll, Poll
  <2>5. CASE ServeComplete(c)
    BY <1>0, <2>5 DEF ServeComplete
  <2>6. CASE DropPoll(c) \/ GivesUp(c) \/ SyncedLate(c)
    BY <1>0, <2>6 DEF DropPoll, GivesUp, SyncedLate
  <2>7. CASE Waits(c)
    BY <1>0, <2>7 DEF Waits
  <2>8. CASE Succeeds(c)
    BY <1>0, <2>8 DEF Succeeds, Looks
  <2>9. CASE AuthorizeLogin(c) \/ LoseLogin(c)
    BY <1>0, <2>9 DEF AuthorizeLogin, LoseLogin
  <2> QED BY <1>3, <2>1, <2>2, <2>3, <2>4, <2>5, <2>6, <2>7, <2>8, <2>9 DEF ChainStep, Served
<1>4. CASE UNCHANGED dialogVars
  BY <1>4 DEF dialogVars, dialog, Current
<1> QED BY <1>1, <1>2, <1>3, <1>4, DialogSplits

(* pollLogin: the dialog shows a success, and closes itself, only for the  *)
(* session it opened, and only when the account of that session was added. *)
THEOREM DialogOwnResult == DialogSpec => []OwnResult
<1>1. DialogInit => ResultInv
  BY DEF DialogInit, ResultInv
<1>2. ResultInv => OwnResult
  BY DEF ResultInv, OwnResult, Looks
<1> QED BY <1>1, <1>2, DialogTypedInit, DialogTypedStep, ResultStep, PTL DEF DialogSpec
=============================================================================
