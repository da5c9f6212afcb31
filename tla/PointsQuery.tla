---------------------------- MODULE PointsQuery -----------------------------
(***************************************************************************)
(* internal/client Points: the balance of an account is the sum over its   *)
(* packages, which the service hands out page by page.  It may say how     *)
(* many there are, or say it on some pages only, may hand out shorter      *)
(* pages than were asked for, and may change the list between two requests.*)
(* One action is one request with everything the client does about its     *)
(* answer.                                                                 *)
(***************************************************************************)
EXTENDS Integers, Sequences

CONSTANTS Count,    \* bound: the packages that exist are 1 .. Count, in this order
          Raw,      \* the figures that the service gives for each package
          PageSize, \* pointsPageSize
          MaxPages, \* pointsMaxPages
          Caps      \* the page lengths that services keep to, PageSize or less

Packages == 1 .. Count

Figures == [cycleRemain: Int, cycleUsed: Int, cycleSize: Int, remain: Int, used: Int, size: Int]

ASSUME BoundsAssumption ==
  /\ Count \in Nat /\ PageSize \in Nat \ {0} /\ MaxPages \in Nat \ {0}
  /\ Caps \subseteq 1 .. PageSize
ASSUME RawAssumption == Raw \in [Packages -> Figures]

VARIABLES present,  \* the packages that the service holds
          cap,      \* the length of its pages
          page,     \* pageNumber
          expected, \* expectedTotal
          got,      \* PointResult.Packages
          sum,      \* PointResult.Balance, Used and Total
          phase,    \* "ask", or how the query ended
          changed   \* history: the list changed during the query

vars == <<present, cap, page, expected, got, sum, phase, changed>>

Unknown == -1
Sums == [balance: Int, used: Int, total: Int]
Nothing == [balance |-> 0, used |-> 0, total |-> 0]

TypeOK ==
  /\ present \subseteq Packages
  /\ cap \in Caps
  /\ page \in 1 .. MaxPages
  /\ expected \in {Unknown} \cup 0 .. PageSize * MaxPages
  /\ got \in Seq(Packages)
  /\ sum \in Sums
  /\ phase \in {"ask", "done", "protocol", "failed"}
  /\ changed \in BOOLEAN

Init ==
  /\ present \in SUBSET Packages
  /\ cap \in Caps
  /\ page = 1 /\ expected = Unknown
  /\ got = <<>> /\ sum = Nothing
  /\ phase = "ask"
  /\ changed = FALSE

-----------------------------------------------------------------------------
Least(a, b) == IF a < b THEN a ELSE b
Most(a, b)  == IF a > b THEN a ELSE b

(* The figures of the current cycle, where the service gives any: the used *)
(* part outweighs the remaining one where they contradict each other.      *)
CycleValues(f) ==
  LET remain == Least(Most(f.cycleRemain, 0), f.cycleSize)
      used   == Most(f.cycleUsed, f.cycleSize - remain)
  IN  [total  |-> f.cycleSize,
       used   |-> used,
       remain |-> IF used > f.cycleSize - remain /\ used <= f.cycleSize
                    THEN f.cycleSize - used ELSE remain]

(* Mutated PlainValues: what remains may exceed the size of the package.   *)
PlainUnclamped(f) ==
  LET remain == Most(f.remain, 0)
  IN  [total |-> f.size, used |-> f.used, remain |-> remain]

PlainValues(f) ==
  LET remain == IF f.size > 0 THEN Least(Most(f.remain, 0), f.size) ELSE Most(f.remain, 0)
  IN  [total  |-> f.size,
       used   |-> IF f.used = 0 /\ f.size > remain THEN f.size - remain ELSE f.used,
       remain |-> remain]

(* packageValues                                                           *)
PackageValues(f) ==
  IF f.cycleSize > 0 \/ f.cycleRemain # 0 \/ f.cycleUsed # 0
    THEN CycleValues(f) ELSE PlainValues(f)

(* appendPointsPackages adds the figures of each package of a page.        *)
Add(s, v) == [balance |-> s.balance + v.remain, used |-> s.used + v.used, total |-> s.total + v.total]
Added(list) ==
  LET S[n \in 0 .. Len(list)] ==
        IF n = 0 THEN sum ELSE Add(S[n - 1], PackageValues(Raw[list[n]]))
  IN  S[Len(list)]

(* The packages there are, in their order.                                 *)
ListTo[n \in 0 .. Count] ==
  IF n = 0 THEN <<>>
  ELSE IF n \in present THEN Append(ListTo[n - 1], n) ELSE ListTo[n - 1]
List == ListTo[Count]

(* Page n of the service's list.                                           *)
PageOf(n) == SubSeq(List, (n - 1) * cap + 1, Least(n * cap, Len(List)))

End(how, known) == phase' = how /\ expected' = known /\ UNCHANGED <<page, got, sum>>

(* totalCount: absent, or the number of packages there are now.            *)
Totals == {Unknown, Len(List)}

(* Mutated Misplaced: the last number that still fits counts as too large. *)
MisplacedEarly(total) ==
  total # Unknown /\ (total >= PageSize * MaxPages \/ expected \notin {Unknown, total})

(* The number is out of range, or is not that of the pages before.         *)
Misplaced(total) ==
  total # Unknown /\ (total > PageSize * MaxPages \/ expected \notin {Unknown, total})

(* Mutated Empty: an empty page always ends the list.                      *)
EmptyEnds(known) == End("done", known)

(* An empty page: the list is complete, or a page was lost on the way.     *)
Empty(known) ==
  End(IF known = Unknown \/ Len(got) >= known THEN "done" ELSE "protocol", known)

(* Mutated Complete: a page of any length is taken for the last one.       *)
CompleteAtOnce(known, all, list) ==
  IF known # Unknown THEN Len(all) = known ELSE TRUE

(* The list is complete: by its number, or by a page that is not full.     *)
Complete(known, all, list) ==
  IF known # Unknown THEN Len(all) = known ELSE Len(list) < PageSize

(* The loop over the pages is bounded.                                     *)
Further == IF page = MaxPages THEN "protocol" ELSE "ask"

(* A page with packages: stop, refuse, or go on to the next page.          *)
Take(known, list) ==
  LET all == got \o list
      over == known # Unknown /\ Len(all) > known
  IN  /\ got' = all /\ expected' = known /\ sum' = Added(list)
      /\ phase' = CASE over -> "protocol"
                    [] ~over /\ Complete(known, all, list) -> "done"
                    [] ~over /\ ~Complete(known, all, list) -> Further
      /\ page' = IF phase' = "ask" THEN page + 1 ELSE page

Answer ==
  /\ phase = "ask"
  /\ \E total \in Totals :
       LET known == IF total = Unknown THEN expected ELSE total
           list  == PageOf(page)
       IN  IF Misplaced(total) THEN End("protocol", expected)
           ELSE IF list = <<>> THEN Empty(known) ELSE Take(known, list)
  /\ UNCHANGED <<present, cap, changed>>

(* The request failed, or its answer was not understood (pointsPage).      *)
Fail ==
  /\ phase = "ask"
  /\ End("failed", expected)
  /\ UNCHANGED <<present, cap, changed>>

(* A package expires, is used up or is granted.                            *)
Drift ==
  /\ phase = "ask"
  /\ \E p \in Packages : present' = IF p \in present THEN present \ {p} ELSE present \cup {p}
  /\ changed' = TRUE
  /\ UNCHANGED <<cap, page, expected, got, sum, phase>>

Next == Answer \/ Fail \/ Drift

Spec == Init /\ [][Next]_vars

-----------------------------------------------------------------------------
(* If the list stands still, a query that succeeds has summed up exactly   *)
(* its packages, once each: also when the service keeps to shorter pages,  *)
(* as long as it says how many packages there are (Points).                *)
StableExact ==
  phase = "done" /\ ~changed /\ (expected # Unknown \/ cap = PageSize) => got = List

(* However the list changes, a query never succeeds with fewer packages    *)
(* than the service has named (Points).                                    *)
NeverPartial == phase = "done" /\ expected # Unknown => Len(got) >= expected

(* A list that stands still and fits the pages is not refused; only a full *)
(* list whose number is never named, or one the pages cannot hold, is.     *)
RefusedForCause ==
  phase = "protocol" /\ ~changed =>
    \/ Len(List) > cap * MaxPages
    \/ /\ Len(List) = cap * MaxPages /\ cap = PageSize
       /\ expected = Unknown /\ page = MaxPages

(* The three: a query sums up exactly what there is, or is refused for a   *)
(* cause, and never succeeds with less than the service has named.         *)
ExactOrRefused == StableExact /\ NeverPartial /\ RefusedForCause

(* The balance lies between nothing and the sum of the sizes, whatever the *)
(* service reports, if the packages have sizes (packageValues).            *)
Sized == \A p \in Packages : Raw[p].cycleSize >= 0 /\ PackageValues(Raw[p]).total > 0
BalanceCovered == Sized => 0 <= sum.balance /\ sum.balance <= sum.total
=============================================================================
