---------------------------- MODULE ImportMerge -----------------------------
(***************************************************************************)
(* internal/store ImportInto: the accounts of another data directory are   *)
(* added to this one, one turn of its loop at a time.                      *)
(***************************************************************************)
EXTENDS Naturals, FiniteSets, SequencesExt

CONSTANTS Ids,       \* account IDs in use
          FreshIds,  \* IDs that uniqueAccountID may draw
          NoId,      \* an account without an ID
          Users,     \* accountImportKey: version and UID
          NoUser,    \* an account without a UID
          Limits,    \* account limits (50 in the code)
          MaxLength  \* accounts in each of the directories of a run

ASSUME MergeAssumption ==
  /\ Limits \subseteq Nat /\ MaxLength \in Nat
  /\ NoId \notin Ids \cup FreshIds /\ NoUser \notin Users
  /\ Cardinality(FreshIds) >= MaxLength

Account == [id : Ids \cup {NoId}, user : Users \cup {NoUser}]

VARIABLES source,    \* accounts of the source
          target,    \* accounts of the destination before the import
          limit,     \* how many the destination may hold
          toImport,  \* accounts to add
          turn,      \* the account of the source that is looked at
          outcome    \* "running", "none", "refused", "merged"

mergeVars == <<source, target, limit, toImport, turn, outcome>>

UsersIn(s) == {s[i].user : i \in DOMAIN s}
IdsIn(s)   == {s[i].id : i \in DOMAIN s}
NoneTwice(s) ==
  \A i, j \in DOMAIN s :
    s[i].id = s[j].id \/ (s[i].user = s[j].user /\ s[i].user # NoUser) => i = j

(* The destination is one the program has kept: IDs are given and differ,  *)
(* no user is there twice.  The source may come from anywhere.             *)
MergeInit ==
  /\ source \in SeqOf(Account, MaxLength)
  /\ target \in SeqOf([id : Ids, user : Users \cup {NoUser}], MaxLength)
  /\ NoneTwice(target)
  /\ limit \in Limits /\ Len(target) <= limit
  /\ toImport = <<>>
  /\ turn = 1
  /\ outcome = "running"

existing    == (UsersIn(target) \cup UsersIn(toImport)) \ {NoUser}
existingIDs == (IdsIn(target) \cup IdsIn(toImport)) \ {NoId}

(* Mutated NewAccount: only the destination is looked at.                  *)
NewInTarget(a) == a.user \notin UsersIn(target) \cup {NoUser}

NewAccount(a) == a.user \notin existing \cup {NoUser}

(* Mutated Renamed: an ID that is in use is kept.                          *)
RenamedIfBlank(a) ==
  IF a.id = NoId
    THEN {[a EXCEPT !.id = i] : i \in FreshIds \ existingIDs}
    ELSE {a}

(* A missing ID or one that is in use is drawn anew until it is unique.    *)
Renamed(a) ==
  IF a.id \in existingIDs \cup {NoId}
    THEN {[a EXCEPT !.id = i] : i \in FreshIds \ existingIDs}
    ELSE {a}

Look ==
  /\ outcome = "running"
  /\ turn <= Len(source)
  /\ IF NewAccount(source[turn])
       THEN \E a \in Renamed(source[turn]) : toImport' = Append(toImport, a)
       ELSE UNCHANGED toImport
  /\ turn' = turn + 1
  /\ UNCHANGED <<source, target, limit, outcome>>

Finish ==
  /\ outcome = "running"
  /\ turn > Len(source)
  /\ outcome' =
       CASE toImport = <<>> -> "none"
         [] toImport # <<>> /\ Len(target) + Len(toImport) > limit -> "refused"
         [] OTHER -> "merged"
  /\ UNCHANGED <<source, target, limit, toImport, turn>>

MergeNext == Look \/ Finish

MergeSpec == MergeInit /\ [][MergeNext]_mergeVars

-----------------------------------------------------------------------------
(* What the import is to do, told from the two lists alone.                *)
Missing == UsersIn(source) \ (UsersIn(target) \cup {NoUser})
Result  == target \o toImport

(* A merged directory still has every account it had, has every user of    *)
(* the source once, no ID twice and no more than the limit; an import is   *)
(* refused only when the users it would add do not fit, and nothing is     *)
(* saved only when none is missing.                                        *)
MergeExact ==
  CASE outcome = "merged" ->
         /\ UsersIn(Result) \ UsersIn(target) = Missing
         /\ NoneTwice(Result)
         /\ NoId \notin IdsIn(Result)
         /\ Len(Result) <= limit
    [] outcome = "none"    -> Missing = {}
    [] outcome = "refused" -> Len(target) + Cardinality(Missing) > limit
    [] OTHER               -> TRUE
=============================================================================
