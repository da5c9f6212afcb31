SPECIFICATION FairSpec
CONSTANTS
  a1 = a1
  h1 = h1
  h2 = h2
  s = s
  Nobody = Nobody
  Accounts = {a1}
  Procs = {h1, s}
  Sched = s
  ManualOps = {"edit", "points"}
  Replies = {"auth"}
  Faults = {}
  MaxDay = 1
  MaxBal = 1
PROPERTIES OperationEnds RecheckSettles
