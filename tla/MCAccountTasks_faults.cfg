SPECIFICATION Spec
CONSTANTS
  a1 = a1
  h1 = h1
  h2 = h2
  s = s
  Nobody = Nobody
  Accounts = {a1}
  Procs = {h1, s}
  Sched = s
  ManualOps = {"active", "edit", "delete", "login"}
  Replies = {"auth", "error"}
  Faults = {"save", "crash"}
  MaxDay = 2
  MaxBal = 1
INVARIANTS MutualExclusion WorksOnLiveEnabled RecheckSane
