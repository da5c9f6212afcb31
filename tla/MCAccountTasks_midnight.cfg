SPECIFICATION Spec
CONSTANTS
  a1 = a1
  h1 = h1
  h2 = h2
  s = s
  Nobody = Nobody
  Accounts = {a1}
  Procs = {h1, s}
  Sched = s
  ManualOps = {"checkin"}
  Replies = {}
  Faults = {}
  MaxDay = 2
  MaxBal = 0
PROPERTIES SkipsOnlyWhatWasSent
