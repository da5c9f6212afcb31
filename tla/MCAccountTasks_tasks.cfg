SPECIFICATION Spec
CONSTANTS
  a1 = a1
  h1 = h1
  h2 = h2
  s = s
  Nobody = Nobody
  Accounts = {a1}
  Procs = {h1, h2, s}
  Sched = s
  ManualOps = {"active", "checkin"}
  Replies = {"auth", "credits"}
  Faults = {}
  MaxDay = 2
  MaxBal = 1
INVARIANTS NoRepeat NoStuckRunning
SYMMETRY Handlers
