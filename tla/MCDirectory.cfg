SPECIFICATION PartsSpec
CONSTANTS
  direct = direct
  proxyA = proxyA
  proxyB = proxyB
  early = early
  late = late
  Absent = Absent
  Proxies = {direct, proxyA, proxyB}
  Others = {early, late}
  Faults <- AllFaults
  r1 = r1
  r2 = r2
  c1 = c1
  c2 = c2
  c3 = c3
  Processes = {r1, r2}
  Acquirers = {c1, c2, c3}
  ProcessOf <- Callers
  Unlocked = Unlocked
  k1 = k1
  k2 = k2
  k3 = k3
  Programs = {p1, p2}
  Dirs = {d1, d2}
  a = a
  b = b
  Accounts = {a, b}
  Keys = {k1, k2, k3}
  MaxKept = 1
  Ids = {x, y}
  FreshIds = {x, y, f1, f2}
  NoId = NoId
  Users = {u, v}
  NoUser = NoUser
  Limits = {2, 3}
  MaxLength = 2
INVARIANTS RestartKeepsAcked RestartOldOrNew OneOwner NothingLeftLocked OwnerKnowsContent MergeExact
PROPERTIES KeyFileKept
SYMMETRY KeySymmetry
