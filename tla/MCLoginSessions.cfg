SPECIFICATION FairSpec
CONSTANTS
  p1 = p1
  p2 = p2
  s1 = s1
  s2 = s2
  i1 = i1
  i2 = i2
  i3 = i3
  i4 = i4
  u1 = u1
  u2 = u2
  Nobody = Nobody
  Procs = {p1, p2}
  Sessions = {s1, s2}
  IDs = {i1, i2, i3, i4}
  Users = {u1, u2}
  MaxSessions = 2
  MaxAccounts = 2
INVARIANTS SessionSlots PolledSessionStays CommitsOnce OneAccountPerUser NoStaleWrite
PROPERTIES PollEnds
