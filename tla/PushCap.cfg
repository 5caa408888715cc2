SPECIFICATION Spec
CONSTANTS
  m1 = m1
  m2 = m2
  n1 = n1
  e1 = e1
  s1 = s1
  s2 = s2
  u1 = u1
  u2 = u2
  d1 = d1
  None = None
  Users = {u1, u2}
  Devices = {d1}
  Marketing = {m1, m2}
  Other = {n1}
  Exempt = {e1}
  Personal = {e1}
  Open = {m1, m2}
  Senders = {s1, s2}
  GlobalMax = 1
  GlobalWindow = 0
  MarketingMax = 1
  MarketingWindow = 1
  Loads <- MCLoads
  MaxTime = 1
INVARIANTS
  MarketingCapKept
  PersonalToldOnce
CHECK_DEADLOCK FALSE
SYMMETRY Interchangeable
