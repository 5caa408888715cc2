SPECIFICATION Spec
CONSTANTS
  p1 = p1
  p2 = p2
  c1 = c1
  c2 = c2
  device = device
  None = None
  Phones = {p1, p2}
  Registered = {p2}
  Blocked = {}
  AdminPhones = {p2}
  Clients = {c1, c2}
  Device <- MCDevice
  Bonus = 10
  SendLimit = 1
  MaxAttempts = 1
  MaxChallenges = 2
  MaxTokens = 2
  MaxRequests = 3
INVARIANTS
  BonusOnce
CHECK_DEADLOCK FALSE
SYMMETRY Interchangeable
