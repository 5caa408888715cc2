SPECIFICATION Spec
CONSTANTS
  admin = admin
  r1 = r1
  None = None
  Slots = {1}
  Big = {}
  Automatic = {1}
  Once = {1}
  Requests = {r1}
  Keys = {admin}
  Admins = {admin}
  Ttl = 1
  Grace = 1
  Display = 1
  MaxBuild = 0
  MaxTime = 5
  MaxChanges = 1
INVARIANTS
  HandoffEnds
CHECK_DEADLOCK FALSE
