SPECIFICATION Spec
CONSTANTS
  admin = admin
  r1 = r1
  None = None
  Slots = {1, 2, 3}
  Big = {3}
  Automatic = {1}
  Once = {2, 3}
  Requests = {r1}
  Keys = {admin}
  Admins = {admin}
  Ttl = 1
  Grace = 1
  Display = 1
  MaxBuild = 0
  MaxTime = 2
  MaxChanges = 3
INVARIANTS
  ShowsTheGame
  EachSlotOnce
  StaleOnlyBriefly
CHECK_DEADLOCK FALSE
