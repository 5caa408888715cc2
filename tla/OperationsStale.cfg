SPECIFICATION Spec
CONSTANTS
  admin = admin
  r1 = r1
  None = None
  Slots = {1, 2}
  Big = {}
  Automatic = {1}
  Once = {2}
  Requests = {r1}
  Keys = {admin}
  Admins = {admin}
  Ttl = 1
  Grace = 1
  Display = 1
  MaxBuild = 0
  MaxTime = 2
  MaxChanges = 3
INVARIANTS
  SeesPlaying
  ShownOnce
CHECK_DEADLOCK FALSE
