SPECIFICATION Spec
CONSTANTS
  s1 = s1
  s2 = s2
  s3 = s3
  None = None
  Slots = {s1, s2}
  Created = {s1, s2}
  Big = {}
  Once = {s2}
  Automatic = {s1, s2}
  Rule <- MCRule
  Window = 2
  Sessions = {x1, x2, x3}
  Orders <- MCOrders
  AdminMay = {"start", "cancel", "remove", "clear", "reorder", "repair"}
  MaxOperations = 1
  Asked = "first"
INVARIANTS
  OneLivePerSlot
  OpenersOpenOne
PROPERTIES
  RemovedStays
SYMMETRY Interchangeable
VIEW Seen
CHECK_DEADLOCK FALSE
