SPECIFICATION Spec
CONSTANTS
  s1 = s1
  s2 = s2
  s3 = s3
  None = None
  Slots = {s1, s2}
  Created = {s1, s2}
  Big = {}
  Once = {}
  Automatic = {s1, s2}
  Rule <- MCRule
  Window = 2
  Sessions = {x1, x2, x3}
  Orders <- MCOrders
  AdminMay = {}
  MaxOperations = 0
  Asked = "first"
INVARIANTS
  NobodyRetired
