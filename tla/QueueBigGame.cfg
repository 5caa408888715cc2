SPECIFICATION FairSpec
CONSTANTS
  s1 = s1
  s2 = s2
  s3 = s3
  None = None
  Slots = {s1, s2}
  Created = {s1, s2}
  Big = {s2}
  Once = {s2}
  Automatic = {s1}
  Rule <- MCRule
  Window = 2
  Sessions = {x1, x2, x3}
  Orders <- MCOrders
  AdminMay = {}
  MaxOperations = 0
  Asked = "none"
PROPERTIES
  BigGameServed
