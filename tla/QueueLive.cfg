SPECIFICATION FairSpec
CONSTANTS
  s1 = s1
  s2 = s2
  s3 = s3
  None = None
  Slots = {s1, s2, s3}
  Created = {s1, s2}
  Big = {}
  Once = {s2, s3}
  Automatic = {s1, s2, s3}
  Rule <- MCRule
  Window = 2
  Sessions = {x1, x2, x3}
  Orders <- MCOrders
  AdminMay = {"create"}
  MaxOperations = 1
  Asked = "none"
PROPERTIES
  QueueMoves
  PlayersServed
