SPECIFICATION FairSpec
CONSTANTS
  o1 = o1
  o2 = o2
  d1 = d1
  d2 = d2
  c1 = c1
  c2 = c2
  c3 = c3
  c4 = c4
  Order = {o1}
  Delivery = {d1, d2}
  Call = {c1, c2, c3}
  Bodies <- MCBodies
  Ops = {"CREATE", "CANCEL", "RELEASE", "CLAIM", "UPDATE", "DELETE"}
  UniqueIndex = TRUE
  Rejected = {}
  Window = 2
  MaxRestarts = 1
  Timer = Timer
  None = None
INVARIANTS
  TypeOK
  SettledIsKnown
  OneDeliveryPerOrder
PROPERTIES
  NewsInOrder
  EventuallyKnown
CHECK_DEADLOCK FALSE
