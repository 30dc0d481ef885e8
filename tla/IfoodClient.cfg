SPECIFICATION FairSpec
CONSTANTS
  c1 = c1
  c2 = c2
  o1 = o1
  o2 = o2
  p1 = p1
  p2 = p2
  Call = {c1, c2}
  Order = {o1}
  Profile = {p1, p2}
  ProfileMap <- MCOneProfile
  DefaultProfile = p1
  MaxAttempts = 2
  Timeout = 1
  Base = 1
  MinInterval <- MCMinInterval
  Life = 10
  Buffer = 8
  Epoch = 2
  LastStart = 4
  None = None
INVARIANTS
  TypeOK
  TokenAlive
  AcceptedIsCancelling
PROPERTIES
  SpacedOut
  EveryCallReturns
CHECK_DEADLOCK FALSE
