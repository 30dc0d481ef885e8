SPECIFICATION Spec
CONSTANTS
  c1 = c1
  c2 = c2
  o1 = o1
  o2 = o2
  p1 = p1
  p2 = p2
  Call = {c1, c2}
  Order = {o1, o2}
  Profile = {p1, p2}
  ProfileMap <- MCProfileMap
  DefaultProfile = p1
  MaxAttempts = 2
  Timeout = 1
  Base = 1
  MinInterval <- MCMinInterval
  Life = 10
  Buffer = 8
  Epoch = 2
  LastStart = 4
  None = None
INVARIANTS
  RefusedIsKept
CHECK_DEADLOCK FALSE
