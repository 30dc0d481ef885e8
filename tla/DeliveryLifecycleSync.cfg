SPECIFICATION Spec
CONSTANTS
  m1 = m1
  m2 = m2
  s1 = s1
  a1 = a1
  d1 = d1
  d2 = d2
  here = here
  None = None
  User <- MCUser
  TypeOf <- MCTypeOf
  CityOf <- MCCityOf
  Master <- NoUsers
  Patient <- NoUsers
  Delivery <- OneDelivery
  LinkStore <- StoreOfOne
  Start <- AnyStage
  Dto <- EveryDto
  Quota = 1
  Ops <- EveryOp
  Closing <- EitherWay
  Request = {r1, r2}
SYMMETRY Symmetric
INVARIANTS
  TypeOK
  FlagsAreNotified
  OriginAfterAssign
  FinishedIsAnswered
  RemovalJustified
