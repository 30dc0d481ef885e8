SPECIFICATION Spec
CONSTANTS
  c1 = c1
  o1 = o1
  o2 = o2
  here = here
  elsewhere = elsewhere
  Request = {r1, r2, r3, r4}
  Company <- MCCompany
  Order <- MCOrder
  Requester <- MCRequester
  CityOf <- MCCityOf
  Amount <- MCAmount
  InitialAccount <- MCInitialAccount
  CounterEdit <- MCCounterEdit
  Ops <- AllOps
SYMMETRY Symmetric
INVARIANTS
  TypeOK
  Balanced
  WithinReleased
  RefundHasConsumption
  UsedReconciled
