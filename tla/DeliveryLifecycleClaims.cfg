SPECIFICATION FairSpec
CONSTANTS
  m1 = m1
  m2 = m2
  s1 = s1
  a1 = a1
  d1 = d1
  d2 = d2
  here = here
  None = None
  User <- NoAdmin
  TypeOf <- MCTypeOf
  CityOf <- MCCityOf
  Master <- NoUsers
  Patient <- Couriers
  Delivery <- TwoDeliveries
  LinkStore <- StoreOfOne
  Start <- FreshOnly
  Dto <- CourierDto
  Quota = 1
  Ops <- CourierOps
  Closing <- ByCancelling
  Request = {r1, r2, r3}
INVARIANTS
  OneWinner
  QuotaHeld
PROPERTIES
  CanceledIsRefunded
