SPECIFICATION EventsFairSpec
CONSTANTS
  o1 = o1
  o2 = o2
  c1 = c1
  placed = placed
  ended = ended
  concluded = concluded
  placed2 = placed2
  ended2 = ended2
  d1 = d1
  d2 = d2
  poll = poll
  hook1 = hook1
  admin = admin
  NoOrder = NoOrder
  NoDelivery = NoDelivery
  NoEvent = NoEvent
  Poller = poll
  Hook = hook1
  Company = {c1}
  Order = {o1, o2}
  OrderOf <- MCOrderOf
  ShopOf <- MCShopOf
  Deliverable = {o1, o2}
  DeliveryId = {d1, d2}
  PollWindow = 2
  CompanyWindow = 2
  Payloads <- OneByOne
  Importer = {poll, hook1}
  Event = {placed, ended, concluded, placed2, ended2}
  KindOf <- MCKindOf
  InitialCredits <- OneCredit
  DeliveryIndex = TRUE
  LinkIndex = TRUE
  EventIndex = TRUE
  MaxTopUps = 0
  MaxPosts = 0
  MaxCopies = 2
  Ops = {"POLL"}
PROPERTIES
  PolledIsStored
  EndReachesDelivery
