SPECIFICATION EventsSpec
CONSTANTS
  o1 = o1
  o2 = o2
  c1 = c1
  placed = placed
  ended = ended
  concluded = concluded
  placed2 = placed2
  ended2 = ended2
  d1 = d1
  d2 = d2
  poll = poll
  hook1 = hook1
  admin = admin
  NoOrder = NoOrder
  NoDelivery = NoDelivery
  NoEvent = NoEvent
  Poller = poll
  Hook = hook1
  Company = {c1}
  Order = {o1}
  OrderOf <- MCOrderOf
  ShopOf <- MCShopOf
  Deliverable = {o1}
  DeliveryId = {d1, d2}
  PollWindow = 2
  CompanyWindow = 2
  Payloads <- OneByOne
  Importer = {poll, hook1, admin}
  Event = {placed, ended}
  KindOf <- PlacedAndEnded
  InitialCredits <- OneCredit
  DeliveryIndex = FALSE
  LinkIndex = FALSE
  EventIndex = TRUE
  MaxTopUps = 1
  MaxPosts = 2
  MaxCopies = 2
  Ops = {"HOOK", "POLL", "FAIL", "CRASH"}
INVARIANTS
  HandledAsListed
  OneLink
