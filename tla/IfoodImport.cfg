SPECIFICATION FairSpec
CONSTANTS
  o1 = o1
  o2 = o2
  c1 = c1
  e1 = e1
  e2 = e2
  e3 = e3
  d1 = d1
  d2 = d2
  d3 = d3
  poll = poll
  hook1 = hook1
  hook2 = hook2
  NoOrder = NoOrder
  NoDelivery = NoDelivery
  Poller = poll
  Company = {c1}
  Order <- MCOrder
  Event <- MCEvent
  OrderOf <- MCOrderOf
  ShopOf <- MCShopOf
  Deliverable <- MCOrder
  Importer <- TwoImporters
  KindOf <- OneCancel
  DeliveryId = {d1, d2}
  InitialCredits <- OneCredit
  PollWindow = 2
  CompanyWindow = 2
  DeliveryIndex = FALSE
  LinkIndex = FALSE
  MaxTopUps = 1
INVARIANTS
  TypeOK
  OneDelivery
PROPERTIES
  ImplementsLedger
  EligibleIsLinked
