SPECIFICATION Spec
CONSTANTS
  d1 = d1
  d2 = d2
  Delivery = {d1, d2}
  InitialUsers <- MCUsers
  City = {"c1", "c2"}
  Fee <- MCFee
  Statuses = {"AGUARDANDO_LIBERACAO", "PENDENTE", "ACAMINHO", "FINALIZADO", "CANCELADO"}
  Queries <- MCQueries
  Readers = {"rider"}
  Existing <- MCExisting
  Take = 1
  FirstPageRows = 1
  NextPageRows = 2
  DayLength = 2
  LocalOffset = 1
  Behind = 0
  StartTime = 3
  MaxTime = 4
  MaxSaves = 1
  MaxMoves = 1
  None = None
INVARIANTS
  PagesComplete
  SettlementsAgree
  CountersAgree
CHECK_DEADLOCK FALSE
