SPECIFICATION Spec
CONSTANTS
  Skus = {"A", "B"}
  SkuNames = {"A", "B", "X"}
  Warehouses = {1}
  MaxDay = 1
  Processes = {h1, h2}
  Handlers = {h1, h2}
  Preparers = {}
  None = None
  Messages = {"m1", "m2", "m3", "m4", "m5", "m6", "m7"}
  NoMessage = NoMessage
  ExtIds <- MCExtIds
  Event <- MessageEvents
  Moves <- MCMoves
  Db <- MCDb
  MaxFaults = 0
  SkuBatches <- NoBatches
  SkuWarehouse <- MCSkuWarehouse
  MaxCalls = 2
INVARIANTS
  LogKeyUnique
  DailyCountsEachEventOnce
  ChangeLogMatchesEventLog
SYMMETRY HandlerSymmetry
