SPECIFICATION Spec
CONSTANTS
  Skus = {"A", "B"}
  SkuNames = {"A", "B", "X"}
  Warehouses = {1}
  MaxDay = 1
  Processes = {h1}
  Handlers = {h1}
  Preparers = {}
  None = None
  Messages = {"m1", "m2", "m3"}
  NoMessage = NoMessage
  ExtIds <- MCExtIds
  Event <- TransferEvents
  Moves <- MCMoves
  Db <- MCDb
  MaxFaults = 0
  SkuBatches <- NoBatches
  SkuWarehouse <- MCSkuWarehouse
  MaxCalls = 2
INVARIANTS
  ChangeLogErrorIsNotAcked
