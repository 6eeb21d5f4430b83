SPECIFICATION SerialSpec
CONSTANTS
  Skus = {"A", "B"}
  SkuNames = {"A", "B", "X"}
  Warehouses = {1}
  MaxDay = 1
  Processes = {h1, h2, p1}
  Handlers = {h1, h2}
  Preparers = {p1}
  None = None
  Messages = {"m1", "m2"}
  NoMessage = NoMessage
  ExtIds <- MCExtIds
  Event <- OrderEvents
  Moves <- MCMoves
  Db <- MCDb
  MaxFaults = 0
  SkuBatches <- MCBatches
  SkuWarehouse <- MCSkuWarehouse
  MaxCalls = 2
INVARIANTS
  SerialEndIsStock
