SPECIFICATION FairJobSpec
CONSTANTS
  Skus = {"A", "B"}
  SkuNames = {"A", "B", "X"}
  Warehouses = {1}
  MaxDay = 2
  Processes = {h1, p1}
  Handlers = {h1}
  Preparers = {p1}
  None = None
  Messages = {"m1"}
  NoMessage = NoMessage
  ExtIds <- MCExtIds
  Event <- PrepareEvents
  Moves <- MCMoves
  Db <- MCDb
  MaxFaults = 1
  SkuBatches <- NoBatches
  SkuWarehouse <- MCSkuWarehouse
  MaxCalls = 2
  HistorySkus = {"A", "B", "X"}
  BatchCount = 1
  Capacity = 1
INVARIANTS
  EachSkuOnce
  ReturnedSkusHaveDay
  DiffIsEndMinusStart
PROPERTIES
  DayStartIsFixed
  ImplementsLedger
  CommandReturns
  LocksAreReleased
