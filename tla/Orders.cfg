SPECIFICATION FairSpec
CONSTANTS
  Skus = {"A", "B"}
  SkuNames = {"A", "B", "X"}
  Warehouses = {1}
  MaxDay = 2
  Processes = {h1, h2}
  Handlers = {h1, h2}
  Preparers = {}
  None = None
  Messages = {"m1", "m2"}
  NoMessage = NoMessage
  ExtIds <- MCExtIds
  Event <- OrderEvents
  Moves <- MCMoves
  Db <- MCDb
  MaxFaults = 1
  SkuBatches <- NoBatches
  SkuWarehouse <- MCSkuWarehouse
  MaxCalls = 2
INVARIANTS
  TypeOK
  StagedRowsLocked
  DailyCountsEachEventOnce
  AckedIsRecorded
PROPERTIES
  SumsChangeWithOneRecord
  ImplementsLedger
  ProcessableIsAcked
