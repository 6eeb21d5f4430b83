SPECIFICATION Spec
CONSTANTS
  MaxCount = 2
  MaxPrice = 1
  MaxJoined = 2
  MaxRows = 4
INVARIANTS
  TotalsMatchTransaction
  CancelGivesBack
CHECK_DEADLOCK FALSE
