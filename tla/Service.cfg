SPECIFICATION FairSpec
CONSTANTS
  Workers = {w1, w2}
  Loads <- MCLoads
  History <- MCHistory
  Like <- MCLike
  RootDomain = 0
  Permitted = {0, 1, 2}
  FirstBlacklist <- MCBlacklist
  Times <- MCTimes
  FirstTeams <- MCTeams
  FirstWarehouses <- MCWarehouses
  FirstOwners <- MCOwners
  FirstNotes <- MCNotes
INVARIANTS
  TypeOK
  PartsBelongTogether
  CompleteIsAnswered
  CreateAnswersBook
PROPERTIES
  ImplementsWarehouseBook
  NotesReplacedWhole
  CallsEnd
CHECK_DEADLOCK FALSE
