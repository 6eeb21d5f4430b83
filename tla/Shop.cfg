SPECIFICATION Spec
CONSTANTS
  Workers = {w1, w2}
  Loads <- ShopLoads
  History <- MCHistory
  Like <- MCLike
  RootDomain = 0
  Permitted = {0, 1, 2}
  FirstBlacklist <- MCBlacklist
  Times <- MCTimes
  FirstTeams <- MCTeams
  FirstWarehouses <- MCWarehouses
  FirstOwners <- MCOwners
  FirstNotes <- MCNotes
INVARIANTS
  ListIsOfShop
CHECK_DEADLOCK FALSE
