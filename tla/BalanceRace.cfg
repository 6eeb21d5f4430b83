SPECIFICATION Spec
CONSTANTS
  Workers = {w1, w2}
  Warehouses = {1, 2}
  Numbers = {"1", "12", "3", "5", "7"}
  Labels = {"a", "b", "c", "d"}
  FirstAccounts <- MCAccounts
  FirstLinks <- MCLinks
  MaxCalls = 2
  Matches <- MCMatches
  AccountRequests <- NoRequests
  Admin = "admin"
  Teams = {"admin", "warehouse", "selling"}
  AdminTypes = {"server"}
  Types = {"server", "other"}
  CanCreate <- MCCanCreate
  Contents = {"new", "c2", "c3", "c4"}
  ExpenseRequests <- NoRequests
  Amounts = {10, 20}
  MaxTime = 2
  DayLength = 2
  JakartaShift = 1
  CallerShift = 1
  None = None
  BalanceRequests <- BalanceMix
INVARIANTS
  OnePerDay
CHECK_DEADLOCK FALSE
