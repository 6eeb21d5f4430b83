SPECIFICATION Spec
CONSTANTS
  Workers = {w1}
  Warehouses = {1, 2}
  Numbers = {"1", "12", "3", "5", "7"}
  Labels = {"a", "b", "c", "d"}
  FirstAccounts <- MCAccounts
  FirstLinks <- MCLinks
  MaxCalls = 3
  Matches <- MCMatches
  AccountRequests <- OpsCreates
  Admin = "admin"
  Teams = {"admin", "warehouse", "selling"}
  AdminTypes = {"server"}
  Types = {"server", "other"}
  CanCreate <- MCCanCreate
  Contents = {"new", "c2", "c3", "c4"}
  ExpenseRequests <- ExpenseMix
  Amounts = {10, 20}
  MaxTime = 2
  DayLength = 2
  JakartaShift = 1
  CallerShift = 1
  None = None
  BalanceRequests <- BalanceMix
INVARIANTS
  OneOpsAccount
  OnePerDay
PROPERTIES
  AdminTypesByAdmin
  MovedByAdmin
  ImplementsDailyBalance
CHECK_DEADLOCK FALSE
