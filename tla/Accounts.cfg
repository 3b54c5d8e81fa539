CONSTANTS
  ann = ann
  bob = bob
  current = current
  savings = savings
  Customers <- TwoCustomers
  Accounts <- TwoAccounts
  Owner <- Owners
  ActiveAccounts <- TwoAccounts
  Dates <- TwoDates
  Calls = {w1}
  LimitParams <- Params
  DefaultLimit = 2
  MaxRows = 3
  Faults = TRUE
  None = None
SPECIFICATION FairAccountsSpec
INVARIANTS AccountsInv ReadsCover WalkComplete
PROPERTIES WalkEnds
CHECK_DEADLOCK FALSE
