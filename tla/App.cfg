SPECIFICATION Spec
CONSTANTS
  ClientIds = {c1, c2}
  MaxAccounts = 2
  QuickAnswers = TRUE
  LateWorkers = FALSE
  OldWindows = FALSE
  MaxExits = 1
INVARIANTS FiledUnderItsAccount SessionIsDefault LogInNotBlocked
CHECK_DEADLOCK FALSE
