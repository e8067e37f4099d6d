SPECIFICATION Spec
CONSTANTS
  Accounts = {a, b, c}
  Councils = {}
  None = None
  ADMIN_TIMELOCK = 1
  MaxTime = 1
  Types = {"RegisterAdmin"}
  Weights = {}
  Thresholds = {}
  Delegates = {}
  Lockers = {}
  VeflowUsed = FALSE
  MaxActions = 1
PROPERTY RenouncedIsFinal
