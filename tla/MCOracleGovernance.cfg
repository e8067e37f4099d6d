SPECIFICATION MCSpec
CONSTANTS
  Accounts = {a, b, c}
  Councils = {a, b, c}
  None = None
  ADMIN_TIMELOCK = 1
  MaxTime = 2
  Types = {"RemoveAdmin"}
  Weights = {}
  Thresholds = {}
  Delegates = {}
  Lockers = {}
  VeflowUsed = FALSE
  MaxActions = 1
SYMMETRY Symmetry
INVARIANTS
  AdministratorsAccounted
PROPERTIES
  PowerIsShared
  SettledStaysSettled
