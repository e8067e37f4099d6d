SPECIFICATION MCSpec
CONSTANTS
  p1 = p1
  p2 = p2
  h1 = h1
  h2 = h2
  Accounts = {a1, a2}
  PreImages = {p1, p2}
  Hash <- MCHash
  None = None
  Forgotten = Forgotten
  Amounts = {0, 1}
  MinOffset = 1
  MaxOffset = 2
  MaxActive = 1
  MaxSeq = 4
  MaxIds = 2
  FiatAccounts = {"a1", "a2"}
  FiatAmounts = {0, 1}
  FiatTimeout = 2
  FiatGenesis = 1
  FiatMaxTime = 5
  FiatMaxIds = 2
  LockSenders = {"s"}
  LockReceivers = {"r"}
  LockDepositors = {"d"}
  LockAnchors = {"x"}
  LockSelf = "timelock"
  LockAmounts = {1}
  LockExpiries = {0, 1}
  LockTimeout = 1
  LockMaxSeq = 3
  LockMaxIds = 2
  LockSupply = 2
INVARIANTS
  QuotaExact
PROPERTIES
  ImplementsCustody
  EscrowsImplementCustody
  EverythingCloses
  FeesAndCollateralAccounted
CHECK_DEADLOCK FALSE
