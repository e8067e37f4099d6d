SPECIFICATION MCSpec
CONSTANTS
  Verifiers = {v1, v2}
  None = None
  Self = Self
  Bps = 4
  Capacities = {0, 1, 3, 4, 5}
  Amounts = {0, 1, 3}
  MaxAmount = 9
  Genesis = 1
  Holders = {"h1", "h2"}
  Controllers = {"c1", "c2"}
  MintAmounts = {0, 1, 2}
  Caps = {0, 2, 3}
  MintWindow = 2
  MintTime = 4
  Users = {"u1", "u2"}
  Tokens = {"t1", "t2"}
  Nonces = {"n1"}
  VaultAmounts = {0, 1}
  Lifetimes = {0, 1}
  VaultWindow = 1
  VaultTime = 3
  MaxIds = 1
  Supply = 1
  KeepSenders = {"s1", "s2"}
  Committees <- SmallCommittees
  KeepThresholds = {0, 1, 2}
  KeepTimeout = 1
  KeepAmounts = {0, 1, 2}
  KeepLarge = 1
  KeepDelay = 2
  KeySets = {{"k1"}, {"k2"}}
  Silence = 1
  KeepFull = 4
  Emissions <- SmallEmissions
  KeepSupply = 2
  KeepMaxTime = 5
  MaxLocks = 1
  MaxOrders = 3
  MaxRotations = 2
INVARIANTS
  CeilingIsExact
  FundsAccounted
PROPERTIES
  OnlyReportsUnback
  RollingLimitHolds
  ExpiredIsReturned
  KeptUntilDue
CHECK_DEADLOCK FALSE
