SPECIFICATION MCSpec
CONSTANTS
  Accounts = {a1, a2}
  Keys = {k1, k2}
  None = None
  Cooldown = 2
  MaxWeight = 2
  MaxEntries = 2
  U32Max = 3
  Start = 1
  MaxTime = 7
  DelegStakers = {"s1", "s2", "s3"}
  FewStakers = {"s1", "s2"}
  DelegAmounts = {0, 1, 2}
  DelegScale = 2
  DelegRates = {0, 1, 2}
  DelegMinimums = {0, 2}
  DelegMaxStake = 2
  DelegMaxWeight = 4
  EarlyAccounts = {"a1", "a2", "a3"}
  EarlyTimelock = 2
  EarlyWindows = {2, 3}
  EarlySupplies = {0, 2, 3}
  EarlyWeights = {0, 1, 2}
  EarlyMaxVoters = 2
  EarlyMaxProposals = 2
  EarlyMaxTime = 4
  ValidatorKeys = {v1, v2, v3}
  FewKeys = {v1, v2}
  Nonces = {n1, n2}
  FewNonces = {n1}
  Payloads = {x, y}
  RelayThresholds = {0, 2}
  RelayStakes <- SmallStakes
  RelayMaxStake = 1
SYMMETRY Symmetry
INVARIANTS
  StakesVoteOnce
PROPERTIES
  WeightChangesAreSafe
  EarlyExecutionIsEarned
  BallotsAreFaithful
  RelayersAndNodesAnswer
CHECK_DEADLOCK FALSE
