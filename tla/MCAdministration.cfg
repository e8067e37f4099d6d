SPECIFICATION MCSpec
CONSTANTS
  Accounts = {a1, a2, a3}
  None = None
  Delay = 2
  MaxTime = 5
  MaxCopies = 2
  ChangeDelay = 1
  QueueDelay = 1
  RescueDelay = 1
  Inactivity = 2
  MaxTesters = 1
  HardCap = 2
  Ceilings = {1, 2, 3}
  Bands <- SmallBands
  MinBand = 1
  MaxBand = 3
  FeeValues = {1, 2}
  Tokens = {"xlm", "usd"}
  Supply = 2
  Roles <- RoleNames
  RoleHash <- SharedHash
  Grantees = {a1, a2}
  Expiries = {1, 3}
  AdminTime = 3
  MaxRescues = 2
  Hashes = {"h1", "h2"}
  Epoch = 5
  U32 = 8
  MinLedgerDelay = 2
  ProposalExpiry = 2
  RollbackWindow = 1
  Configs <- SmallConfigs
  Scale = 4
  Tiers = {5, 30}
  Fees = {1, 3}
  LpShare = 3
  MaxSeq = 5
  MaxProposals = 2
  MaxProposalSeq = 1
  FirstAdmin = a1
  FirstCeiling = 1
  FirstBand <- LowestBand
  FirstTier = 5
INVARIANTS
  ProposalTargetsSittingAdmin
  RootRecordsAgree
PROPERTIES
  VetoLostOnlyToRepeats
  ReplacedOnlyAfterWindow
  RequestsAreDecided
  RootPowersAreBounded
  PayoutsAreCovered
CHECK_DEADLOCK FALSE
