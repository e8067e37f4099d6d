SPECIFICATION MCSpec
CONSTANTS
  m1 = m1
  m2 = m2
  m3 = m3
  d1 = d1
  d2 = d2
  d3 = d3
  None = None
  Assets = {x}
  BaseAssets = {}
  Admins = {m1, m2, m3}
  Delegates = {d1, d2, d3}
  Community = {c1}
  Prices = {0, 100, 112}
  Ttls = {600}
  Liquidity = {5}
  Floors = {0, 95, 110}
  Ranges <- MCRanges
  Deviations = {50, 200}
  Depths = {5, 7}
  LedgerSeconds = 1200
  MaxLedger = 6
  PRICE_WINDOW_LEDGERS = 3
  MIN_LIQUIDITY_THRESHOLD = 6
  MAX_LIQUIDITY_THRESHOLD = 9
SYMMETRY Symmetry
INVARIANTS
  FeedIsFaithful
PROPERTIES
  ProviderUpdatesNeedBypass
  SettersNeverContradict
  EconomyIsSound
