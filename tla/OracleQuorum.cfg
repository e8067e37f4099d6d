SPECIFICATION Spec
CONSTANTS
  None = None
  Assets = {x}
  BaseAssets = {}
  Admins = {m1, m2, m3}
  Delegates = {d1, d2, d3}
  Community = {}
  Prices = {100}
  Ttls = {600}
  Liquidity = {5}
  Floors = {}
  Ranges = {}
  Deviations = {}
  Depths = {}
  LedgerSeconds = 1200
  MaxLedger = 2
  PRICE_WINDOW_LEDGERS = 5
  MIN_LIQUIDITY_THRESHOLD = 6
  MAX_LIQUIDITY_THRESHOLD = 9
INVARIANT QuorumReachable
