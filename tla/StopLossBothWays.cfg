SPECIFICATION MCSpec
CONSTANTS
  None = None
  o1 = o1
  o2 = o2
  xlm = xlm
  usd = usd
  Handler = Handler
  Owners = {o1, o2}
  Assets = {xlm, usd}
  Requests <- BothWays
  Oracles = {feed, backup}
  Prices = {1, 2, 3}
  PriceScale = 2
  Amounts = {0, 2}
  Supply = 2
  MaxTriggers = 2
INVARIANTS
  EscrowsCovered
CHECK_DEADLOCK FALSE
