SPECIFICATION MCSpec
CONSTANTS
  Senders = {s1}
  Anchors = {a1, a2}
  Treasuries = {t1}
  Admins = {adm}
  Self = Self
  None = None
  SplitLists <- Repeated
  Amounts = {2, 5}
  Stakes = {5}
  DeadlineSecs = {0, 2}
  BondMin = 5
  SlashPercent = 20
  DisputeWindow = 1
  MaxTime = 2
  MaxIds = 2
  Supply = 10
  SplitSenders = {"s1", "s2"}
  SplitAnchors = {"x", "y"}
  Window = 2
  BpsDenom = 4
  Bps = {0, 1, 2, 3, 4}
  Totals = {0, 1, 5, 6}
  SplitSupply = 6
  MaxOrders = 2
  SplitTime = 4
  AnchSenders = {"s1", "s2"}
  AnchAnchors = {"a1", "s1"}
  Destinations = {"d1", "s2"}
  Principals = {1, 2}
  Bonds = {0, 1}
  DisputeExpiry = 2
  AnchTime = 3
  AnchIds = 2
  AnchSupply = 2
INVARIANTS
  LegsArePaid
CHECK_DEADLOCK FALSE
