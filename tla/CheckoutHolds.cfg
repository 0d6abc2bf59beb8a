\* Two checkouts among reservations, expiry, sweep, restocks, stock counts, a bundle flip.
SPECIFICATION Spec
CONSTANTS
  c1 = c1
  c2 = c2
  r1 = r1
  r2 = r2
  r3 = r3
  NoAnswer = NoAnswer
  Carts = {c1, c2}
  Requests = {r1, r2}
  Variants <- SmallVariants
  Backorder = {1}
  Parts <- SmallParts
  InitialBundles = {1}
  InitialStock <- SmallStock
  Contents <- SmallContents
  MaxQty = 2
  HoldQty <- SmallHolds
  StockCounts = {1}
  MaxCounts = 1
  MaxToggles = 1
  Unflushed = {}
  MaxEdits = 0
  Outcomes = {"cancelled"}
  UsageLimit = 0
SYMMETRY MCSymmetry
INVARIANTS
  NoOversell
PROPERTIES
  NewHoldsCovered
CHECK_DEADLOCK FALSE
