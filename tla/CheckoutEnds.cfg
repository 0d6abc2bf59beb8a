\* Two requests, the flush, a discount, all outcomes: locks, liveness, and the order book.
SPECIFICATION FairSpec
CONSTANTS
  c1 = c1
  c2 = c2
  r1 = r1
  r2 = r2
  r3 = r3
  NoAnswer = NoAnswer
  Carts = {c1, c2}
  Requests = {r1, r2}
  Variants <- MCVariants
  Backorder = {}
  Parts <- MCParts
  InitialBundles = {1}
  InitialStock <- MCStock
  Contents <- MCContents
  MaxQty = 1
  HoldQty <- NoHolds
  StockCounts = {}
  MaxCounts = 0
  MaxToggles = 0
  Unflushed = {c1}
  MaxEdits = 1
  Outcomes = {"paid", "cancelled"}
  UsageLimit = 1
INVARIANTS
  OrdersMatchConversions
  IntentsAgree
  RedemptionsWithinLimit
  PlainLinesNeverDeadlock
PROPERTIES
  RequestsEnd
  ImplementsOrderBook
CHECK_DEADLOCK FALSE
