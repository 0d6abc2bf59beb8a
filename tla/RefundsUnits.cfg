\* Full refunds of a unit and its shipping, and dashboard refunds: one of three is rejected.
SPECIFICATION Spec
CONSTANTS
  Refunds = {r1, r2, r3}
  Workers = {w1}
  Qty = 1
  Shipping = 1
  Asks <- FullAsk
  Overlap = FALSE
  MaxCrashes = 0
  Nobody = Nobody
INVARIANTS
  RestockedOnce
SYMMETRY MCSymmetry
CHECK_DEADLOCK FALSE
