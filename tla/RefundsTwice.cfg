\* Two deliveries about one deferred refund at once.
SPECIFICATION Spec
CONSTANTS
  Refunds = {r1, r2}
  Workers = {w1, w2}
  Qty = 2
  Shipping = 0
  Asks <- TwoAsks
  Overlap = TRUE
  MaxCrashes = 0
  Nobody = Nobody
INVARIANTS
  CreditNoteOnce
CHECK_DEADLOCK FALSE
