\* Line refunds and dashboard refunds of one unit and its shipping, one worker, a request or delivery that dies.
SPECIFICATION FairSpec
CONSTANTS
  Refunds = {r1, r2}
  Workers = {w1}
  Qty = 1
  Shipping = 1
  Asks <- LineAsk
  Overlap = FALSE
  MaxCrashes = 1
  Nobody = Nobody
INVARIANTS
  ReservationsBalance
  CreditNoteIsConfirmed
  ReturnedWithinOrder
PROPERTIES
  EventsSettle
  ImplementsLedger
CHECK_DEADLOCK FALSE
