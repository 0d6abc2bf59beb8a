\* Three logins of two customers with two guest carts, edits, flushes and a crash.
SPECIFICATION LoginSpec
SYMMETRY MCSymmetry
CONSTANTS
  Customers = {c1, c2}
  Carts = {x, y}
  Logins = {l1, l2, l3}
  MaxItems = 2
  MaxDeaths = 1
  Nobody = Nobody
INVARIANTS
  OwnersAgree
  AdoptedNotCaptured
  ItemsInOnePlace
CHECK_DEADLOCK FALSE
