CONSTANTS
  Orders = {o1, o2}
  Issuers = {i1}
  Refunds = {r1, r2}
  MaxFaults = 2
  Nobody = Nobody
SPECIFICATION FairSpec
INVARIANTS
  BooksInOrder
PROPERTIES
  IssuersEnd
CHECK_DEADLOCK FALSE
