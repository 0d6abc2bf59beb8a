\* Two requests and a flush of one cart with one variant: every interleaving of Redis and Postgres.
SPECIFICATION FairSpec
CONSTANTS
  Requests = {r1, r2}
  Flushers = {f1}
  Variants = {v1}
  Stock = 2
  Amounts = {1}
  MaxEdits = 2
  MaxTries = 2
  MaxFaults = 1
INVARIANTS
  AckedEditsKept
  HoldsFollowCart
  UnsavedIsFlagged
PROPERTIES
  EditsReachPostgres
  ImplementsRegister
CHECK_DEADLOCK FALSE
