\* One intent, two workers, a delivery that dies: every interleaving of the webhook handlers.
SPECIFICATION FairSpec
CONSTANTS
  Intents = {i1}
  Workers = {w1, w2}
  Clients = {k1}
  MaxCrashes = 1
  Nobody = Nobody
  Manual = Manual
INVARIANTS
  CaptureNotForgotten
  PaidIsCaptured
PROPERTIES
  CapturesSettle
CHECK_DEADLOCK FALSE
