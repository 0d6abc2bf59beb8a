\* One event, two subscriptions, two instances, a fault, an admin retry: every interleaving of the drains.
SPECIFICATION FairSpec
CONSTANTS
  Events = {e1}
  Subs = {s1, s2}
  Instances = {n1, n2}
  Limit = 2
  Timeout = 1
  Slack = 1
  Work = 0
  Backoff <- OneBackoff
  MaxFaults = 1
  MaxRetries = 1
  Nobody = Nobody
INVARIANTS
  TypeOK
  SentByOne
  LogIsTrue
PROPERTIES
  DeliveredStays
  DeliveriesSettle
CHECK_DEADLOCK FALSE
