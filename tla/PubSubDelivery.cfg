\* Two messages, two callbacks, three deliveries: a redelivery can overlap a slow first
\* delivery, outlive its key, and be redelivered again.
SPECIFICATION FairSpec
CONSTANTS
  Messages = {m1, m2}
  Handlers = {h1, h2}
  MaxDeliveries = 3
  SwallowsErrors = TRUE
INVARIANTS TypeOK OneRunPerWindow LossNeedsFailure
PROPERTY EveryMessageSettles
CHECK_DEADLOCK FALSE
