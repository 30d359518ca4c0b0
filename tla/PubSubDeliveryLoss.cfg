\* One message and a handler that rethrows: the first failure is enough to lose it.
SPECIFICATION Spec
CONSTANTS
  Messages = {m1}
  Handlers = {h1}
  MaxDeliveries = 5
  SwallowsErrors = FALSE
INVARIANT NoMessageIsLost
CHECK_DEADLOCK FALSE
