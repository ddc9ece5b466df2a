SPECIFICATION Spec
CONSTANTS
  Sagas = {s1}
  Pairs = {p1}
  PairOf <- Spread
  Transport = "queue"
  MaxDeliveries = 2
  MaxCrashes = 0
  MaxDbFailures = 0
INVARIANT
  SuccessIsSubscribed
CHECK_DEADLOCK FALSE
