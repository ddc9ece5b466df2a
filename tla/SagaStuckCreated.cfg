SPECIFICATION FairSpec
CONSTANTS
  Sagas = {s1}
  Pairs = {p1}
  PairOf <- Spread
  Transport = "queue"
  MaxDeliveries = 1
  MaxCrashes = 1
  MaxDbFailures = 0
PROPERTY
  CreatedIsSettled
CHECK_DEADLOCK FALSE
