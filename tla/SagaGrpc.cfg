SPECIFICATION Spec
CONSTANTS
  Sagas = {s1, s2, s3}
  Pairs = {p1, p2}
  PairOf <- Spread
  Transport = "grpc"
  MaxDeliveries = 1
  MaxCrashes = 1
  MaxDbFailures = 0
INVARIANTS
  RecoveredSagasSettled
PROPERTIES
  ResolvedNotCompensated
  ImplementsContract
CHECK_DEADLOCK FALSE
