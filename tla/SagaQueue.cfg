SPECIFICATION FairSpec
CONSTANTS
  Sagas = {s1}
  Pairs = {p1}
  PairOf <- Spread
  Transport = "queue"
  MaxDeliveries = 2
  MaxCrashes = 1
  MaxDbFailures = 1
INVARIANTS
  SagaInv
  FailedMeansRemoved
  CompletedMeansMailed
  OkMeansKept
PROPERTIES
  ImplementsContract
  AwaitingIsResolved
  RequestEnds
CHECK_DEADLOCK FALSE
