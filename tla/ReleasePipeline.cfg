SPECIFICATION FairSpec
CONSTANTS
  Subscriptions = {s1}
  Watched = TRUE
  Scans = {x1}
  MaxRelease = 1
  MaxScannerFaults = 1
  MaxRetries = 1
  MaxNotifierFaults = 1
INVARIANTS
  HeardOnceUndisturbed
  NobodyLeftOut
PROPERTIES
  ImplementsReleaseContract
  OwedIsSettled
CHECK_DEADLOCK FALSE
