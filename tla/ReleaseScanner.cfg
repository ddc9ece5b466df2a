SPECIFICATION FairSpec
CONSTANTS
  Subscriptions = {s1}
  Watched = TRUE
  Scans = {x1, x2}
  MaxRelease = 2
  MaxFaults = 2
INVARIANTS
  ScannerInv
  NobodySkipped
  OneMessagePerRelease
PROPERTIES
  DueIsPublished
CHECK_DEADLOCK FALSE
