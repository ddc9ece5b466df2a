SPECIFICATION FairSpec
CONSTANTS
  Notifications = {m1, m2}
  Invalid = {m2}
  MaxPublished = 1
  MaxRetries = 3
  MaxFaults = 1
INVARIANTS
  DeliveryInv
  NeverLost
  DeadOnlyAfterRetries
  OneOutcomeWithoutFaults
PROPERTIES
  Settles
  Drains
CHECK_DEADLOCK FALSE
