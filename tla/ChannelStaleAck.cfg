SPECIFICATION Spec
CONSTANTS
  Notifications = {n1}
  Commands = {c1}
  Roles = {"notifier"}
  MaxFaults = 2
INVARIANTS
  NeverSilentlyLost
CHECK_DEADLOCK FALSE
