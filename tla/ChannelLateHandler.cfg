SPECIFICATION Spec
CONSTANTS
  Notifications = {n1}
  Commands = {c1}
  Roles = {"api"}
  MaxFaults = 1
INVARIANTS
  ReconnectConsumes
CHECK_DEADLOCK FALSE
