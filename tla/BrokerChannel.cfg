SPECIFICATION FairSpec
CONSTANTS
  Notifications = {n1}
  Commands = {c1}
  Roles = {"api", "notifier"}
  MaxFaults = 2
INVARIANTS
  ChannelInv
  OneConnection
  NotifierReconsumes
  NotificationAcksItself
PROPERTIES
  NotifierConsumes
  NotifierDrains
CHECK_DEADLOCK FALSE
