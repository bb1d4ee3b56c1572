CONSTANTS
  s1 = s1
  x = x
  y = y
  None = None
  NumDevices = 2
  NumPorts = 2
  Nodes = {1, 2}
  Serials = {s1}
  Descriptors = {x, y}
  Sockets <- Places
  Kinds <- Everything
  MaxChanges <- Changes
SPECIFICATION FairSpec
INVARIANTS TypeOK OwnNames NameFollowsDevice
PROPERTIES StaysNamed ServedStaysAvailable DevicesSettle
CHECK_DEADLOCK FALSE
