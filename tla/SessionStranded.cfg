SPECIFICATION Spec
CONSTANTS
  Rooms <- MCRooms
  Nodes <- OneNode
  QueueCapacity = 2
  MaxRetries = 1
  AutoReconnect = TRUE
  Workloads <- Chat
  MaxSockets = 2
  MaxSends = 3
INVARIANT NeverStranded
CHECK_DEADLOCK FALSE
