SPECIFICATION FairSpec
CONSTANTS
  Rooms <- MCRooms
  Nodes <- OneNode
  QueueCapacity = 2
  MaxRetries = 1
  AutoReconnect = TRUE
  Workloads <- Uses
  MaxSockets = 2
  MaxSends = 3
INVARIANTS AckedWasExecuted OncePerNode StaysClosed
PROPERTY EverySendSettles
CHECK_DEADLOCK FALSE
