SPECIFICATION Spec
CONSTANTS
  Nodes <- MCNodes
  Users <- MCUsers
  Conns <- MCConns
  NodeOf <- MCNodeOf
  UserOf <- MCUserOf
  Ttl = 6
  FlushInterval = 5
  MaxDelay = 1
  MaxFailures = 0
  MaxTime = 5
INVARIANT PresenceConverges
CHECK_DEADLOCK FALSE
