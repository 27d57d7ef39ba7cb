SPECIFICATION Spec
CONSTANTS
  Nodes <- MCNodes
  Users <- MCUsers
  Conns <- MCConns
  NodeOf <- MCNodeOf
  UserOf <- MCUserOf
  Ttl = 4
  FlushInterval = 2
  MaxDelay = 1
  MaxFailures = 1
  MaxTime = 5
INVARIANTS LeaseWhileOpen GhostsExpire
CHECK_DEADLOCK FALSE
