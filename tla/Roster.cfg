SPECIFICATION Spec
CONSTANTS
  a1 = a1
  a2 = a2
  a3 = a3
  b3 = b3
  n1 = n1
  n2 = n2
  r1 = r1
  Nodes <- MCNodes
  Users <- MCUsers
  Conns <- MCConns
  Rooms <- MCRooms
  NodeOf <- MCNodeOf
  UserOf <- MCUserOf
  Established <- MCEstablished
  Batches <- MCBatches
  MaxQueue = 2
  MaxEvents = 3
SYMMETRY MCSymmetry
INVARIANTS RosterKeepsPresent RosterDropsLeavers PresenceScoped
CHECK_DEADLOCK FALSE
