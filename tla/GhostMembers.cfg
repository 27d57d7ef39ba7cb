SPECIFICATION Spec
CONSTANTS
  Conns <- MCConns
  Users <- MCUsers
  UserOf <- MCUserOf
  Rooms <- MCRooms
  BadRooms <- MCBadRooms
  Batches <- MCBatches
  MaxRooms = 2
  MaxSeq = 1
  MaxSuspended = 2
  PresenceEnabled = TRUE
INVARIANT NoGhostMembers
CHECK_DEADLOCK FALSE
