SPECIFICATION Spec
CONSTANTS
  Nodes <- MCNodes
  Conns <- MCConns
  Users <- MCUsers
  Rooms <- MCRooms
  Members <- MCMembers
  Events <- MCEvents
  NodeOf <- MCNodeOf
  UserOf <- MCUserOf
  SenderOf <- MCSenderOf
  ChannelOf <- MCChannelOf
  MaxInFlight <- MCMaxInFlight
  MaxMoves = 2
  MaxFaults = 1
  MaxBoth = 2
INVARIANTS OrderKept NothingLost
PROPERTIES DeliversOnce
CHECK_DEADLOCK FALSE
