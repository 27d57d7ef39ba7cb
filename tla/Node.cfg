SPECIFICATION NodeSpec
CONSTANTS
  Conns <- MCConns
  Users <- MCUsers
  UserOf <- MCUserOf
  Rooms <- MCRooms
  BadRooms <- MCBadRooms
  Batches <- MCBatches
  MaxRooms = 2
  MaxSeq = 1
  MaxSuspended = 2
  PresenceEnabled = TRUE
  EventIds <- MCEventIds
  Payloads <- MCPayloads
  Capacity = 2
  Ttl = 2
  MaxTime = 4
  Frames <- MCFrames
  Upgrades <- MCUpgrades
  MaxBatchRooms = 2
  SeqMax = 3
  SeedMax = 2
  MaxCounter = 9
  Clock <- MCClock
  IntervalMs = 4
  TimeoutMs = 4
  MinSweepMs = 1
  FallbackMs = 1
  BucketCapacity = 2
  RefillRate = 1
  Threshold = 3
  WindowMs = 2
  MaxBuffered = 1
  MaxLag = 1
  Rtt = 1
  Answers = TRUE
INVARIANTS
  TablesAgree
  Remembered AckFresh ConflictDetected
  HalfOpenReaped RateBounded AbuseCloses
  RelayFaithful 
PROPERTIES ResponsiveKept IdsIncrease
CHECK_DEADLOCK FALSE
