SPECIFICATION HookSpec
CONSTANTS
  WebSockets <- MCWebSockets
  GoodUrls <- MCGoodUrls
  BadUrls <- MCBadUrls
  SandboxRooms <- MCSandboxRooms
  Correlations <- MCCorrelations
  MaxAttempts = 2
  MaxActivities = 2
  MaxUnanswered = 2
  BurstBatches = 1
INVARIANTS NoOrphanSocket NeverStuck RoomsRestored NoMissedAck
PROPERTY AttemptsEnd
