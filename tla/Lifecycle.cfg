SPECIFICATION FairSpec
CONSTANTS
  s1 = s1
  s2 = s2
  Sockets <- MCSockets
  Configurations <- MCConfigurations
  MaxConnections = 1
  MaxAttempts = 1
  MaxFaults = 2
INVARIANTS AdmissionBound DirectSlotsAccounted ReadyIsTrue NobodyLeftOpen
PROPERTIES StopResolves ReconnectsUnlessGivenUp
CHECK_DEADLOCK FALSE
