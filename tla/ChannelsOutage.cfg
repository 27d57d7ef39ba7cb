SPECIFICATION FairSpec
CONSTANTS
  Channels <- MCChannels
  Conns <- MCConns
  AutoResubscribe = FALSE
  MaxPending = 3
  MaxOutages = 2
  MaxFailures = 2
INVARIANTS RefCountExact OvercountBounded Listening
PROPERTY EventuallyListening
