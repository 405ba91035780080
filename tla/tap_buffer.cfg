SPECIFICATION FairSpec
CONSTANTS
  ChannelSize = 1
  MaxSize = 2
  MaxRetries = 2
  FlushLimit = 1
  MaxDetections = 3
  MaxHeartbeats = 1
  MaxFailures = 2
  MaxOutages = 1
  MayStop = TRUE
CHECK_DEADLOCK FALSE
INVARIANTS
  
  InOrderUnlessFailed
PROPERTIES
  Settled
