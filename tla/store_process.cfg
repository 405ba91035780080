SPECIFICATION FairSpec
CONSTANTS
  Ids = {i1, c1}
  Controllers = {c1}
  CounterReadMayFail = FALSE
  MaxTrack = 2
  Handlers = {h1, h2}
  Workers = {w1}
  QueueSize = 1
  MaxBatch = 2
  MaxRetries = 0
  Events = {"suspect", "batch", "forget", "expire", "close"}
  MaxJobs = 2
  MaxStarts = 2
CHECK_DEADLOCK FALSE
PROPERTIES
  ImplementsTrackStore
  JobsSettle
