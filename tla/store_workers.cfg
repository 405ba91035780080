SPECIFICATION Spec
CONSTANTS
  Ids = {i1}
  Controllers = {}
  CounterReadMayFail = FALSE
  MaxTrack = 2
  Handlers = {h1}
  Workers = {w1, w2}
  QueueSize = 1
  MaxBatch = 2
  MaxRetries = 1
  Events = {"batch", "reply", "statement", "window"}
  MaxJobs = 3
  MaxStarts = 1
CHECK_DEADLOCK FALSE
SYMMETRY Interchangeable
INVARIANTS
  Accounted
  PositionRecorded
