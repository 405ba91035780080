SPECIFICATION FairSpec
CONSTANTS
  Ids = {i1, i2}
  Serials = {}
  Macs = {m1}
  Handlers = {h1}
  Operators = {}
  Detections <- RadioDetections
  GpsStale = 0
  LostAfter = 0
  EvictAfter = 1
  Horizon = 2
  MaxTrack = 2
PROPERTIES
  FreshFixKept
  SilentBecomesLost
  ReturnIsAnnounced
