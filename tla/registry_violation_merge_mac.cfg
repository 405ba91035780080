SPECIFICATION Spec
CONSTANTS
  Ids = {i1, i2, i3}
  Serials = {s1}
  Macs = {m1}
  Handlers = {h1}
  Operators = {}
  Detections <- IdentityDetections
  GpsStale = 0
  LostAfter = 0
  EvictAfter = 0
  Horizon = 1
  MaxTrack = 3
INVARIANT NoDuplicateMAC
