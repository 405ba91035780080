SPECIFICATION Spec
CONSTANTS
  Ids = {i1, i2}
  Serials = {s1}
  Macs = {}
  Handlers = {h1, h2}
  Operators = {o1}
  Detections <- SameSerialDetections
  GpsStale = 0
  LostAfter = 0
  EvictAfter = 1
  Horizon = 2
  MaxTrack = 3
SYMMETRY Interchangeable
INVARIANTS
  UniqueTrackNumbers
  LostIsStale
PROPERTY TrackNumbersNeverReused
