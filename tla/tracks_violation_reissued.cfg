SPECIFICATION Spec
CONSTANTS
  Ids = {u1, u2}
  Controllers = {}
  CounterReadMayFail = FALSE
  MaxTrack = 3
INVARIANT NumberNamesOneDrone
