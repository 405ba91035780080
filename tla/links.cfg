SPECIFICATION Spec
CONSTANTS
  Addresses = {a1, a2}
  First = a1
  Drones = {d1}
  Sockets = {1, 2, 3}
  EventCap = 2
  MaxEvents = 3
  MaxConfigs = 1
  MaxBreaks = 1
  Requests = {r1, r2}
  Taps = {t1, t2}
  Gens = {1, 2, 3}
  SilenceTicks = 2
  MaxRefresh = 2
  MaxLapses = 3
INVARIANTS NothingLeaks  AnswerTrue
PROPERTIES TakConverges HeardAgain
CHECK_DEADLOCK FALSE
