SPECIFICATION PartSpec
CONSTANTS
  Ids = {u1, u2, c1}
  Controllers = {c1}
  CounterReadMayFail = FALSE
  MaxTrack = 2
  Samples <- TrustSamples
  FlagExpiry = 2
  CleanupAge = 3
  RecoveryClean = 2
  MaxSamples = 3
  MaxTime = 4
  Flying = {d1, d2}
  Stations = {t1, t2, t3}
  Slots = 2
  RingTTL = 0
  RingCleanup = 1
  MaxTracked = 1
  MaxRanged = 3
  MaxFilters = 2
  MaxNow = 1
  Remotes = {r1, r2}
  UAVs = {u1, u2}
  Evidence <- PairEvidence
  MaxPasses = 2
  MACs = {m1}
  Prefix = p
  CacheTTL = 1
  MaxErrors = 1
  MaxAge = 5
  Messages <- IntakeMessages
  Receivers = {h1, h2}
  DedupWindow = 1
  MaxDeliveries = 3
  MaxSeconds = 3
SYMMETRY Interchangeable
INVARIANTS OneHolder CounterAhead FlagsAreEvidence ControllersTrue DismissedStays IntakeSound
 
CHECK_DEADLOCK FALSE
