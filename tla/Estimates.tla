----------------------------- MODULE Estimates -----------------------------
(***************************************************************************)
(* Positions estimated from signal strength: the range ring a detection    *)
(* leaves for its TAP, the bounded goroutines that make an estimate of the *)
(* fresh rings, the Kalman filters they share, and the cleanup of rings.   *)
(* The geometry and the filter's matrices are left out; which estimate is  *)
(* made, from which rings and when, is kept.                               *)
(***************************************************************************)
EXTENDS Integers, Sequences, FiniteSets

CONSTANTS
  Flying,        \* drones
  Stations,      \* TAPs
  Slots,         \* capacity of trilatSem (16)
  RingTTL,       \* age at which a ring is skipped (30 s)
  RingCleanup,   \* age at which ClearOldRangeRings drops it (5 min)
  MaxTracked,    \* kalmanMaxTracked (5000)
  MaxRanged,     \* bound on detections with a range
  MaxFilters,    \* bound on filters made
  MaxNow         \* bound on the clock

VARIABLES
  known,      \* drones in the state manager
  rings,      \* Drone.RangeRings: when the ring of each TAP was stored, or Never
  est,        \* Drone.EstimatedPos
  ranging,    \* handleDetection between UpdateDrone and UpdateDroneRangeRing
  job,        \* the goroutines: what each slot is doing
  filterOf,   \* KalmanRegistry.filters: drone -> filter and lastAccess
  filterLast, \* every filter made, in order: its lastUpdate
  ranged,     \* detections so far
  now

rangeVars == <<known, rings, est, ranging, job, filterOf, filterLast, ranged, now>>

NeverRanged == -1
NoEstimate == [at |-> NeverRanged, method |-> ""]
NoJob == [at |-> "idle"]
NoRings == [t \in Stations |-> NeverRanged]
Freed(s) == job' = [job EXCEPT ![s] = NoJob]

-----------------------------------------------------------------------------
\* UpdateDrone: a drone it does not know starts without rings and estimate.  The
\* detection has an RSSI, is not Bluetooth, and its TAP has a position.
HandleRanged(d, t) ==
  /\ ranging = NoJob /\ ranged < MaxRanged
  /\ ranging' = [at |-> "ring", drone |-> d, tap |-> t]
  /\ ranged' = ranged + 1
  /\ known' = known \union {d}
  /\ rings' = IF d \in known THEN rings ELSE [rings EXCEPT ![d] = NoRings]
  /\ est' = IF d \in known THEN est ELSE [est EXCEPT ![d] = NoEstimate]
  /\ UNCHANGED <<job, filterOf, filterLast, now>>

UpdateDroneRangeRing(d, t) ==
  rings' = IF d \in known THEN [rings EXCEPT ![d][t] = now] ELSE rings

\* The ring is stored always, an estimate is made when a slot is free.
StoreRing ==
  /\ ranging.at = "ring"
  /\ UpdateDroneRangeRing(ranging.drone, ranging.tap)
  /\ LET free == {s \in 1..Slots : job[s] = NoJob} IN
     job' = IF free = {} THEN job
            ELSE [job EXCEPT ![CHOOSE s \in free : \A r \in free : s <= r] =
                    [at |-> "read", drone |-> ranging.drone]]
  /\ ranging' = NoJob
  /\ UNCHANGED <<known, est, filterOf, filterLast, ranged, now>>

\* DeleteDrone, or eviction.
Delete(d) ==
  /\ d \in known
  /\ known' = known \ {d}
  /\ rings' = [rings EXCEPT ![d] = NoRings]
  /\ est' = [est EXCEPT ![d] = NoEstimate]
  /\ UNCHANGED <<ranging, job, filterOf, filterLast, ranged, now>>

\* main's rssi-cleanup: rings older than five minutes.
ClearOldRangeRings ==
  /\ rings' = [d \in Flying |-> [t \in Stations |->
                 IF now - rings[d][t] < RingCleanup THEN rings[d][t] ELSE NeverRanged]]
  /\ UNCHANGED <<known, est, ranging, job, filterOf, filterLast, ranged, now>>

-----------------------------------------------------------------------------
\* The methods open to n fresh rings.  Three or more are solved by least squares,
\* which may fail; then, as with two, TAPs less than 100 m apart count as one.
Trilaterated(n) == {m \in {"weighted_least_squares"} : n >= 3}
Intersected(n)  == {m \in {"circle_intersection"} : n >= 2}
SingleTap(n)    == {m \in {"range_bearing"} : n >= 2}
OneRing(n)      == {m \in {"range_bearing"} : n = 1}
Methods(n) == Trilaterated(n) \union Intersected(n) \union SingleTap(n) \union OneRing(n)

\* runTrilateration: the rings are copied; stale ones are skipped, and when all are
\* the estimate and the filter go.  No ring at all leaves everything as it is.
ReadRings(s) ==
  LET d == job[s].drone
      all == {t \in Stations : d \in known /\ rings[d][t] # NeverRanged}
      fresh == {t \in all : now - rings[d][t] <= RingTTL}
  IN /\ job[s].at = "read"
     /\ \/ /\ fresh # {}
           /\ \E m \in Methods(Cardinality(fresh)) :
                job' = [job EXCEPT ![s] = [at |-> "filter", drone |-> d, method |-> m, time |-> now]]
           /\ UNCHANGED est
        \/ /\ fresh = {} /\ all # {}
           /\ est' = [est EXCEPT ![d] = NoEstimate]
           /\ job' = [job EXCEPT ![s] = [at |-> "remove", drone |-> d]]
        \/ all = {} /\ Freed(s) /\ UNCHANGED est
     /\ UNCHANGED <<known, rings, ranging, filterOf, filterLast, ranged, now>>

RemoveFilter(s) ==
  /\ job[s].at = "remove"
  /\ filterOf' = [d \in DOMAIN filterOf \ {job[s].drone} |-> filterOf[d]]
  /\ Freed(s)
  /\ UNCHANGED <<known, rings, est, ranging, filterLast, ranged, now>>

\* The entry that was used least recently, any of several.
evictOldest(entries) ==
  IF Cardinality(DOMAIN entries) <= MaxTracked THEN {entries}
  ELSE {[d \in DOMAIN entries \ {o} |-> entries[d]] :
          o \in {o \in DOMAIN entries : \A d \in DOMAIN entries :
                   entries[o].access <= entries[d].access}}

\* The goroutine keeps the filter it was given, in the registry or not.
GetOrCreate(s) ==
  LET d == job[s].drone
      held == d \in DOMAIN filterOf
      k == IF held THEN filterOf[d].filter ELSE Len(filterLast) + 1
      entries == [e \in DOMAIN filterOf \union {d} |->
                    IF e = d THEN [filter |-> k, access |-> now] ELSE filterOf[e]]
  IN /\ job[s].at = "filter" /\ k <= MaxFilters
     /\ filterOf' \in (IF held THEN {entries} ELSE evictOldest(entries))
     /\ filterLast' = IF held THEN filterLast ELSE Append(filterLast, NeverRanged)
     /\ job' = [job EXCEPT ![s] = [at |-> "update", drone |-> d, method |-> job[s].method,
                                   time |-> job[s].time, filter |-> k]]
     /\ UNCHANGED <<known, rings, est, ranging, ranged, now>>

\* Update: the first measurement starts the filter; one that is not later than the
\* last changes nothing; after a long gap the filter starts again; otherwise the
\* state is predicted to the time of the measurement, which is taken in or rejected.
TooFast_Equal(last, time) == time = last

TooFast(last, time) == time <= last

Updated(last, time) == IF last # NeverRanged /\ TooFast(last, time) THEN last ELSE time

UpdateFilter(s) ==
  /\ job[s].at = "update"
  /\ filterLast' = [filterLast EXCEPT ![job[s].filter] = Updated(@, job[s].time)]
  /\ job' = [job EXCEPT ![s].at = "store"]
  /\ UNCHANGED <<known, rings, est, ranging, filterOf, ranged, now>>

\* SetDroneEstimatedPosition, and the broadcast that ends the goroutine.
StoreEstimate(s) ==
  /\ job[s].at = "store"
  /\ est' = IF job[s].drone \in known
            THEN [est EXCEPT ![job[s].drone] = [at |-> job[s].time, method |-> job[s].method]]
            ELSE est
  /\ Freed(s)
  /\ UNCHANGED <<known, rings, ranging, filterOf, filterLast, ranged, now>>

Clock ==
  /\ now < MaxNow /\ now' = now + 1
  /\ UNCHANGED <<known, rings, est, ranging, job, filterOf, filterLast, ranged>>

RangeInit ==
  /\ known = {} /\ rings = [d \in Flying |-> NoRings] /\ est = [d \in Flying |-> NoEstimate]
  /\ ranging = NoJob /\ job = [s \in 1..Slots |-> NoJob]
  /\ filterOf = <<>> /\ filterLast = <<>>
  /\ ranged = 0 /\ now = 0

RangeNext ==
  \/ \E d \in Flying, t \in Stations : HandleRanged(d, t)
  \/ StoreRing
  \/ \E d \in Flying : Delete(d)
  \/ ClearOldRangeRings
  \/ \E s \in 1..Slots :
       ReadRings(s) \/ RemoveFilter(s) \/ GetOrCreate(s) \/ UpdateFilter(s) \/ StoreEstimate(s)
  \/ Clock

RangeSpec == RangeInit /\ [][RangeNext]_rangeVars

-----------------------------------------------------------------------------
\* DroneKalmanFilter.Update (kalman.go): a filter never goes back in time, although
\* goroutines of one drone take their times in one order and the filter's lock in
\* another.
FilterStep == \A f \in DOMAIN filterLast : filterLast'[f] >= filterLast[f]
FilterForward == [][FilterStep]_rangeVars
=============================================================================
