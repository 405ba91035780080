-------------------------- MODULE FalsePositives ---------------------------
(***************************************************************************)
(* Detections without RemoteID: handleSuspectDetection tracks a MAC at     *)
(* once unless it was dismissed.  Dismissals are rows of a Postgres table; *)
(* Redis, external, caches for ten minutes whether a MAC has one.  Both    *)
(* may fail, and operators dismiss and delete while detections are being   *)
(* handled.                                                                *)
(***************************************************************************)
EXTENDS Naturals, Integers

CONSTANTS
  MACs,
  Prefix,      \* the OUI prefix they share
  CacheTTL,    \* ten minutes
  MaxErrors,   \* bound on failures of the stores
  MaxAge       \* bound on the clock

\* A lifetime is a number.
ASSUME DismissalAssumption == CacheTTL \in Nat

VARIABLES
  tracked,    \* MACs of drones in the state manager
  fpRows,     \* false_positives: when a MAC or prefix was recorded, or NeverCached
  fpCache,    \* Redis: "fp:" + key -> "0" or "1" and when it was set, NoEntry otherwise
  suspect,    \* the detection handleSuspectDetection is at
  begun,      \* MAC -> when tracking last began, and on whose answer
  errors,
  age

dismissalVars == <<tracked, fpRows, fpCache, suspect, begun, errors, age>>

NeverCached == -1
Keys == MACs \union {Prefix}
NoEntry == [value |-> "none", at |-> NeverCached]
NoSuspect == [at |-> "idle"]

Entry(key) == IF fpCache[key] # NoEntry /\ age - fpCache[key].at <= CacheTTL
              THEN fpCache[key].value ELSE "none"
Error == errors < MaxErrors /\ errors' = errors + 1

-----------------------------------------------------------------------------
\* A MAC already tracked is only updated, dismissed or not, and a randomized one is
\* rejected: neither gets this far.
handleSuspectDetection(m) ==
  /\ suspect = NoSuspect /\ m \notin tracked
  /\ suspect' = [at |-> "cache", mac |-> m, since |-> age]
  /\ UNCHANGED <<tracked, fpRows, fpCache, begun, errors, age>>

Decided(isFP, source) ==
  suspect' = IF isFP = "1" THEN NoSuspect
             ELSE [at |-> "track", mac |-> suspect.mac, since |-> suspect.since, source |-> source]

\* IsFalsePositive: an entry for the MAC decides, then one for the prefix if it says
\* yes.  Redis may fail, which reads as a miss.
ReadCache ==
  /\ suspect.at = "cache"
  /\ \/ Entry(suspect.mac) # "none" /\ Decided(Entry(suspect.mac), "cache") /\ UNCHANGED errors
     \/ /\ Entry(suspect.mac) = "none" /\ Entry(Prefix) = "1"
        /\ Decided("1", "cache") /\ UNCHANGED errors
     \/ /\ Entry(suspect.mac) = "none" /\ Entry(Prefix) # "1"
        /\ suspect' = [suspect EXCEPT !.at = "query"]
        /\ UNCHANGED errors
     \/ Error /\ suspect' = [suspect EXCEPT !.at = "query"]
  /\ UNCHANGED <<tracked, fpRows, fpCache, begun, age>>

CachedOnError_No == [fpCache EXCEPT ![suspect.mac] = [value |-> "0", at |-> age]]

\* A failed query is answered no and leaves no entry.
CachedOnError == fpCache

Found == IF fpRows[suspect.mac] # NeverCached \/ fpRows[Prefix] # NeverCached THEN "1" ELSE "0"

Query ==
  /\ suspect.at = "query"
  /\ \/ /\ suspect' = [at |-> "set", mac |-> suspect.mac, since |-> suspect.since, isFP |-> Found]
        /\ UNCHANGED <<errors, fpCache>>
     \/ Error /\ Decided("0", "error") /\ fpCache' = CachedOnError
  /\ UNCHANGED <<tracked, fpRows, begun, age>>

\* The answer is cached, unless Redis fails, and used.
SetCache ==
  /\ suspect.at = "set"
  /\ \/ /\ fpCache' = [fpCache EXCEPT ![suspect.mac] = [value |-> suspect.isFP, at |-> age]]
        /\ UNCHANGED errors
     \/ Error /\ UNCHANGED fpCache
  /\ Decided(suspect.isFP, "table")
  /\ UNCHANGED <<tracked, fpRows, begun, age>>

\* The drone WIFI-<mac> is made, analyzed and entered.
TrackMAC ==
  /\ suspect.at = "track"
  /\ tracked' = tracked \union {suspect.mac}
  /\ begun' = [begun EXCEPT ![suspect.mac] = [at |-> age, source |-> suspect.source]]
  /\ suspect' = NoSuspect
  /\ UNCHANGED <<fpRows, fpCache, errors, age>>

-----------------------------------------------------------------------------
\* handleSuspectAction, dismiss: RecordFalsePositive inserts the row, and nothing else;
\* an error is logged and the dismissal answered all the same.
Dismiss(key) ==
  /\ fpRows[key] = NeverCached
  /\ \/ fpRows' = [fpRows EXCEPT ![key] = age] /\ UNCHANGED errors
     \/ Error /\ UNCHANGED fpRows
  /\ UNCHANGED <<tracked, fpCache, suspect, begun, age>>

\* DeleteDrone, or eviction of a lost drone.
DeleteTracked(m) ==
  /\ m \in tracked
  /\ tracked' = tracked \ {m}
  /\ UNCHANGED <<fpRows, fpCache, suspect, begun, errors, age>>

\* The node starts again: drones of the last day come back from the database, and
\* LoadFalsePositivesToCache warms the cache.
Restart ==
  /\ suspect = NoSuspect
  /\ tracked' \in {tracked, {}}
  /\ \/ /\ fpCache' = [k \in Keys |-> IF fpRows[k] # NeverCached THEN [value |-> "1", at |-> age]
                                      ELSE fpCache[k]]
        /\ UNCHANGED errors
     \/ Error /\ UNCHANGED fpCache
  /\ UNCHANGED <<fpRows, suspect, begun, age>>

\* The lookups time out in seconds, so a detection is handled in less than two ticks.
AgeTick ==
  /\ age < MaxAge /\ (suspect # NoSuspect => suspect.since = age)
  /\ age' = age + 1
  /\ UNCHANGED <<tracked, fpRows, fpCache, suspect, begun, errors>>

DismissalInit ==
  /\ tracked = {} /\ fpRows = [k \in Keys |-> NeverCached] /\ fpCache = [k \in Keys |-> NoEntry]
  /\ suspect = NoSuspect /\ begun = [m \in MACs |-> [at |-> NeverCached, source |-> "none"]]
  /\ errors = 0 /\ age = 0

DismissalNext ==
  \/ \E m \in MACs : handleSuspectDetection(m) \/ DeleteTracked(m)
  \/ ReadCache \/ Query \/ SetCache \/ TrackMAC
  \/ \E k \in Keys : Dismiss(k)
  \/ Restart \/ AgeTick

DismissalSpec == DismissalInit /\ [][DismissalNext]_dismissalVars

-----------------------------------------------------------------------------
\* When the MAC, or its prefix, was dismissed.
Dismissed(m) ==
  IF fpRows[m] = NeverCached THEN fpRows[Prefix]
  ELSE IF fpRows[Prefix] # NeverCached /\ fpRows[Prefix] < fpRows[m] THEN fpRows[Prefix]
  ELSE fpRows[m]

\* IsFalsePositive and RecordFalsePositive (store.go): ten minutes after a dismissal,
\* and the two ticks a slow check before it and one at the end may take, the MAC does
\* not begin to be tracked again, unless Postgres failed the very check: no old answer
\* in the cache lasts longer.
DismissedStays ==
  \A m \in MACs :
    Dismissed(m) # NeverCached /\ begun[m].source # "error" => begun[m].at <= Dismissed(m) + CacheTTL + 2
=============================================================================
