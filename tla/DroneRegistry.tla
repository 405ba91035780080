--------------------------- MODULE DroneRegistry ---------------------------
(***************************************************************************)
(* The drone table of processor.StateManager (internal/processor/state.go) *)
(*                                                                         *)
(* Drones live in a sharded map keyed by identifier.  Two secondary        *)
(* indexes, bySerial and byMAC, are guarded by a lock of their own, so a   *)
(* call of UpdateDrone is a sequence of separately locked steps:           *)
(*                                                                         *)
(*   look up the serial  -> lock that drone's shard and merge, or give up  *)
(*   look up the MAC     -> lock that drone's shard and merge, or give up  *)
(*   lock the identifier's own shard -> create or update                   *)
(*                                                                         *)
(* and `delete' is two: drop the map entry under the shard lock, then the  *)
(* index entries under the index lock.  Every such step is one action      *)
(* here; the callers of UpdateDrone (Handlers), the operators that delete  *)
(* drones through the API (Operators) and the cleanup goroutine interleave *)
(* freely between them.                                                    *)
(*                                                                         *)
(* Time is a tick: every drone carries its age, the ticks since LastSeen,  *)
(* and the ticks since its last GPS fix.  Ages saturate at Horizon, beyond *)
(* every threshold the code compares them with.                            *)
(***************************************************************************)
EXTENDS Integers

CONSTANTS
  Ids,          \* identifiers a drone can be stored under
  Serials,      \* non-empty serial numbers
  Macs,         \* non-empty MAC addresses
  Handlers,     \* concurrent callers of UpdateDrone
  Operators,    \* concurrent callers of DeleteDrone
  Detections,   \* the detections a handler can be given
  GpsStale,     \* the 60 s after which a silent GPS position is dropped
  LostAfter,    \* LostThresholdSec
  EvictAfter,   \* EvictAfterMin; 0 disables eviction
  Horizon,      \* bound: ages saturate here
  MaxTrack      \* bound: track numbers handed out

\* The empty string: no serial, no MAC, no identifier found.
None == ""

\* LastGPSTime.IsZero(): no GPS time was ever recorded.
Never == -1

Detection == [id : Ids, serial : Serials \cup {None}, mac : Macs \cup {None},
              ctrl : BOOLEAN, fix : {"gps", "wifi", "bare"}]

ASSUME RegistryAssumption ==
  /\ None \notin Ids \cup Serials \cup Macs
  /\ Detections \subseteq Detection
  /\ GpsStale \in Nat /\ LostAfter \in Nat /\ EvictAfter \in Nat
  /\ Horizon \in Nat /\ MaxTrack \in Nat
  /\ Horizon > GpsStale /\ Horizon > LostAfter /\ Horizon > EvictAfter

VARIABLES
  drones,       \* the sharded map: identifier -> drone
  bySerial,     \* secondary index: serial -> identifier or None
  byMAC,        \* secondary index: MAC -> identifier or None
  nextTrackNum, \* the track number counter
  trails,       \* identifiers that have a GPS trail
  told,         \* what the last broadcast about an identifier said
  calls,        \* per handler: where its UpdateDrone call stands
  deletes,      \* per operator: where its DeleteDrone call stands
  cleaner       \* where the cleanup pass stands

vars == <<drones, bySerial, byMAC, nextTrackNum, trails, told,
          calls, deletes, cleaner>>

Age == 0..Horizon
TrackNumber == 0..MaxTrack

Drone == [status : {"absent", "active", "lost"},
          serial : Serials \cup {None}, mac : Macs \cup {None},
          ctrl : BOOLEAN, track : TrackNumber,
          seen : Age, pos : BOOLEAN, gps : Age \cup {Never}]

\* A key the map does not hold.
Absent == [status |-> "absent", serial |-> None, mac |-> None, ctrl |-> FALSE,
           track |-> 0, seen |-> 0, pos |-> FALSE, gps |-> Never]

Idle == [pc |-> "idle"]

Live == {i \in Ids : drones[i].status # "absent"}
-----------------------------------------------------------------------------
(***************************************************************************)
(* What a detection does to a drone.                                       *)
(***************************************************************************)

\* Mutant: a drone that returns from being lost gets no grace period.
WithFix_NoGrace(r, d) ==
  IF d.fix = "gps" THEN [r EXCEPT !.pos = TRUE, !.gps = 0]
  ELSE IF d.fix = "wifi" /\ r.pos /\ r.gps # Never /\ r.gps > GpsStale
       THEN [r EXCEPT !.pos = FALSE]
       ELSE r

\* The position after detection d of drone r: a fix stores it and the time;
\* a WiFi-only detection (no fix, but an RSSI) of a drone with a position
\* restarts the clock if the drone was lost, and drops the position when the
\* recorded GPS time is older than 60 s.
WithFix(r, d) ==
  IF d.fix = "gps" THEN [r EXCEPT !.pos = TRUE, !.gps = 0]
  ELSE IF d.fix = "wifi" /\ r.pos
       THEN IF r.status = "lost" THEN [r EXCEPT !.gps = 0]
            ELSE IF r.gps # Never /\ r.gps > GpsStale
                 THEN [r EXCEPT !.pos = FALSE]
                 ELSE r
       ELSE r

\* Mutant: hearing from a lost drone leaves it lost.
Touched_KeepsStatus(r) == [r EXCEPT !.seen = 0]

\* LastSeen, Status and ContactStatus, set by every detection.
Touched(r) == [r EXCEPT !.status = "active", !.seen = 0]

\* mergeIntoExisting: the MAC only fills a gap, the serial is not taken over.
mergeIntoExisting(r, d) ==
  LET t == Touched(WithFix(r, d))
  IN  IF r.mac = None THEN [t EXCEPT !.mac = d.mac] ELSE t

\* UpdateDrone on the drone stored under the detection's own identifier: the
\* serial is taken over, the MAC is not.
UpdateExisting(r, d) ==
  LET t == Touched(WithFix(r, d))
  IN  IF d.serial # None THEN [t EXCEPT !.serial = d.serial] ELSE t

\* UpdateDrone on an identifier that is not in the map.  LastGPSTime is not set.
NewDrone(d, num) ==
  [status |-> "active", serial |-> d.serial, mac |-> d.mac, ctrl |-> d.ctrl,
   track |-> num, seen |-> 0, pos |-> (d.fix = "gps"), gps |-> Never]

\* updateIndexes(id, key): a non-empty key now leads to id.
Indexed(index, key, i) ==
  IF key = None THEN index ELSE [index EXCEPT ![key] = i]

\* removeFromIndexes(id, key): the entry goes only if it still leads to id.
Unindexed(index, key, i) ==
  IF key # None /\ index[key] = i THEN [index EXCEPT ![key] = None] ELSE index

\* Mutant: the look-up never finds another drone.
Find_Nothing(index, key, exclude) == None

\* findDroneBySerial, findDroneByMAC: the other identifier the key leads to.
Find(index, key, exclude) ==
  IF key = None THEN None
  ELSE IF index[key] = exclude THEN None ELSE index[key]

\* Mutants: the counter is read again after another caller has moved it; the
\* smallest number no UAV in the table has; controllers are numbered too.
trackFor_Late(d) == IF d.ctrl THEN 0 ELSE nextTrackNum + 2

trackFor_Smallest(d) ==
  LET used == {drones[i].track : i \in Live}
  IN  IF d.ctrl THEN 0
      ELSE CHOOSE n \in 1..MaxTrack :
             n \notin used /\ \A m \in 1..(n - 1) : m \in used

\* assignTrackNumber: controllers get no number.
trackFor(d) == IF d.ctrl THEN 0 ELSE nextTrackNum + 1
-----------------------------------------------------------------------------
(***************************************************************************)
(* UpdateDrone, step by step.                                              *)
(***************************************************************************)
Call(pc, d, found) == [pc |-> pc, det |-> d, found |-> found]

\* findDroneBySerial, under the index lock.
LookupSerial(h, d) ==
  LET found == Find(bySerial, d.serial, d.id)
  IN  /\ calls[h] = Idle
      /\ calls' = [calls EXCEPT ![h] =
                     IF found = None THEN Call("lookupMAC", d, None)
                                     ELSE Call("mergeSerial", d, found)]
      /\ UNCHANGED <<drones, bySerial, byMAC, nextTrackNum, trails, told,
                     deletes, cleaner>>

\* findDroneByMAC, under the index lock.
LookupMAC(h) ==
  LET d     == calls[h].det
      found == Find(byMAC, d.mac, d.id)
  IN  /\ calls[h].pc = "lookupMAC"
      /\ calls' = [calls EXCEPT ![h] =
                     IF found = None THEN Call("own", d, None)
                                     ELSE Call("mergeMAC", d, found)]
      /\ UNCHANGED <<drones, bySerial, byMAC, nextTrackNum, trails, told,
                     deletes, cleaner>>

\* Mutant: the call returns without the broadcast.
Merge_Silent(h, pc, next) ==
  LET c == calls[h]
  IN  /\ c.pc = pc
      /\ IF c.found \in Live
         THEN /\ drones' = [drones EXCEPT ![c.found] =
                              mergeIntoExisting(@, c.det)]
              /\ calls' = [calls EXCEPT ![h] = Idle]
         ELSE /\ calls' = [calls EXCEPT ![h] = Call(next, c.det, None)]
              /\ UNCHANGED drones
      /\ UNCHANGED <<bySerial, byMAC, nextTrackNum, trails, told,
                     deletes, cleaner>>

\* The shard of the drone the index named is locked: if the drone is still
\* there the detection is merged into it, else the call moves on to `next'.
\* Neither the indexes nor the trail are touched.
Merge(h, pc, next) ==
  LET c == calls[h]
  IN  /\ c.pc = pc
      /\ IF c.found \in Live
         THEN /\ drones' = [drones EXCEPT ![c.found] =
                              mergeIntoExisting(@, c.det)]
              /\ calls' = [calls EXCEPT ![h].pc = "notify"]
         ELSE /\ calls' = [calls EXCEPT ![h] = Call(next, c.det, None)]
              /\ UNCHANGED drones
      /\ UNCHANGED <<bySerial, byMAC, nextTrackNum, trails, told,
                     deletes, cleaner>>

MergeBySerial(h) == Merge(h, "mergeSerial", "lookupMAC")

MergeByMAC(h) == Merge(h, "mergeMAC", "own")

\* The drone_update broadcast that follows a merge, after the shard lock is
\* released; the call returns (false, found).
NotifyMerged(h) ==
  /\ calls[h].pc = "notify"
  /\ told' = [told EXCEPT ![calls[h].found] = "present"]
  /\ calls' = [calls EXCEPT ![h] = Idle]
  /\ UNCHANGED <<drones, bySerial, byMAC, nextTrackNum, trails,
                 deletes, cleaner>>

\* Mutant: the indexes are not refreshed when an existing drone is updated.
Store_NoRefresh(h, r) ==
  LET i == calls[h].det.id
  IN  /\ drones' = [drones EXCEPT ![i] = r]
      /\ bySerial' = IF i \in Live THEN bySerial ELSE Indexed(bySerial, r.serial, i)
      /\ byMAC' = IF i \in Live THEN byMAC ELSE Indexed(byMAC, r.mac, i)
      /\ trails' = IF r.pos THEN trails \cup {i} ELSE trails
      /\ told' = [told EXCEPT ![i] = "present"]
      /\ calls' = [calls EXCEPT ![h] = Idle]
      /\ UNCHANGED <<deletes, cleaner>>

\* The new or updated drone r is stored under the detection's identifier, its
\* keys are indexed, its position is added to the trail, and the change is
\* broadcast, all under the lock of its shard.
Store(h, r) ==
  LET i == calls[h].det.id
  IN  /\ drones' = [drones EXCEPT ![i] = r]
      /\ bySerial' = Indexed(bySerial, r.serial, i)
      /\ byMAC' = Indexed(byMAC, r.mac, i)
      /\ trails' = IF r.pos THEN trails \cup {i} ELSE trails
      /\ told' = [told EXCEPT ![i] = "present"]
      /\ calls' = [calls EXCEPT ![h] = Idle]
      /\ UNCHANGED <<deletes, cleaner>>

CreateOwn(h) ==
  LET d == calls[h].det
  IN  /\ calls[h].pc = "own"
      /\ d.id \notin Live
      /\ d.ctrl \/ nextTrackNum < MaxTrack
      /\ nextTrackNum' = IF d.ctrl THEN nextTrackNum ELSE nextTrackNum + 1
      /\ Store(h, NewDrone(d, trackFor(d)))

UpdateOwn(h) ==
  LET d == calls[h].det
  IN  /\ calls[h].pc = "own"
      /\ d.id \in Live
      /\ Store(h, UpdateExisting(drones[d.id], d))
      /\ UNCHANGED nextTrackNum
-----------------------------------------------------------------------------
(***************************************************************************)
(* Removal: DeleteDrone by an operator, and the cleanup pass.              *)
(***************************************************************************)

\* First half of `delete': the map entry goes, under the shard lock.
DeleteDrone(o, i) ==
  /\ deletes[o] = Idle
  /\ i \in Live
  /\ deletes' = [deletes EXCEPT ![o] = [pc |-> "unindex", id |-> i,
                    serial |-> drones[i].serial, mac |-> drones[i].mac]]
  /\ drones' = [drones EXCEPT ![i] = Absent]
  /\ UNCHANGED <<bySerial, byMAC, nextTrackNum, trails, told, calls, cleaner>>

\* Second half: the index entries of the removed drone go, under the index lock.
UnindexDeleted(o) ==
  LET c == deletes[o]
  IN  /\ c.pc = "unindex"
      /\ bySerial' = Unindexed(bySerial, c.serial, c.id)
      /\ byMAC' = Unindexed(byMAC, c.mac, c.id)
      /\ deletes' = [deletes EXCEPT ![o] = Idle]
      /\ UNCHANGED <<drones, nextTrackNum, trails, told, calls, cleaner>>

\* The 10 s ticker fires: cleanup starts with all drones still to look at.
StartCleanup ==
  /\ cleaner.pc = "due"
  /\ cleaner' = [pc |-> "mark", todo |-> Ids, evict |-> {}]
  /\ UNCHANGED <<drones, bySerial, byMAC, nextTrackNum, trails, told,
                 calls, deletes>>

\* Mutant: the age is compared for equality, so a late pass misses it.
MarkLost_Exact(i) ==
  /\ cleaner.pc = "mark"
  /\ i \in cleaner.todo
  /\ IF drones[i].status = "active" /\ drones[i].seen = LostAfter + 1
     THEN /\ drones' = [drones EXCEPT ![i].status = "lost"]
          /\ told' = [told EXCEPT ![i] = "lost"]
     ELSE UNCHANGED <<drones, told>>
  /\ cleaner' = [cleaner EXCEPT !.todo = @ \ {i}]
  /\ UNCHANGED <<bySerial, byMAC, nextTrackNum, trails, calls, deletes>>

\* forEachMut: an active drone silent for longer than the threshold is lost.
MarkLost(i) ==
  /\ cleaner.pc = "mark"
  /\ i \in cleaner.todo
  /\ IF drones[i].status = "active" /\ drones[i].seen > LostAfter
     THEN /\ drones' = [drones EXCEPT ![i].status = "lost"]
          /\ told' = [told EXCEPT ![i] = "lost"]
     ELSE UNCHANGED <<drones, told>>
  /\ cleaner' = [cleaner EXCEPT !.todo = @ \ {i}]
  /\ UNCHANGED <<bySerial, byMAC, nextTrackNum, trails, calls, deletes>>

\* With eviction disabled the pass ends here, else it collects identifiers.
EndMarking ==
  /\ cleaner.pc = "mark"
  /\ cleaner.todo = {}
  /\ cleaner' = IF EvictAfter = 0 THEN Idle
                ELSE [cleaner EXCEPT !.pc = "collect", !.todo = Ids]
  /\ UNCHANGED <<drones, bySerial, byMAC, nextTrackNum, trails, told,
                 calls, deletes>>

\* A lost drone past the eviction age is noted, under the shard's read lock.
CollectEvictable(i) ==
  /\ cleaner.pc = "collect"
  /\ i \in cleaner.todo
  /\ cleaner' = [cleaner EXCEPT !.todo = @ \ {i},
       !.evict = IF drones[i].status = "lost" /\ drones[i].seen > EvictAfter
                 THEN @ \cup {i} ELSE @]
  /\ UNCHANGED <<drones, bySerial, byMAC, nextTrackNum, trails, told,
                 calls, deletes>>

EndCollecting ==
  /\ cleaner.pc = "collect"
  /\ cleaner.todo = {}
  /\ cleaner' = [cleaner EXCEPT !.pc = "evict"]
  /\ UNCHANGED <<drones, bySerial, byMAC, nextTrackNum, trails, told,
                 calls, deletes>>

\* `delete' of a noted identifier, first half; whatever is stored there by now
\* is removed.
Evict(i) ==
  /\ cleaner.pc = "evict"
  /\ i \in cleaner.evict
  /\ drones' = [drones EXCEPT ![i] = Absent]
  /\ cleaner' = [pc |-> "unindex", evict |-> cleaner.evict \ {i}, id |-> i,
                 serial |-> drones[i].serial, mac |-> drones[i].mac]
  /\ UNCHANGED <<bySerial, byMAC, nextTrackNum, trails, told, calls, deletes>>

UnindexEvicted ==
  /\ cleaner.pc = "unindex"
  /\ bySerial' = Unindexed(bySerial, cleaner.serial, cleaner.id)
  /\ byMAC' = Unindexed(byMAC, cleaner.mac, cleaner.id)
  /\ cleaner' = [pc |-> "untrail", evict |-> cleaner.evict, id |-> cleaner.id]
  /\ UNCHANGED <<drones, nextTrackNum, trails, told, calls, deletes>>

\* RemoveTrail of the evicted identifier.
RemoveTrail ==
  /\ cleaner.pc = "untrail"
  /\ trails' = trails \ {cleaner.id}
  /\ cleaner' = [pc |-> "evict", todo |-> {}, evict |-> cleaner.evict]
  /\ UNCHANGED <<drones, bySerial, byMAC, nextTrackNum, told, calls, deletes>>

EndEviction ==
  /\ cleaner.pc = "evict"
  /\ cleaner.evict = {}
  /\ cleaner' = Idle
  /\ UNCHANGED <<drones, bySerial, byMAC, nextTrackNum, trails, told,
                 calls, deletes>>

\* Time passes between cleanup passes (a pass takes far less than a tick, and
\* compares every age with the instant it started) and the ticker falls due.
Older(n) == IF n < Horizon THEN n + 1 ELSE n

Tick ==
  /\ cleaner.pc \in {"idle", "due"}
  /\ drones' = [i \in Ids |->
       IF i \in Live
       THEN [drones[i] EXCEPT !.seen = Older(@),
                              !.gps = IF @ = Never THEN Never ELSE Older(@)]
       ELSE drones[i]]
  /\ cleaner' = [pc |-> "due"]
  /\ UNCHANGED <<bySerial, byMAC, nextTrackNum, trails, told, calls, deletes>>
-----------------------------------------------------------------------------
Init ==
  /\ drones = [i \in Ids |-> Absent]
  /\ bySerial = [s \in Serials |-> None]
  /\ byMAC = [m \in Macs |-> None]
  /\ nextTrackNum = 0
  /\ trails = {}
  /\ told = [i \in Ids |-> "unknown"]
  /\ calls = [h \in Handlers |-> Idle]
  /\ deletes = [o \in Operators |-> Idle]
  /\ cleaner = Idle

UpdateDrone(h) ==
  \/ \E d \in Detections : LookupSerial(h, d)
  \/ MergeBySerial(h) \/ LookupMAC(h) \/ MergeByMAC(h) \/ NotifyMerged(h)
  \/ CreateOwn(h) \/ UpdateOwn(h)

Cleanup ==
  \/ StartCleanup \/ EndMarking \/ EndCollecting \/ EndEviction
  \/ \E i \in Ids : MarkLost(i) \/ CollectEvictable(i) \/ Evict(i)
  \/ UnindexEvicted \/ RemoveTrail

Next ==
  \/ \E h \in Handlers : UpdateDrone(h)
  \/ \E o \in Operators : UnindexDeleted(o) \/ \E i \in Ids : DeleteDrone(o, i)
  \/ Cleanup
  \/ Tick

Spec == Init /\ [][Next]_vars
-----------------------------------------------------------------------------
(***************************************************************************)
(* Types.                                                                  *)
(***************************************************************************)
CallType ==
  {Idle} \cup
  [pc : {"mergeSerial", "lookupMAC", "mergeMAC", "own", "notify"},
   det : Detections, found : Ids \cup {None}]

DeleteType ==
  {Idle} \cup [pc : {"unindex"}, id : Ids,
               serial : Serials \cup {None}, mac : Macs \cup {None}]

CleanerType ==
  {Idle, [pc |-> "due"]}
  \cup [pc : {"mark", "collect", "evict"}, todo : SUBSET Ids, evict : SUBSET Ids]
  \cup [pc : {"unindex"}, evict : SUBSET Ids, id : Ids,
        serial : Serials \cup {None}, mac : Macs \cup {None}]
  \cup [pc : {"untrail"}, evict : SUBSET Ids, id : Ids]

\* The table, the indexes and the three kinds of processes have the shapes
\* state.go gives them.
TypeOK ==
  /\ drones \in [Ids -> Drone]
  /\ bySerial \in [Serials -> Ids \cup {None}]
  /\ byMAC \in [Macs -> Ids \cup {None}]
  /\ nextTrackNum \in TrackNumber
  /\ trails \in SUBSET Ids
  /\ told \in [Ids -> {"unknown", "present", "lost"}]
  /\ calls \in [Handlers -> CallType]
  /\ deletes \in [Operators -> DeleteType]
  /\ cleaner \in CleanerType
  /\ \A h \in Handlers :
       calls[h].pc \in {"mergeSerial", "mergeMAC", "notify"} => calls[h].found \in Ids
-----------------------------------------------------------------------------
(***************************************************************************)
(* Properties that hold however the callers interleave.                    *)
(***************************************************************************)

\* Every tracked UAV has a number the counter has handed out, no two share one,
\* and controllers have none (assignTrackNumber, BackfillTrackNumbers), whatever
\* merges, reactivations and removals happen around it.
UniqueTrackNumbers ==
  \A i, j \in Live :
    /\ drones[i].ctrl <=> drones[i].track = 0
    /\ drones[i].track <= nextTrackNum
    /\ (i # j /\ drones[i].track = drones[j].track) => drones[i].ctrl

\* A number stays with its drone for as long as the drone is in the table, and
\* a drone that enters the table, for the first time or after it was deleted or
\* evicted, never gets a number that was in use before (assignTrackNumber).
TrackNumbersNeverReused ==
  [][\A i \in Ids :
       /\ (i \in Live /\ i \in Live') => drones'[i].track = drones[i].track
       /\ (i \notin Live /\ i \in Live') =>
             drones'[i].ctrl \/ drones'[i].track > nextTrackNum]_vars

\* A drone is shown as lost only if it has been silent for the whole threshold:
\* every path that hears from it, a merge included, also brings it back.
LostIsStale ==
  \A i \in Live : drones[i].status = "lost" => drones[i].seen > LostAfter

\* A position is dropped only when its fix is older than the 60 s grace period
\* and the drone was being tracked: neither a beacon between two GPS frames nor
\* the first beacon of a drone that was lost wipes it (UpdateDrone,
\* mergeIntoExisting).
FreshFixKept ==
  [][\A i \in Ids :
       (i \in Live /\ i \in Live' /\ drones[i].pos /\ ~drones'[i].pos) =>
          drones[i].gps > GpsStale /\ drones[i].status = "active"]_vars
-----------------------------------------------------------------------------
(***************************************************************************)
(* Identity: one drone per serial number.                                  *)
(***************************************************************************)

\* No two drones of the table carry the same serial number: what the look-up at
\* the top of UpdateDrone is for.
NoDuplicateSerial ==
  \A i, j \in Live :
    (drones[i].serial # None /\ drones[i].serial = drones[j].serial) => i = j

\* The same for MAC addresses.
NoDuplicateMAC ==
  \A i, j \in Live :
    (drones[i].mac # None /\ drones[i].mac = drones[j].mac) => i = j

\* The setting in which the serial look-up is reliable: one goroutine calls
\* UpdateDrone (the receiver's single subscription) and nothing is removed.
SingleWriter ==
  /\ \A g, h \in Handlers : g = h
  /\ Operators = {}
  /\ EvictAfter = 0

\* The strengthening of NoDuplicateSerial that UpdateDrone maintains then:
\* a drone's serial leads to it, an index entry leads to a drone, and a call
\* past the serial look-up holds a serial that no other drone carries.
SerialIndexed ==
  /\ \A i \in Live : drones[i].serial # None => bySerial[drones[i].serial] = i
  /\ \A s \in Serials : bySerial[s] # None => bySerial[s] \in Live
  /\ \A h \in Handlers :
       /\ calls[h].pc \in {"lookupMAC", "mergeMAC", "own"} =>
            Find(bySerial, calls[h].det.serial, calls[h].det.id) = None
       /\ calls[h].pc = "mergeSerial" => calls[h].found \in Live

-----------------------------------------------------------------------------
(***************************************************************************)
(* Liveness.  A call that has started finishes (UpdateDrone never blocks   *)
(* on anything but short critical sections), time passes and the ticker's  *)
(* goroutine runs; nothing forces a detection or an operator to come.      *)
(***************************************************************************)
FairSpec ==
  /\ Spec
  /\ WF_vars(Tick)
  /\ WF_vars(Cleanup)
  /\ \A h \in Handlers :
       WF_vars(calls[h] # Idle /\ UpdateDrone(h))

\* A drone that falls silent is eventually reported lost, unless it is heard
\* again or removed (cleanup).
SilentBecomesLost ==
  \A i \in Ids :
    (drones[i].status = "active" /\ drones[i].seen > 0)
      ~> (drones[i].status # "active" \/ drones[i].seen = 0)

\* Subscribers that were told a drone is lost are told when it comes back, also
\* when it comes back through a merge, whose broadcast follows the unlock.
ReturnIsAnnounced ==
  \A i \in Ids :
    (drones[i].status = "active" /\ told[i] = "lost")
      ~> (told[i] = "present" \/ drones[i].status = "absent")
=============================================================================
