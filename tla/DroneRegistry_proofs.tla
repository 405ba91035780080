------------------------ MODULE DroneRegistry_proofs ------------------------
(***************************************************************************)
(* Proofs about DroneRegistry, for any identifiers, serials, MACs,         *)
(* detections, thresholds and numbers of concurrent callers.               *)
(***************************************************************************)
EXTENDS DroneRegistry, TLAPS

(***************************************************************************)
(* Ages, and what the operators on one drone return.                       *)
(***************************************************************************)

\* Ages start at 0, never reach Never, and saturate (the cap on ages).
LEMMA AgeFacts ==
  /\ 0 \in Age /\ Never \notin Age /\ 0 \in TrackNumber
  /\ \A n \in Age : Older(n) \in Age /\ Older(n) >= n
BY RegistryAssumption DEF RegistryAssumption, Age, Never, Older, TrackNumber

\* Storing a fix, or dropping a stale one, changes the position fields only
\* (the GPS rule of UpdateDrone and mergeIntoExisting).
LEMMA WithFixFields ==
  ASSUME NEW r \in Drone, NEW d \in Detection
  PROVE  /\ WithFix(r, d) \in Drone
         /\ WithFix(r, d).status = r.status
         /\ WithFix(r, d).serial = r.serial
         /\ WithFix(r, d).mac = r.mac
         /\ WithFix(r, d).ctrl = r.ctrl
         /\ WithFix(r, d).track = r.track
         /\ WithFix(r, d).seen = r.seen
BY AgeFacts, Zenon DEF WithFix, Drone

\* Hearing from a drone makes it active and fresh and changes nothing else
\* (LastSeen, Status and ContactStatus in UpdateDrone and mergeIntoExisting).
LEMMA TouchedFields ==
  ASSUME NEW r \in Drone
  PROVE  /\ Touched(r) \in Drone
         /\ Touched(r).status = "active"
         /\ Touched(r).serial = r.serial
         /\ Touched(r).mac = r.mac
         /\ Touched(r).ctrl = r.ctrl
         /\ Touched(r).track = r.track
BY AgeFacts, Zenon DEF Touched, Drone

\* A merge makes the drone active and fresh and keeps its serial, its kind and
\* its track number (mergeIntoExisting).
LEMMA MergeFields ==
  ASSUME NEW r \in Drone, NEW d \in Detection
  PROVE  /\ mergeIntoExisting(r, d) \in Drone
         /\ mergeIntoExisting(r, d).status = "active"
         /\ mergeIntoExisting(r, d).serial = r.serial
         /\ mergeIntoExisting(r, d).ctrl = r.ctrl
         /\ mergeIntoExisting(r, d).track = r.track
<1> DEFINE w == WithFix(r, d)
<1>1. w \in Drone /\ w.serial = r.serial /\ w.ctrl = r.ctrl /\ w.track = r.track
  BY WithFixFields
<1> HIDE DEF w
<1>2. /\ Touched(w) \in Drone /\ Touched(w).status = "active"
      /\ Touched(w).serial = r.serial /\ Touched(w).ctrl = r.ctrl
      /\ Touched(w).track = r.track
  BY <1>1, TouchedFields
<1>3. mergeIntoExisting(r, d) =
        IF r.mac = None THEN [Touched(w) EXCEPT !.mac = d.mac] ELSE Touched(w)
  BY DEF mergeIntoExisting, w
<1> QED
  BY <1>2, <1>3 DEF Drone, Detection

\* An update under the drone's own identifier does the same, but takes over a
\* non-empty serial (UpdateDrone).
LEMMA UpdateFields ==
  ASSUME NEW r \in Drone, NEW d \in Detection
  PROVE  /\ UpdateExisting(r, d) \in Drone
         /\ UpdateExisting(r, d).status = "active"
         /\ UpdateExisting(r, d).serial =
              IF d.serial = None THEN r.serial ELSE d.serial
         /\ UpdateExisting(r, d).ctrl = r.ctrl
         /\ UpdateExisting(r, d).track = r.track
<1> DEFINE w == WithFix(r, d)
<1>1. w \in Drone /\ w.serial = r.serial /\ w.ctrl = r.ctrl /\ w.track = r.track
  BY WithFixFields
<1> HIDE DEF w
<1>2. /\ Touched(w) \in Drone /\ Touched(w).status = "active"
      /\ Touched(w).serial = r.serial /\ Touched(w).ctrl = r.ctrl
      /\ Touched(w).track = r.track
  BY <1>1, TouchedFields
<1>3. UpdateExisting(r, d) =
        IF d.serial # None THEN [Touched(w) EXCEPT !.serial = d.serial]
                           ELSE Touched(w)
  BY DEF UpdateExisting, w
<1> QED
  BY <1>2, <1>3 DEF Drone, Detection

\* A drone enters the table active, with the keys of its detection (UpdateDrone).
LEMMA NewFields ==
  ASSUME NEW d \in Detection, NEW n \in TrackNumber
  PROVE  NewDrone(d, n) \in Drone
BY AgeFacts DEF NewDrone, Drone, Detection

\* The index operations keep an index an index, and a look-up yields an
\* identifier or nothing (updateIndexes, removeFromIndexes, findDroneBySerial).
LEMMA IndexOps ==
  ASSUME NEW Keys, None \notin Keys,
         NEW index \in [Keys -> Ids \cup {None}],
         NEW key \in Keys \cup {None}, NEW i \in Ids
  PROVE  /\ Indexed(index, key, i) \in [Keys -> Ids \cup {None}]
         /\ Unindexed(index, key, i) \in [Keys -> Ids \cup {None}]
         /\ Find(index, key, i) \in Ids \cup {None}
BY DEF Indexed, Unindexed, Find

-----------------------------------------------------------------------------
(***************************************************************************)
(* Type correctness.                                                       *)
(***************************************************************************)

\* A call that is past its first look-up carries one of the detections.
LEMMA CallDetection ==
  ASSUME TypeOK, NEW h \in Handlers, calls[h] # Idle
  PROVE  /\ calls[h].det \in Detections
         /\ calls[h].det \in Detection
         /\ calls[h].det.id \in Ids
         /\ calls[h].det.serial \in Serials \cup {None}
         /\ calls[h].det.mac \in Macs \cup {None}
         /\ calls[h].found \in Ids \cup {None}
<1>1. calls[h].det \in Detections /\ calls[h].found \in Ids \cup {None}
  BY DEF TypeOK, CallType
<1>2. calls[h].det \in Detection
  BY <1>1, RegistryAssumption DEF RegistryAssumption
<1> QED
  BY <1>1, <1>2 DEF Detection

\* The empty table is well typed (NewStateManager).
LEMMA TypeInit == Init => TypeOK
<1> SUFFICES ASSUME Init PROVE TypeOK
  OBVIOUS
<1>1. Absent \in Drone
  BY AgeFacts DEF Absent, Drone
<1> QED
  BY <1>1, AgeFacts DEF Init, TypeOK, CallType, DeleteType, CleanerType, Idle

\* Every locked step of UpdateDrone keeps the types.
LEMMA TypeUpdateDrone ==
  ASSUME TypeOK, NEW h \in Handlers, UpdateDrone(h)
  PROVE  TypeOK'
<1> USE DEF TypeOK
<1>0. None \notin Serials /\ None \notin Macs /\ None \notin Ids
  BY RegistryAssumption DEF RegistryAssumption
<1>1. ASSUME NEW d \in Detections, LookupSerial(h, d)
      PROVE  TypeOK'
  <2>1. d \in Detection
    BY RegistryAssumption DEF RegistryAssumption
  <2>2. Find(bySerial, d.serial, d.id) \in Ids \cup {None}
    BY <1>0, <2>1, IndexOps DEF Detection
  <2>3. calls' \in [Handlers -> CallType]
    BY <1>1, <2>2 DEF LookupSerial, CallType, Call
  <2>4. \A g \in Handlers :
          calls'[g].pc \in {"mergeSerial", "mergeMAC", "notify"} => calls'[g].found \in Ids
    BY <1>1, <2>2 DEF LookupSerial, CallType, Call
  <2> QED
    BY <1>1, <2>3, <2>4 DEF LookupSerial
<1>2. CASE LookupMAC(h)
  <2>1. calls[h] # Idle
    BY <1>2 DEF LookupMAC, Idle
  <2>2. Find(byMAC, calls[h].det.mac, calls[h].det.id) \in Ids \cup {None}
    BY <1>0, <2>1, CallDetection, IndexOps
  <2>3. calls' \in [Handlers -> CallType]
    BY <1>2, <2>1, <2>2, CallDetection DEF LookupMAC, CallType, Call
  <2>4. \A g \in Handlers :
          calls'[g].pc \in {"mergeSerial", "mergeMAC", "notify"} => calls'[g].found \in Ids
    BY <1>2, <2>2 DEF LookupMAC, Call
  <2> QED
    BY <1>2, <2>3, <2>4 DEF LookupMAC
<1>3. ASSUME NEW pc \in {"mergeSerial", "mergeMAC"}, NEW next \in {"lookupMAC", "own"},
             Merge(h, pc, next)
      PROVE  TypeOK'
  <2>1. calls[h] # Idle /\ calls[h].pc = pc /\ calls[h].found \in Ids
    BY <1>3 DEF Merge, Idle
  <2>2. calls[h].det \in Detections /\ calls[h].det \in Detection
    BY <2>1, CallDetection
  <2>3. mergeIntoExisting(drones[calls[h].found], calls[h].det) \in Drone
    BY <2>1, <2>2, MergeFields
  <2>4. drones' \in [Ids -> Drone]
    BY <1>3, <2>3 DEF Merge
  <2>5. calls' \in [Handlers -> CallType]
    BY <1>3, <2>1, <2>2 DEF Merge, CallType, Call
  <2>6. \A g \in Handlers :
          calls'[g].pc \in {"mergeSerial", "mergeMAC", "notify"} => calls'[g].found \in Ids
    BY <1>3, <2>1, <2>2 DEF Merge, Call, CallType
  <2> QED
    BY <1>3, <2>4, <2>5, <2>6 DEF Merge
<1>4. CASE NotifyMerged(h)
  BY <1>4 DEF NotifyMerged, CallType, Idle
<1>5. ASSUME calls[h].pc = "own", NEW r \in Drone, Store(h, r),
             nextTrackNum' \in TrackNumber
      PROVE  TypeOK'
  <2>1. calls[h] # Idle
    BY <1>5 DEF Idle
  <2>2. r.serial \in Serials \cup {None} /\ r.mac \in Macs \cup {None}
    BY DEF Drone
  <2>3. /\ bySerial' \in [Serials -> Ids \cup {None}]
        /\ byMAC' \in [Macs -> Ids \cup {None}]
    BY <1>0, <1>5, <2>1, <2>2, CallDetection, IndexOps DEF Store
  <2>4. calls' \in [Handlers -> CallType]
    BY <1>5 DEF Store, CallType
  <2>5. \A g \in Handlers :
          calls'[g].pc \in {"mergeSerial", "mergeMAC", "notify"} => calls'[g].found \in Ids
    BY <1>5 DEF Store, Idle
  <2> QED
    BY <1>5, <2>1, <2>3, <2>4, <2>5, CallDetection DEF Store
<1>6. CASE CreateOwn(h)
  <2>1. calls[h] # Idle /\ calls[h].pc = "own"
    BY <1>6 DEF CreateOwn, Idle
  <2>2. trackFor(calls[h].det) \in TrackNumber /\ nextTrackNum' \in TrackNumber
    BY <1>6, <2>1, RegistryAssumption
    DEF CreateOwn, trackFor, TrackNumber, RegistryAssumption
  <2>3. NewDrone(calls[h].det, trackFor(calls[h].det)) \in Drone
    BY <2>1, <2>2, CallDetection, NewFields
  <2> QED
    BY <1>5, <1>6, <2>1, <2>2, <2>3 DEF CreateOwn
<1>7. CASE UpdateOwn(h)
  <2>1. calls[h] # Idle /\ calls[h].pc = "own"
    BY <1>7 DEF UpdateOwn, Idle
  <2>2. UpdateExisting(drones[calls[h].det.id], calls[h].det) \in Drone
    BY <2>1, CallDetection, UpdateFields
  <2>3. nextTrackNum' \in TrackNumber
    BY <1>7 DEF UpdateOwn
  <2> QED
    BY <1>5, <1>7, <2>1, <2>2, <2>3 DEF UpdateOwn
<1> HIDE DEF TypeOK
<1> QED
  BY <1>1, <1>2, <1>3, <1>4, <1>6, <1>7 DEF UpdateDrone, MergeBySerial, MergeByMAC

\* Deletion and the cleanup pass keep the types.
LEMMA TypeRemoval ==
  ASSUME TypeOK
  PROVE  /\ \A o \in Operators, i \in Ids : DeleteDrone(o, i) => TypeOK'
         /\ \A o \in Operators : UnindexDeleted(o) => TypeOK'
         /\ Cleanup => TypeOK'
<1> USE DEF TypeOK
<1>0. None \notin Serials /\ None \notin Macs
  BY RegistryAssumption DEF RegistryAssumption
<1>a. Absent \in Drone
  BY AgeFacts DEF Absent, Drone
<1>b. \A i \in Ids : drones[i].serial \in Serials \cup {None}
                     /\ drones[i].mac \in Macs \cup {None}
  BY DEF Drone
<1>1. ASSUME NEW o \in Operators, NEW i \in Ids, DeleteDrone(o, i)
      PROVE  TypeOK'
  BY <1>1, <1>a, <1>b DEF DeleteDrone, DeleteType
<1>2. ASSUME NEW o \in Operators, UnindexDeleted(o)
      PROVE  TypeOK'
  <2>1. deletes[o] # Idle
    BY <1>2 DEF UnindexDeleted, Idle
  <2>2. /\ deletes[o].id \in Ids
        /\ deletes[o].serial \in Serials \cup {None}
        /\ deletes[o].mac \in Macs \cup {None}
    BY <2>1 DEF DeleteType
  <2>3. /\ bySerial' \in [Serials -> Ids \cup {None}]
        /\ byMAC' \in [Macs -> Ids \cup {None}]
    BY <1>0, <1>2, <2>2, IndexOps DEF UnindexDeleted
  <2> QED
    BY <1>2, <2>3 DEF UnindexDeleted, DeleteType
<1>3. ASSUME Cleanup PROVE TypeOK'
  <2>1. CASE StartCleanup
    BY <2>1 DEF StartCleanup, CleanerType
  <2>2. CASE EndMarking
    <3>1. cleaner \in [pc : {"mark", "collect", "evict"}, todo : SUBSET Ids, evict : SUBSET Ids]
      BY <2>2 DEF EndMarking, CleanerType, Idle
    <3>2. cleaner' \in CleanerType
      BY <2>2, <3>1, Zenon DEF EndMarking, CleanerType
    <3> QED
      BY <2>2, <3>2 DEF EndMarking
  <2>3. CASE EndCollecting
    <3>1. cleaner \in [pc : {"mark", "collect", "evict"}, todo : SUBSET Ids, evict : SUBSET Ids]
      BY <2>3 DEF EndCollecting, CleanerType, Idle
    <3>2. cleaner' \in CleanerType
      BY <2>3, <3>1 DEF EndCollecting, CleanerType
    <3> QED
      BY <2>3, <3>2 DEF EndCollecting
  <2>4. CASE EndEviction
    BY <2>4 DEF EndEviction, CleanerType
  <2>5. ASSUME NEW i \in Ids, MarkLost(i) PROVE TypeOK'
    <3>1. cleaner \in [pc : {"mark", "collect", "evict"}, todo : SUBSET Ids, evict : SUBSET Ids]
      BY <2>5 DEF MarkLost, CleanerType, Idle
    <3>2. cleaner' \in CleanerType
      BY <2>5, <3>1 DEF MarkLost, CleanerType
    <3>3. [drones[i] EXCEPT !.status = "lost"] \in Drone
      <4>1. drones[i] \in Drone
        OBVIOUS
      <4> HIDE DEF TypeOK
      <4> QED
        BY <4>1 DEF Drone
    <3>4. drones' \in [Ids -> Drone]
      BY <2>5, <3>3 DEF MarkLost
    <3> QED
      BY <2>5, <3>2, <3>4 DEF MarkLost
  <2>6. ASSUME NEW i \in Ids, CollectEvictable(i) PROVE TypeOK'
    <3>1. cleaner \in [pc : {"mark", "collect", "evict"}, todo : SUBSET Ids, evict : SUBSET Ids]
      BY <2>6 DEF CollectEvictable, CleanerType, Idle
    <3>2. \E E \in SUBSET Ids :
            cleaner' = [cleaner EXCEPT !.todo = @ \ {i}, !.evict = E]
      <4>1. cleaner.evict \in SUBSET Ids /\ cleaner.evict \cup {i} \in SUBSET Ids
        BY <3>1
      <4> QED
        BY <2>6, <4>1 DEF CollectEvictable
    <3>3. cleaner' \in CleanerType
      <4> HIDE DEF TypeOK
      <4>1. cleaner' \in [pc : {"mark", "collect", "evict"}, todo : SUBSET Ids, evict : SUBSET Ids]
        BY <3>1, <3>2, ZenonT(40)
      <4> QED
        BY <4>1 DEF CleanerType
    <3> QED
      BY <2>6, <3>3 DEF CollectEvictable
  <2>7. ASSUME NEW i \in Ids, Evict(i) PROVE TypeOK'
    <3>1. cleaner \in [pc : {"mark", "collect", "evict"}, todo : SUBSET Ids, evict : SUBSET Ids]
      BY <2>7 DEF Evict, CleanerType, Idle
    <3>2. cleaner' \in CleanerType
      BY <1>b, <2>7, <3>1 DEF Evict, CleanerType
    <3> QED
      BY <1>a, <2>7, <3>2 DEF Evict
  <2>8. CASE UnindexEvicted
    <3>1. cleaner \in [pc : {"unindex"}, evict : SUBSET Ids, id : Ids,
                       serial : Serials \cup {None}, mac : Macs \cup {None}]
      BY <2>8 DEF UnindexEvicted, CleanerType, Idle
    <3>2. /\ bySerial' \in [Serials -> Ids \cup {None}]
          /\ byMAC' \in [Macs -> Ids \cup {None}]
      BY <1>0, <2>8, <3>1, IndexOps DEF UnindexEvicted
    <3>3. cleaner' \in CleanerType
      BY <2>8, <3>1 DEF UnindexEvicted, CleanerType
    <3> QED
      BY <2>8, <3>2, <3>3 DEF UnindexEvicted
  <2>9. CASE RemoveTrail
    <3>1. cleaner \in [pc : {"untrail"}, evict : SUBSET Ids, id : Ids]
      BY <2>9 DEF RemoveTrail, CleanerType, Idle
    <3> QED
      BY <2>9, <3>1 DEF RemoveTrail, CleanerType
  <2> HIDE DEF TypeOK
  <2> QED
    BY <1>3, <2>1, <2>2, <2>3, <2>4, <2>5, <2>6, <2>7, <2>8, <2>9 DEF Cleanup
<1> QED
  BY <1>1, <1>2, <1>3

\* A tick ages the drones of the table and changes no other field of theirs.
LEMMA TickFields ==
  ASSUME TypeOK, Tick, NEW i \in Ids
  PROVE  /\ drones'[i] \in Drone
         /\ drones'[i].status = drones[i].status
         /\ drones'[i].serial = drones[i].serial
         /\ drones'[i].ctrl = drones[i].ctrl
         /\ drones'[i].track = drones[i].track
         /\ drones'[i].seen >= drones[i].seen
<1>1. drones[i] \in Drone
  BY DEF TypeOK
<1>2. drones[i].seen \in Age /\ drones[i].gps \in Age \cup {Never}
  BY <1>1 DEF Drone
<1>3. /\ Older(drones[i].seen) \in Age /\ Older(drones[i].seen) >= drones[i].seen
      /\ (IF drones[i].gps = Never THEN Never ELSE Older(drones[i].gps)) \in Age \cup {Never}
  BY <1>2, AgeFacts
<1>4. drones[i].seen >= drones[i].seen
  BY <1>2 DEF Age
<1>5. drones'[i] = IF i \in Live
        THEN [drones[i] EXCEPT !.seen = Older(@),
                               !.gps = IF @ = Never THEN Never ELSE Older(@)]
        ELSE drones[i]
  BY Zenon DEF Tick
<1> QED
  BY <1>1, <1>3, <1>4, <1>5, ZenonT(40) DEF Drone

\* Every step keeps the types.
LEMMA TypeNext == TypeOK /\ [Next]_vars => TypeOK'
<1> SUFFICES ASSUME TypeOK, [Next]_vars PROVE TypeOK'
  OBVIOUS
<1>1. CASE Tick
  <2>1. drones' \in [Ids -> Drone]
    BY <1>1, TickFields, Zenon DEF Tick
  <2> QED
    BY <1>1, <2>1, Zenon DEF Tick, TypeOK, CleanerType
<1>2. CASE UNCHANGED vars
  BY <1>2 DEF vars, TypeOK
<1> QED
  BY <1>1, <1>2, TypeUpdateDrone, TypeRemoval DEF Next

\* The table, the indexes and the processes stay well typed in every run of
\* UpdateDrone, DeleteDrone and cleanup.
THEOREM TypeCorrect == Spec => []TypeOK
BY TypeInit, TypeNext, PTL DEF Spec

-----------------------------------------------------------------------------
(***************************************************************************)
(* Track numbers.                                                          *)
(***************************************************************************)

\* A step that puts no drone into the table: drones may leave it, and the ones
\* that stay keep their kind and their number.
NobodyEnters ==
  /\ nextTrackNum' = nextTrackNum
  /\ \A i \in Ids : drones'[i].status # "absent" =>
       /\ drones[i].status # "absent"
       /\ drones'[i].ctrl = drones[i].ctrl
       /\ drones'[i].track = drones[i].track

\* A step that puts drone k into the table, with the next number unless it is a
\* controller.
Enters(k) ==
  /\ drones[k].status = "absent"
  /\ \A i \in Ids \ {k} : drones'[i] = drones[i]
  /\ \/ drones'[k].ctrl /\ drones'[k].track = 0 /\ nextTrackNum' = nextTrackNum
     \/ ~drones'[k].ctrl /\ drones'[k].track = nextTrackNum + 1
        /\ nextTrackNum' = nextTrackNum + 1

\* Every step is of one of the two kinds (UpdateDrone, delete, cleanup).
LEMMA StepKinds ==
  ASSUME TypeOK, [Next]_vars
  PROVE  NobodyEnters \/ \E k \in Ids : Enters(k)
<1>0. \A i \in Ids : drones[i] \in Drone
  BY DEF TypeOK
<1>d. drones \in [Ids -> Drone]
  BY DEF TypeOK
<1>1. ASSUME drones' = drones, nextTrackNum' = nextTrackNum
      PROVE  NobodyEnters
  BY <1>1 DEF NobodyEnters
<1>2. ASSUME NEW k \in Ids, NEW r \in Drone,
             drones' = [drones EXCEPT ![k] = r],
             nextTrackNum' = nextTrackNum,
             \/ r.status = "absent"
             \/ drones[k].status # "absent" /\ r.ctrl = drones[k].ctrl
                /\ r.track = drones[k].track
      PROVE  NobodyEnters
  BY <1>d, <1>2 DEF NobodyEnters
<1>3. ASSUME NEW h \in Handlers, UpdateDrone(h)
      PROVE  NobodyEnters \/ \E k \in Ids : Enters(k)
  <2>1. ASSUME NEW d \in Detections, LookupSerial(h, d)
        PROVE  NobodyEnters
    BY <1>1, <2>1 DEF LookupSerial
  <2>2. CASE LookupMAC(h) \/ NotifyMerged(h)
    BY <1>1, <2>2 DEF LookupMAC, NotifyMerged
  <2>3. ASSUME NEW pc \in {"mergeSerial", "mergeMAC"}, NEW next, Merge(h, pc, next)
        PROVE  NobodyEnters
    <3>1. calls[h] # Idle /\ calls[h].found \in Ids
      BY <2>3 DEF Merge, Idle, TypeOK
    <3>2. calls[h].det \in Detection
      BY <3>1, CallDetection
    <3>3. CASE calls[h].found \in Live
      <4>1. drones' = [drones EXCEPT ![calls[h].found] =
                         mergeIntoExisting(drones[calls[h].found], calls[h].det)]
        BY <2>3, <3>3 DEF Merge
      <4> QED
        BY <1>0, <1>2, <2>3, <3>1, <3>2, <3>3, <4>1, MergeFields, ZenonT(40) DEF Merge, Live
    <3>4. CASE calls[h].found \notin Live
      BY <1>1, <2>3, <3>4 DEF Merge
    <3> QED
      BY <3>3, <3>4
  <2>4. CASE CreateOwn(h)
    <3> DEFINE d == calls[h].det
               r == NewDrone(d, trackFor(d))
    <3>1. d \in Detection /\ d.id \in Ids
      BY <2>4, CallDetection DEF CreateOwn, Idle
    <3>2. drones' = [drones EXCEPT ![d.id] = r] /\ drones[d.id].status = "absent"
      BY <2>4, <3>1 DEF CreateOwn, Store, Live
    <3>3. r.ctrl = d.ctrl /\ r.track = trackFor(d)
      BY DEF NewDrone
    <3>4. d.ctrl \in BOOLEAN
      BY <3>1 DEF Detection
    <3>5. Enters(d.id)
      <4>1. drones'[d.id] = r /\ \A i \in Ids \ {d.id} : drones'[i] = drones[i]
        BY <1>d, <3>1, <3>2
      <4>2. CASE d.ctrl
        BY <2>4, <3>2, <3>3, <4>1, <4>2, Zenon DEF Enters, CreateOwn, trackFor
      <4>3. CASE ~d.ctrl
        BY <2>4, <3>2, <3>3, <4>1, <4>3 DEF Enters, CreateOwn, trackFor
      <4> QED
        BY <4>2, <4>3
    <3> QED
      BY <3>1, <3>5
  <2>5. CASE UpdateOwn(h)
    <3> DEFINE d == calls[h].det
    <3>1. d \in Detection /\ d.id \in Ids
      BY <2>5, CallDetection, SMTT(30) DEF UpdateOwn, Idle
    <3>2. /\ drones' = [drones EXCEPT ![d.id] = UpdateExisting(drones[d.id], d)]
          /\ drones[d.id].status # "absent" /\ nextTrackNum' = nextTrackNum
      BY <2>5, <3>1 DEF UpdateOwn, Store, Live
    <3> HIDE DEF d
    <3> QED
      BY <1>0, <1>2, <3>1, <3>2, UpdateFields, Zenon
  <2> QED
    BY <1>3, <2>1, <2>2, <2>3, <2>4, <2>5 DEF UpdateDrone, MergeBySerial, MergeByMAC
<1>4. Absent \in Drone /\ Absent.status = "absent"
  BY AgeFacts DEF Absent, Drone
<1>5. ASSUME NEW o \in Operators, NEW i \in Ids, DeleteDrone(o, i)
      PROVE  NobodyEnters
  BY <1>2, <1>4, <1>5, Zenon DEF DeleteDrone
<1>6. ASSUME NEW o \in Operators, UnindexDeleted(o)
      PROVE  NobodyEnters
  BY <1>1, <1>6 DEF UnindexDeleted
<1>7. ASSUME Cleanup PROVE NobodyEnters
  <2>1. CASE StartCleanup \/ EndMarking \/ EndCollecting \/ EndEviction
             \/ UnindexEvicted \/ RemoveTrail
    BY <1>1, <2>1 DEF StartCleanup, EndMarking, EndCollecting, EndEviction,
                      UnindexEvicted, RemoveTrail
  <2>2. ASSUME NEW i \in Ids, MarkLost(i) PROVE NobodyEnters
    <3> DEFINE r == [drones[i] EXCEPT !.status = "lost"]
    <3>1. r \in Drone /\ r.ctrl = drones[i].ctrl /\ r.track = drones[i].track
      BY <1>0 DEF Drone
    <3>2. CASE drones[i].status = "active" /\ drones[i].seen > LostAfter
      <4>1. drones' = [drones EXCEPT ![i] = r] /\ nextTrackNum' = nextTrackNum
        BY <2>2, <3>2 DEF MarkLost
      <4> HIDE DEF r
      <4> QED
        BY <1>2, <3>1, <3>2, <4>1, Zenon
    <3>3. CASE ~(drones[i].status = "active" /\ drones[i].seen > LostAfter)
      BY <1>1, <2>2, <3>3 DEF MarkLost
    <3> QED
      BY <3>2, <3>3
  <2>3. ASSUME NEW i \in Ids, CollectEvictable(i) PROVE NobodyEnters
    BY <1>1, <2>3 DEF CollectEvictable
  <2>4. ASSUME NEW i \in Ids, Evict(i) PROVE NobodyEnters
    BY <1>2, <1>4, <2>4, Zenon DEF Evict
  <2> QED
    BY <1>7, <2>1, <2>2, <2>3, <2>4 DEF Cleanup
<1>8. CASE Tick
  BY <1>8, TickFields, Zenon DEF NobodyEnters, Tick
<1>9. CASE UNCHANGED vars
  BY <1>1, <1>9 DEF vars
<1> QED
  BY <1>3, <1>5, <1>6, <1>7, <1>8, <1>9 DEF Next

\* No two UAVs of the table ever share a track number, controllers have none,
\* and every number was handed out by the counter (assignTrackNumber), however
\* many callers, operators and cleanup passes interleave.
THEOREM TrackNumbersUnique == Spec => []UniqueTrackNumbers
<1>1. Init => UniqueTrackNumbers
  BY DEF Init, UniqueTrackNumbers, Live, Absent
<1>2. TypeOK /\ UniqueTrackNumbers /\ [Next]_vars => UniqueTrackNumbers'
  <2> SUFFICES ASSUME TypeOK, UniqueTrackNumbers, [Next]_vars
               PROVE  UniqueTrackNumbers'
    OBVIOUS
  <2>0. /\ nextTrackNum \in Nat
        /\ \A i \in Ids : drones[i].track \in Nat /\ drones[i].ctrl \in BOOLEAN
    BY RegistryAssumption DEF TypeOK, Drone, TrackNumber, RegistryAssumption
  <2>1. CASE NobodyEnters
    BY <2>1 DEF NobodyEnters, UniqueTrackNumbers, Live
  <2>2. ASSUME NEW k \in Ids, Enters(k) PROVE UniqueTrackNumbers'
    BY <2>0, <2>2 DEF Enters, UniqueTrackNumbers, Live
  <2> QED
    BY <2>1, <2>2, StepKinds
<1> QED
  BY <1>1, <1>2, TypeCorrect, PTL DEF Spec

\* A track number stays with its drone and is never handed out again, not even
\* after the drone was deleted or evicted.
THEOREM TrackNumbersFresh == Spec => TrackNumbersNeverReused
<1> DEFINE Fresh ==
      \A i \in Ids :
        /\ (i \in Live /\ i \in Live') => drones'[i].track = drones[i].track
        /\ (i \notin Live /\ i \in Live') =>
              drones'[i].ctrl \/ drones'[i].track > nextTrackNum
<1>1. TypeOK /\ [Next]_vars => [Fresh]_vars
  <2> SUFFICES ASSUME TypeOK, [Next]_vars PROVE Fresh
    OBVIOUS
  <2>0. nextTrackNum \in Nat
    BY RegistryAssumption DEF TypeOK, TrackNumber, RegistryAssumption
  <2>1. CASE NobodyEnters
    BY <2>1 DEF NobodyEnters, Live
  <2>2. ASSUME NEW k \in Ids, Enters(k) PROVE Fresh
    BY <2>0, <2>2 DEF Enters, Live
  <2> QED
    BY <2>1, <2>2, StepKinds
<1> QED
  BY <1>1, TypeCorrect, PTL DEF Spec, TrackNumbersNeverReused

-----------------------------------------------------------------------------
(***************************************************************************)
(* Loss.                                                                   *)
(***************************************************************************)

\* A drone that is lost after a step was lost before it and has not been heard
\* since, or was silent past the threshold when cleanup marked it.
LEMMA LostSteps ==
  ASSUME TypeOK, [Next]_vars, NEW i \in Ids, drones'[i].status = "lost"
  PROVE  \/ drones[i].status = "lost" /\ drones'[i].seen >= drones[i].seen
         \/ drones'[i].seen > LostAfter
<1>0. drones \in [Ids -> Drone] /\ drones[i] \in Drone
  BY DEF TypeOK
<1>s. drones[i].seen >= drones[i].seen
  BY <1>0 DEF Drone, Age
<1>1. CASE drones'[i] = drones[i]
  BY <1>1, <1>s, SMTT(30)
<1>2. CASE drones'[i] # drones[i]
  <2>1. ASSUME NEW h \in Handlers, UpdateDrone(h) PROVE FALSE
    <3>1. ASSUME NEW pc \in {"mergeSerial", "mergeMAC"}, NEW next, Merge(h, pc, next)
          PROVE  FALSE
      <4>1. calls[h] # Idle /\ calls[h].found \in Ids
        BY <3>1 DEF Merge, Idle, TypeOK
      <4>2. drones'[i] = mergeIntoExisting(drones[i], calls[h].det)
        BY <1>0, <1>2, <3>1, <4>1, SMTT(30) DEF Merge
      <4> QED
        BY <1>0, <4>1, <4>2, CallDetection, MergeFields
    <3>2. CASE CreateOwn(h)
      BY <1>0, <1>2, <3>2 DEF CreateOwn, Store, NewDrone
    <3>3. CASE UpdateOwn(h)
      <4>1. calls[h].det \in Detection
        BY <3>3, CallDetection, SMTT(30) DEF UpdateOwn, Idle
      <4>2. drones'[i] = UpdateExisting(drones[i], calls[h].det)
        BY <1>0, <1>2, <3>3, ZenonT(40) DEF UpdateOwn, Store
      <4> QED
        BY <1>0, <4>1, <4>2, UpdateFields, SMTT(30)
    <3> QED
      BY <1>2, <2>1, <3>1, <3>2, <3>3
      DEF UpdateDrone, MergeBySerial, MergeByMAC, LookupSerial, LookupMAC, NotifyMerged
  <2>2. ASSUME NEW o \in Operators, NEW j \in Ids, DeleteDrone(o, j) PROVE FALSE
    BY <1>0, <1>2, <2>2, Zenon DEF DeleteDrone, Absent
  <2>3. ASSUME NEW j \in Ids, MarkLost(j) PROVE drones'[i].seen > LostAfter
    BY <1>0, <1>2, <2>3, SMTT(30) DEF MarkLost, Drone
  <2>4. ASSUME NEW j \in Ids, Evict(j) PROVE FALSE
    BY <1>0, <1>2, <2>4, Zenon DEF Evict, Absent
  <2>5. CASE Tick
    BY <2>5, TickFields
  <2> QED
    BY <1>2, <2>1, <2>2, <2>3, <2>4, <2>5, Zenon
    DEF Next, Cleanup, UnindexDeleted, StartCleanup, EndMarking, EndCollecting,
        EndEviction, CollectEvictable, UnindexEvicted, RemoveTrail, vars
<1> QED
  BY <1>1, <1>2

\* A drone is reported lost only while it has been silent past the threshold:
\* every detection of it, merged or not, makes it active again.
THEOREM LostOnlyWhenSilent == Spec => []LostIsStale
<1>1. Init => LostIsStale
  BY DEF Init, LostIsStale, Live, Absent
<1>2. TypeOK /\ LostIsStale /\ [Next]_vars => LostIsStale'
  <2> SUFFICES ASSUME TypeOK, LostIsStale, [Next]_vars,
                      NEW i \in Ids, drones'[i].status = "lost"
               PROVE  drones'[i].seen > LostAfter
    BY DEF LostIsStale, Live
  <2>1. CASE drones'[i].seen > LostAfter
    BY <2>1
  <2>2. CASE drones[i].status = "lost" /\ drones'[i].seen >= drones[i].seen
    <3>1. drones[i].seen > LostAfter
      BY <2>2, SMTT(30) DEF LostIsStale, Live
    <3>2. drones[i].seen \in Nat /\ drones'[i].seen \in Nat /\ LostAfter \in Nat
      BY TypeNext, RegistryAssumption DEF TypeOK, Drone, Age, RegistryAssumption
    <3> QED
      BY <2>2, <3>1, <3>2
  <2> QED
    BY <2>1, <2>2, LostSteps
<1> QED
  BY <1>1, <1>2, TypeCorrect, PTL DEF Spec

-----------------------------------------------------------------------------
(***************************************************************************)
(* Positions.                                                              *)
(***************************************************************************)

\* A detection takes a position from a drone only when the drone was tracked and
\* its fix is stale (the GPS rule of UpdateDrone and mergeIntoExisting).
LEMMA FixDropped ==
  ASSUME NEW r \in Drone, NEW d \in Detection, r.status # "absent", r.pos, ~WithFix(r, d).pos
  PROVE  r.gps > GpsStale /\ r.status = "active"
BY DEF WithFix, Drone, Detection

\* What is done to a drone besides leaves its position alone.
LEMMA PositionFields ==
  ASSUME NEW r \in Drone, NEW d \in Detection
  PROVE  /\ mergeIntoExisting(r, d).pos = WithFix(r, d).pos
         /\ UpdateExisting(r, d).pos = WithFix(r, d).pos
<1> DEFINE w == WithFix(r, d)
<1>1. w \in Drone
  BY WithFixFields, SMTT(30)
<1>2. mergeIntoExisting(r, d) =
        IF r.mac = None THEN [Touched(w) EXCEPT !.mac = d.mac] ELSE Touched(w)
  BY DEF mergeIntoExisting, w
<1>3. UpdateExisting(r, d) =
        IF d.serial # None THEN [Touched(w) EXCEPT !.serial = d.serial]
                           ELSE Touched(w)
  BY DEF UpdateExisting, w
<1> HIDE DEF w
<1>4. Touched(w) \in Drone /\ Touched(w).pos = w.pos
  BY <1>1, TouchedFields DEF Touched, Drone
<1>5. /\ [Touched(w) EXCEPT !.mac = d.mac].pos = w.pos
      /\ [Touched(w) EXCEPT !.serial = d.serial].pos = w.pos
  BY <1>4, SMTT(30) DEF Drone
<1> QED
  BY <1>2, <1>3, <1>4, <1>5 DEF w

\* A drone keeps its position in every step but the one that finds its fix stale.
LEMMA PositionSteps ==
  ASSUME TypeOK, [Next]_vars, NEW i \in Ids, i \in Live, i \in Live',
         drones[i].pos, ~drones'[i].pos
  PROVE  drones[i].gps > GpsStale /\ drones[i].status = "active"
<1>0. drones \in [Ids -> Drone] /\ drones[i] \in Drone /\ drones[i].status # "absent"
      /\ drones'[i].status # "absent"
  BY SMTT(30) DEF TypeOK, Live
<1>1. drones'[i] # drones[i]
  BY SMTT(30)
<1>2. ASSUME NEW h \in Handlers, UpdateDrone(h)
      PROVE  drones[i].gps > GpsStale /\ drones[i].status = "active"
  <2>1. ASSUME NEW pc \in {"mergeSerial", "mergeMAC"}, NEW next, Merge(h, pc, next)
        PROVE  drones[i].gps > GpsStale /\ drones[i].status = "active"
    <3>1. calls[h] # Idle /\ calls[h].found \in Ids
      BY <2>1 DEF Merge, Idle, TypeOK
    <3>2. drones'[i] = mergeIntoExisting(drones[i], calls[h].det)
      BY <1>0, <1>1, <2>1, <3>1 DEF Merge
    <3>3. ~WithFix(drones[i], calls[h].det).pos
      BY <1>0, <3>1, <3>2, CallDetection, PositionFields, SMTT(30)
    <3> QED
      BY <1>0, <3>1, <3>3, CallDetection, FixDropped
  <2>2. CASE CreateOwn(h)
    BY <1>0, <1>1, <2>2 DEF CreateOwn, Store, Live
  <2>3. CASE UpdateOwn(h)
    <3>1. calls[h].det \in Detection
      BY <2>3, CallDetection, SMTT(30) DEF UpdateOwn, Idle
    <3>2. drones'[i] = UpdateExisting(drones[i], calls[h].det)
      BY <1>0, <1>1, <2>3, Zenon DEF UpdateOwn, Store
    <3>3. ~WithFix(drones[i], calls[h].det).pos
      BY <1>0, <3>1, <3>2, PositionFields, SMTT(30)
    <3> QED
      BY <1>0, <3>1, <3>3, FixDropped
  <2> QED
    BY <1>1, <1>2, <2>1, <2>2, <2>3, SMTT(30)
    DEF UpdateDrone, MergeBySerial, MergeByMAC, LookupSerial, LookupMAC, NotifyMerged
<1>3. ASSUME NEW o \in Operators, NEW j \in Ids, DeleteDrone(o, j) PROVE FALSE
  BY <1>0, <1>1, <1>3 DEF DeleteDrone, Absent
<1>4. ASSUME NEW j \in Ids, MarkLost(j) PROVE FALSE
  <2>1. drones'[i] = [drones[i] EXCEPT !.status = "lost"]
    BY <1>0, <1>1, <1>4, SMTT(30) DEF MarkLost
  <2> QED
    BY <1>0, <2>1 DEF Drone
<1>5. ASSUME NEW j \in Ids, Evict(j) PROVE FALSE
  BY <1>0, <1>1, <1>5 DEF Evict, Absent
<1>6. ASSUME Tick PROVE FALSE
  <2>1. drones'[i] = [drones[i] EXCEPT !.seen = Older(@),
                                       !.gps = IF @ = Never THEN Never ELSE Older(@)]
    BY <1>6, Zenon DEF Tick
  <2> QED
    BY <1>0, <2>1, SMTT(30) DEF Drone
<1> QED
  BY <1>1, <1>2, <1>3, <1>4, <1>5, <1>6, ZenonT(40)
  DEF Next, Cleanup, UnindexDeleted, StartCleanup, EndMarking, EndCollecting,
      EndEviction, CollectEvictable, UnindexEvicted, RemoveTrail, vars

\* UpdateDrone and mergeIntoExisting (state.go): a drone that stays in the table loses
\* its position only when it was being tracked and its fix was older than the grace
\* period, however callers, deletions and cleanup interleave.
THEOREM FreshFixIsKept == Spec => FreshFixKept
<1>1. TypeOK /\ [Next]_vars =>
        (\A i \in Ids : (i \in Live /\ i \in Live' /\ drones[i].pos /\ ~drones'[i].pos) =>
           drones[i].gps > GpsStale /\ drones[i].status = "active")
  BY PositionSteps
<1> QED
  BY <1>1, TypeCorrect, PTL DEF Spec, FreshFixKept

-----------------------------------------------------------------------------
(***************************************************************************)
(* One drone per serial number, with a single caller and no removal.       *)
(***************************************************************************)

\* With eviction disabled the cleanup pass ends after marking.
NoEviction == cleaner.pc \in {"idle", "due", "mark"}

SerialInv == SerialIndexed /\ NoEviction

\* Storing drone r under an identifier whose look-up found no other drone keeps
\* the serial index complete (the insertion and the update in UpdateDrone).
LEMMA StoreKeepsIndex ==
  ASSUME TypeOK, SerialInv, SingleWriter, NEW h \in Handlers, calls[h].pc = "own",
         NEW r \in Drone, Store(h, r), r.status = "active",
         \/ r.serial = calls[h].det.serial
         \/ calls[h].det.id \in Live /\ r.serial = drones[calls[h].det.id].serial
  PROVE  SerialIndexed'
<1> DEFINE k == calls[h].det.id
           s == r.serial
<1>0. None \notin Serials /\ None \notin Ids
  BY RegistryAssumption DEF RegistryAssumption
<1>1. calls[h] # Idle /\ k \in Ids
  BY CallDetection DEF Idle
<1>2. s \in Serials \cup {None}
  BY SMTT(30) DEF Drone
<1>3. /\ drones \in [Ids -> Drone] /\ bySerial \in [Serials -> Ids \cup {None}]
      /\ calls \in [Handlers -> CallType]
  BY DEF TypeOK
<1>4. /\ drones' = [drones EXCEPT ![k] = r]
      /\ bySerial' = IF s = None THEN bySerial ELSE [bySerial EXCEPT ![s] = k]
      /\ calls' = [calls EXCEPT ![h] = Idle]
  BY SMTT(30) DEF Store, Indexed
<1>5. s # None => bySerial[s] \in {None, k}
  <2>1. CASE s = calls[h].det.serial
    BY <1>3, <2>1, SMTT(30) DEF SerialInv, SerialIndexed, Find
  <2>2. CASE k \in Live /\ s = drones[k].serial
    BY <2>2 DEF SerialInv, SerialIndexed
  <2> QED
    BY <2>1, <2>2
<1> HIDE DEF k, s
<1>6. Live' = Live \cup {k}
  BY <1>1, <1>3, <1>4 DEF Live
<1>7. ASSUME NEW i \in Live', drones'[i].serial # None
      PROVE  bySerial'[drones'[i].serial] = i
  <2>1. CASE i = k
    <3>1. drones'[i].serial = s
      BY <1>1, <1>3, <1>4, <2>1 DEF s
    <3> QED
      BY <1>2, <1>3, <1>4, <1>7, <2>1, <3>1
  <2>2. CASE i # k
    <3>1. i \in Ids /\ i \in Live /\ drones'[i] = drones[i]
      BY <1>3, <1>4, <1>6, <2>2, SMTT(30) DEF Live
    <3>2. drones[i].serial \in Serials /\ bySerial[drones[i].serial] = i
      BY <1>3, <1>7, <3>1, SMTT(30) DEF SerialInv, SerialIndexed, Drone
    <3>3. s # None => drones[i].serial # s
      BY <1>0, <1>5, <2>2, <3>1, <3>2, SMTT(30)
    <3> QED
      BY <1>3, <1>4, <3>1, <3>2, <3>3
  <2> QED
    BY <2>1, <2>2
<1>8. ASSUME NEW t \in Serials, bySerial'[t] # None
      PROVE  bySerial'[t] \in Live'
  BY <1>2, <1>3, <1>4, <1>6, <1>8 DEF SerialInv, SerialIndexed
<1>9. \A g \in Handlers : calls'[g].pc = "idle"
  BY <1>3, <1>4, SMTT(30) DEF SingleWriter, Idle
<1> QED
  BY <1>7, <1>8, <1>9 DEF SerialIndexed

\* A step that leaves the serial index, the drones' serials and their presence
\* alone keeps the index complete, if it keeps what the calls rely on.
LEMMA FrameKeepsIndex ==
  ASSUME TypeOK, SerialInv, bySerial' = bySerial,
         \A i \in Ids : /\ drones'[i].serial = drones[i].serial
                        /\ drones'[i].status = "absent" <=> drones[i].status = "absent",
         \A g \in Handlers :
           \/ calls'[g].pc \in {"idle", "notify"}
           \/ calls'[g] = calls[g]
           \/ /\ calls'[g].pc \in {"lookupMAC", "mergeMAC", "own"}
              /\ Find(bySerial, calls'[g].det.serial, calls'[g].det.id) = None
           \/ calls'[g].pc = "mergeSerial" /\ calls'[g].found \in Live
  PROVE  SerialIndexed'
<1>1. Live' = Live
  BY DEF Live
<1>2. \A g \in Handlers :
        /\ calls'[g].pc \in {"lookupMAC", "mergeMAC", "own"} =>
             Find(bySerial, calls'[g].det.serial, calls'[g].det.id) = None
        /\ calls'[g].pc = "mergeSerial" => calls'[g].found \in Live
  BY DEF SerialInv, SerialIndexed
<1>3. \A g \in Handlers :
        Find(bySerial, calls'[g].det.serial, calls'[g].det.id)
          = Find(bySerial, calls[g].det.serial, calls[g].det.id)'
  BY DEF Find
<1>4. \A i \in Live' : drones'[i].serial # None => bySerial'[drones'[i].serial] = i
  BY <1>1, SMTT(30) DEF SerialInv, SerialIndexed, Live
<1>5. \A t \in Serials : bySerial'[t] # None => bySerial'[t] \in Live'
  BY <1>1 DEF SerialInv, SerialIndexed
<1> QED
  BY <1>1, <1>2, <1>3, <1>4, <1>5, SMTT(30) DEF SerialIndexed

\* Every step keeps the serial index complete when nothing else writes to it.
LEMMA SerialNext ==
  ASSUME TypeOK, SerialInv, SingleWriter, [Next]_vars
  PROVE  SerialInv'
<1>0. /\ drones \in [Ids -> Drone] /\ calls \in [Handlers -> CallType]
      /\ bySerial \in [Serials -> Ids \cup {None}]
  BY DEF TypeOK
<1>n. None \notin Serials /\ None \notin Ids
  BY RegistryAssumption DEF RegistryAssumption
<1>1. ASSUME NEW h \in Handlers, UpdateDrone(h)
      PROVE  SerialInv'
  <2>0. \A g \in Handlers : g = h
    BY DEF SingleWriter
  <2>1. ASSUME NEW d \in Detections, LookupSerial(h, d) PROVE SerialIndexed'
    <3>1. d \in Detection /\ d.serial \in Serials \cup {None}
      BY RegistryAssumption, SMTT(30) DEF RegistryAssumption, Detection
    <3>2. CASE Find(bySerial, d.serial, d.id) = None
      <4>1. calls'[h] = Call("lookupMAC", d, None)
        BY <1>0, <2>1, <3>2, SMTT(30) DEF LookupSerial
      <4> QED
        BY <2>0, <2>1, <3>2, <4>1, FrameKeepsIndex DEF LookupSerial, Call
    <3>3. CASE Find(bySerial, d.serial, d.id) # None
      <4>1. calls'[h] = Call("mergeSerial", d, Find(bySerial, d.serial, d.id))
        BY <1>0, <2>1, <3>3 DEF LookupSerial
      <4>2. Find(bySerial, d.serial, d.id) \in Live
        BY <3>1, <3>3, SMTT(30) DEF Find, SerialInv, SerialIndexed
      <4> QED
        BY <2>0, <2>1, <4>1, <4>2, FrameKeepsIndex DEF LookupSerial, Call
    <3> QED
      BY <3>2, <3>3
  <2>2. ASSUME LookupMAC(h) PROVE SerialIndexed'
    <3>1. /\ calls'[h].det = calls[h].det
          /\ calls'[h].pc \in {"own", "mergeMAC"}
      BY <1>0, <2>2, SMTT(30) DEF LookupMAC, Call
    <3>2. Find(bySerial, calls[h].det.serial, calls[h].det.id) = None
      BY <2>2 DEF LookupMAC, SerialInv, SerialIndexed
    <3> QED
      BY <2>0, <2>2, <3>1, <3>2, FrameKeepsIndex, Zenon DEF LookupMAC
  <2>3. ASSUME NEW pc \in {"mergeSerial", "mergeMAC"}, NEW next \in {"lookupMAC", "own"},
               Merge(h, pc, next), pc = "mergeMAC" \/ calls[h].found \in Live
        PROVE  SerialIndexed'
    <3>1. calls[h] # Idle /\ calls[h].found \in Ids /\ calls[h].pc = pc
      BY <2>3 DEF Merge, Idle, TypeOK
    <3>2. calls[h].det \in Detection
      BY <3>1, CallDetection
    <3>3. CASE calls[h].found \in Live
      <4>1. drones' = [drones EXCEPT ![calls[h].found] =
                         mergeIntoExisting(drones[calls[h].found], calls[h].det)]
        BY <2>3, <3>3 DEF Merge
      <4>2. \A i \in Ids :
              /\ drones'[i].serial = drones[i].serial
              /\ drones'[i].status = "absent" <=> drones[i].status = "absent"
        BY <1>0, <3>1, <3>2, <3>3, <4>1, MergeFields DEF Live
      <4>3. calls'[h].pc = "notify"
        BY <1>0, <2>3, <3>1, <3>3 DEF Merge, CallType
      <4> QED
        BY <2>0, <2>3, <4>2, <4>3, FrameKeepsIndex DEF Merge
    <3>4. CASE calls[h].found \notin Live
      <4>1. calls'[h] = Call(next, calls[h].det, None)
        BY <1>0, <2>3, <3>4 DEF Merge
      <4>2. Find(bySerial, calls[h].det.serial, calls[h].det.id) = None
        BY <2>3, <3>1, <3>4 DEF SerialInv, SerialIndexed
      <4> QED
        BY <2>0, <2>3, <3>4, <4>1, <4>2, FrameKeepsIndex DEF Merge, Call
    <3> QED
      BY <3>3, <3>4
  <2>4. ASSUME MergeBySerial(h) PROVE SerialIndexed'
    <3>1. calls[h].found \in Live
      BY <2>4 DEF MergeBySerial, Merge, SerialInv, SerialIndexed
    <3> QED
      BY <2>3, <2>4, <3>1 DEF MergeBySerial
  <2>5. ASSUME MergeByMAC(h) PROVE SerialIndexed'
    BY <2>3, <2>5 DEF MergeByMAC
  <2>6. ASSUME NotifyMerged(h) PROVE SerialIndexed'
    <3>1. calls'[h].pc = "idle"
      BY <1>0, <2>6, SMTT(30) DEF NotifyMerged, Idle
    <3> QED
      BY <2>0, <2>6, <3>1, FrameKeepsIndex DEF NotifyMerged
  <2>7. ASSUME CreateOwn(h) PROVE SerialIndexed'
    <3> DEFINE d == calls[h].det
    <3>1. d \in Detection /\ calls[h].pc = "own"
      BY <2>7, CallDetection DEF CreateOwn, Idle
    <3>2. trackFor(d) \in TrackNumber
      BY <2>7, RegistryAssumption
      DEF TypeOK, CreateOwn, trackFor, TrackNumber, RegistryAssumption
    <3>3. NewDrone(d, trackFor(d)) \in Drone
      BY <3>1, <3>2, NewFields, SMTT(30)
    <3>4. /\ NewDrone(d, trackFor(d)).status = "active"
          /\ NewDrone(d, trackFor(d)).serial = d.serial
      BY DEF NewDrone
    <3> QED
      BY <2>7, <3>1, <3>3, <3>4, StoreKeepsIndex, SMTT(30) DEF CreateOwn
  <2>8. ASSUME UpdateOwn(h) PROVE SerialIndexed'
    <3> DEFINE d == calls[h].det
    <3>1. d \in Detection /\ d.id \in Ids /\ calls[h].pc = "own" /\ d.id \in Live
      BY <2>8, CallDetection DEF UpdateOwn, Idle
    <3>2. drones[d.id] \in Drone
      BY <1>0, <3>1, SMTT(30)
    <3> QED
      BY <2>8, <3>1, <3>2, UpdateFields, StoreKeepsIndex, SMTT(30) DEF UpdateOwn
  <2>9. cleaner' = cleaner
    BY <1>1 DEF UpdateDrone, LookupSerial, LookupMAC, MergeBySerial, MergeByMAC, Merge,
                NotifyMerged, CreateOwn, UpdateOwn, Store
  <2>10. SerialIndexed'
    BY <1>1, <2>1, <2>2, <2>4, <2>5, <2>6, <2>7, <2>8, SMTT(30) DEF UpdateDrone
  <2> QED
    BY <2>9, <2>10 DEF SerialInv, NoEviction
<1>2. CASE Cleanup
  <2>1. EvictAfter = 0 /\ NoEviction
    BY DEF SingleWriter, SerialInv
  <2>2. ASSUME NEW i \in Ids, MarkLost(i) PROVE SerialInv'
    <3>1. \A j \in Ids :
            /\ drones'[j].serial = drones[j].serial
            /\ drones'[j].status = "absent" <=> drones[j].status = "absent"
      BY <1>0, <2>2 DEF MarkLost, Drone
    <3>2. NoEviction'
      <4>1. cleaner' = [cleaner EXCEPT !.todo = @ \ {i}] /\ cleaner.pc = "mark"
        BY <2>2 DEF MarkLost
      <4>2. cleaner \in [pc : {"mark", "collect", "evict"}, todo : SUBSET Ids, evict : SUBSET Ids]
        BY <4>1 DEF TypeOK, CleanerType, Idle
      <4> QED
        BY <4>1, <4>2 DEF NoEviction
    <3> QED
      BY <2>2, <3>1, <3>2, FrameKeepsIndex DEF MarkLost, SerialInv
  <2>3. CASE StartCleanup \/ EndMarking
    <3>1. NoEviction'
      BY <2>1, <2>3, SMTT(30) DEF StartCleanup, EndMarking, NoEviction, Idle
    <3> QED
      BY <2>3, <3>1, FrameKeepsIndex DEF StartCleanup, EndMarking, SerialInv
  <2> QED
    BY <1>2, <2>1, <2>2, <2>3, Zenon
    DEF Cleanup, NoEviction, EndCollecting, EndEviction, CollectEvictable, Evict,
        UnindexEvicted, RemoveTrail
<1>3. CASE Tick
  <2>1. \A j \in Ids :
          /\ drones'[j].serial = drones[j].serial
          /\ drones'[j].status = "absent" <=> drones[j].status = "absent"
    BY <1>3, TickFields
  <2> QED
    BY <1>3, <2>1, FrameKeepsIndex, Zenon DEF Tick, SerialInv, NoEviction
<1>4. CASE UNCHANGED vars
  BY <1>4, FrameKeepsIndex DEF vars, SerialInv, NoEviction
<1> QED
  BY <1>1, <1>2, <1>3, <1>4 DEF Next, SingleWriter

\* With one caller of UpdateDrone and no removal, the index by serial leads to the drone
\* that carries the serial, between calls and within them: updateIndexes is called
\* wherever a serial is stored, for any mix of detections.
THEOREM SerialsAreIndexed == SingleWriter => (Spec => []SerialIndexed)
<1> SUFFICES ASSUME SingleWriter PROVE Spec => []SerialIndexed
  OBVIOUS
<1>1. Init => SerialInv
  BY DEF Init, SerialInv, SerialIndexed, NoEviction, Live, Absent, Idle
<1>2. TypeOK /\ SerialInv /\ [Next]_vars => SerialInv'
  BY SerialNext
<1>3. SerialInv => SerialIndexed
  BY DEF SerialInv
<1> QED
  BY <1>1, <1>2, <1>3, TypeCorrect, PTL DEF Spec

\* With one caller of UpdateDrone and no removal, no serial number is ever
\* tracked under two identifiers: the look-up at the top of UpdateDrone does
\* what it is for, for any mix of detections.
THEOREM OneDronePerSerial == SingleWriter => (Spec => []NoDuplicateSerial)
<1>1. SerialIndexed => NoDuplicateSerial
  BY DEF SerialIndexed, NoDuplicateSerial
<1> QED
  BY <1>1, SerialsAreIndexed, PTL
=============================================================================
