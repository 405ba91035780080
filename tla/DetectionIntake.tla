-------------------------- MODULE DetectionIntake --------------------------
(***************************************************************************)
(* handleDetection from the message to the drone it builds: the check for  *)
(* a message seen before, the filters, the payload that overrides what the *)
(* TAP sent, the choice of the identifier, and the validation of the       *)
(* positions against what is known of the TAP while heartbeats come in.    *)
(* NATS, external, delivers a message again, and a refresh of the          *)
(* subscriptions lets two handlers run at once.                            *)
(***************************************************************************)
EXTENDS Naturals, Integers, Sequences

CONSTANTS
  Messages,       \* detections on the wire, see Message
  Receivers,      \* handlers that may run at once
  DedupWindow,    \* age at which an entry is evicted (5 s)
  MaxDeliveries,  \* bound on deliveries
  MaxSeconds      \* bound on the clock

\* A message is known by its number.
ASSUME IntakeAssumption ==
  DedupWindow \in Nat /\ \A f, g \in Messages : f.n = g.n => f = g

VARIABLES
  dedupCache,  \* message -> when it was first seen, or Never
  located,     \* TAPs whose position is cached
  intake,      \* handler -> the detection it works on
  entered,     \* the drones handed to UpdateDrone, in order
  deliveries,
  second

intakeVars == <<dedupCache, located, intake, entered, deliveries, second>>

Never == -1
Idle == [at |-> "idle"]

(***************************************************************************)
(* Positions: "none", "wild" outside WGS84, "far" from the TAP, and two    *)
(* near it; far is more than 50 km from near.  An identifier or serial is  *)
(* "none", "garbled" or printable.                                         *)
(***************************************************************************)
Message(n, tap) ==
  [n |-> n, tap |-> tap, suspect |-> FALSE, controller |-> FALSE, ssid |-> "none",
   source |-> "other", oui |-> FALSE, id |-> "id", serial |-> "none", mac |-> "mac",
   pos |-> "none", op |-> "none", opHigh |-> FALSE, rid |-> <<>>, dji |-> <<>>]

Payload(pos, op, serial) == [pos |-> pos, op |-> op, serial |-> serial]

Valid(pos) == pos \notin {"none", "wild"}
Over50km(a, b) == (a = "far") # (b = "far")

-----------------------------------------------------------------------------
\* A controller flag the SSID does not bear out is dropped.
ValidatedController(f) == f.controller /\ f.ssid = "controller"

\* A beacon without payload and without any sign of a drone is an access point.
RejectedBeacon(f) ==
  /\ f.source = "beacon" /\ f.rid = <<>> /\ f.dji = <<>> /\ ~ValidatedController(f)
  /\ ~f.oui /\ f.ssid = "none" /\ f.serial = "none"

\* LoadOrStore on the key of TAP, MAC and timestamp.
Dedup(h, f) ==
  /\ intake[h] = Idle /\ deliveries < MaxDeliveries
  /\ deliveries' = deliveries + 1
  /\ IF dedupCache[f] # Never THEN UNCHANGED <<dedupCache, intake>>
     ELSE /\ dedupCache' = [dedupCache EXCEPT ![f] = second]
          /\ intake' = [intake EXCEPT ![h] = [at |-> "filter", msg |-> f]]
  /\ UNCHANGED <<located, entered, second>>

Evictable_AtWindow(f) == dedupCache[f] # Never /\ second - dedupCache[f] >= DedupWindow

Evictable(f) == dedupCache[f] # Never /\ second - dedupCache[f] > DedupWindow

\* The ticker of Start.
EvictDedup ==
  /\ dedupCache' = [f \in Messages |-> IF Evictable(f) THEN Never ELSE dedupCache[f]]
  /\ UNCHANGED <<located, intake, entered, deliveries, second>>

-----------------------------------------------------------------------------
\* The serial: the SSID's if the TAP's is missing or garbled, then the payloads'.
SSIDSerial(f) == IF f.ssid = "rid" /\ f.serial \in {"none", "garbled"} THEN "ssid serial" ELSE f.serial

\* RemoteID overrides what the TAP sent, where it has something valid.
FromRemoteID(f, d) ==
  IF f.rid = <<>> THEN d
  ELSE [d EXCEPT !.pos = IF Valid(f.rid.pos) THEN f.rid.pos ELSE @,
                 !.op = IF Valid(f.rid.op) THEN f.rid.op ELSE @,
                 !.serial = IF f.rid.serial # "none" THEN f.rid.serial ELSE @]

\* DJI DroneID overrides both; its home position stands in for the pilot's.
FromDJI(f, d) ==
  IF f.dji = <<>> THEN d
  ELSE [d EXCEPT !.pos = IF Valid(f.dji.pos) THEN f.dji.pos ELSE @,
                 !.op = IF Valid(f.dji.op) THEN f.dji.op ELSE @,
                 !.serial = IF f.dji.serial # "none" THEN f.dji.serial ELSE @]

\* An identifier that is not printable gives way to the serial, then to the MAC.
CleanIdentifier(f, serial) ==
  IF f.id \notin {"none", "garbled"} THEN f.id
  ELSE IF serial # "none" THEN serial
  ELSE IF f.mac # "none" THEN f.mac
  ELSE f.id

\* Of a garbled serial a DJI serial inside it is kept, or nothing.
CleanSerials(serial) == IF serial = "garbled" THEN {"none", "dji serial"} ELSE {serial}

\* Filters, parsing and enrichment; suspects go to handleSuspectDetection.
Enrich(h) ==
  /\ intake[h].at = "filter"
  /\ LET f == intake[h].msg
         d == FromDJI(f, FromRemoteID(f, [pos |-> f.pos, op |-> f.op, serial |-> SSIDSerial(f)]))
         id == CleanIdentifier(f, d.serial)
     IN IF f.suspect \/ RejectedBeacon(f) \/ id = "none"
        THEN intake' = [intake EXCEPT ![h] = Idle]
        ELSE \E serial \in CleanSerials(d.serial) :
               intake' = [intake EXCEPT ![h] =
                            [at |-> "position", msg |-> f, pos |-> d.pos, op |-> d.op, id |-> id,
                             serial |-> serial,
                             tap |-> IF f.tap \in located THEN "located" ELSE "unknown"]]
  /\ UNCHANGED <<dedupCache, located, entered, deliveries, second>>

\* Outside WGS84, or more than 50 km from a TAP whose position is known now.
Implausible_Wild(pos, tap) == pos = "wild"

Implausible(pos, tap) == pos = "wild" \/ (pos = "far" /\ tap \in located)

Kept(pos, tap) == IF Implausible(pos, tap) THEN "none" ELSE pos

ValidatePosition(h) ==
  /\ intake[h].at = "position"
  /\ intake' = [intake EXCEPT ![h].at = "operator", ![h].pos = Kept(@, intake[h].msg.tap)]
  /\ UNCHANGED <<dedupCache, located, entered, deliveries, second>>

\* Against the drone: too far or too high, the drone's own position echoed, or the
\* TAP's own sent for a controller.
KeptOperator(f, pos, op) ==
  IF \/ op # "none" /\ pos # "none" /\ (Over50km(pos, op) \/ f.opHigh \/ op = pos)
     \/ op # "none" /\ pos = "none" /\ ValidatedController(f)
  THEN "none" ELSE op

ValidateOperator(h) ==
  /\ intake[h].at = "operator"
  /\ intake' = [intake EXCEPT ![h].at = "store",
                  ![h].op = KeptOperator(intake[h].msg, intake[h].pos, Kept(@, intake[h].msg.tap))]
  /\ UNCHANGED <<dedupCache, located, entered, deliveries, second>>

\* The drone is built and handed to UpdateDrone.
Store(h) ==
  /\ intake[h].at = "store"
  /\ entered' = Append(entered,
       [n |-> intake[h].msg.n, at |-> second, pos |-> intake[h].pos, op |-> intake[h].op,
        id |-> intake[h].id, serial |-> intake[h].serial,
        tap |-> intake[h].tap,
        kind |-> IF ValidatedController(intake[h].msg) THEN "controller" ELSE "uav"])
  /\ intake' = [intake EXCEPT ![h] = Idle]
  /\ UNCHANGED <<dedupCache, located, deliveries, second>>

\* handleHeartbeat caches the position of the TAP.
Locate(tap) ==
  /\ tap \notin located
  /\ located' = located \union {tap}
  /\ UNCHANGED <<dedupCache, intake, entered, deliveries, second>>

\* A detection is handled in much less than the window.
SecondTick ==
  /\ second < MaxSeconds /\ \A h \in Receivers : intake[h] = Idle
  /\ second' = second + 1
  /\ UNCHANGED <<dedupCache, located, intake, entered, deliveries>>

IntakeInit ==
  /\ dedupCache = [f \in Messages |-> Never] /\ located = {}
  /\ intake = [h \in Receivers |-> Idle] /\ entered = <<>>
  /\ deliveries = 0 /\ second = 0

IntakeNext ==
  \/ \E h \in Receivers :
       \/ \E f \in Messages : Dedup(h, f)
       \/ Enrich(h) \/ ValidatePosition(h) \/ ValidateOperator(h) \/ Store(h)
  \/ \E f \in Messages : Locate(f.tap)
  \/ EvictDedup \/ SecondTick

IntakeSpec == IntakeInit /\ [][IntakeNext]_intakeVars

-----------------------------------------------------------------------------
\* handleDetection (nats.go): however often NATS delivers a message and however many
\* handlers run, it is entered again only when more than the window has passed.
EnteredOnce ==
  \A i, j \in 1..Len(entered) :
    i < j /\ entered[i].n = entered[j].n => entered[j].at - entered[i].at > DedupWindow

\* handleDetection (nats.go): whichever of TAP, RemoteID and DroneID a position came
\* from, no drone is entered with one outside WGS84 or, once the TAP has a position,
\* far from it; an operator is near the drone but not where it is, and a controller
\* without position has none.
EnteredPlausible ==
  \A i \in 1..Len(entered) : LET d == entered[i] IN
    /\ "wild" \notin {d.pos, d.op}
    /\ d.tap = "located" => "far" \notin {d.pos, d.op}
    /\ "none" \notin {d.pos, d.op} => d.pos # d.op /\ ~Over50km(d.pos, d.op)
    /\ d.kind = "controller" /\ d.pos = "none" => d.op = "none"

\* A message is entered once in a window, and with plausible positions.
IntakeSound == EnteredOnce /\ EnteredPlausible
=============================================================================
