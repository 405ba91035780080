------------------------------ MODULE AlertLog ------------------------------
(***************************************************************************)
(* The alerts of the API server.  collectEvents turns state events into    *)
(* alerts, once per drone and kind until a periodic reset; the list in     *)
(* memory is bounded and expires; every change is repeated in the database *)
(* by a goroutine of its own, in no order; a restart reads the database    *)
(* back.  Identifiers grow and the list is always in their order, so it is *)
(* the set of its alerts here, the last being the one with the largest     *)
(* identifier.                                                             *)
(***************************************************************************)
EXTENDS Naturals, FiniteSets

CONSTANTS
  Kinds,     \* kinds of drone alerts: new_drone, drone_lost, spoof_detected
  Subjects,  \* drones
  Taps,
  MaxAlerts, \* alerts kept in memory (1000)
  AlertTTL,  \* ticks until an alert expires (24 h)
  MaxId,     \* bound on the alerts raised
  MaxCalls   \* bound on the operator's requests, failures and restarts

\* Bounds that are numbers.
ASSUME LogAssumption == MaxId \in Nat /\ AlertTTL \in Nat

VARIABLES
  alerts,    \* the list in memory
  rows,      \* the alerts table
  jobs,      \* goroutines that have not reached the database yet
  alerted,   \* server.alerted: <<kind, subject>> already alerted
  tapStatus, \* server.tapStatus: tap -> last status, "unknown" when not seen
  attach,    \* AddAlertWithLocation between its two critical sections
  lastId,    \* the clock alert ids are made of
  raced,     \* history: alerts whose goroutines overlapped another's
  calls      \* requests, failures and restarts so far

logVars == <<alerts, rows, jobs, alerted, tapStatus, attach,
          lastId, raced, calls>>

Ids == 1..MaxId
NoLocation == "none"
NoAlert == [id |-> 0]

Call == calls < MaxCalls /\ calls' = calls + 1

\* The alerts of a list without its first, without its last.
NotFirst(S) == {a \in S : \E b \in S : b.id < a.id}
NotLast(S) == {a \in S : \E b \in S : a.id < b.id}

Acked(a) == [a EXCEPT !.status = "acked"]

-----------------------------------------------------------------------------
(* Raising alerts: AddAlert and generateEventAlerts.                       *)

Newest_DropsLast(list) == IF Cardinality(list) > MaxAlerts THEN NotLast(list) ELSE list

Newest(list) == IF Cardinality(list) > MaxAlerts THEN NotFirst(list) ELSE list

Bulk == {j \in jobs : j.op \in {"ackall", "clear"}}

AddAlert(kind, subject) ==
  LET a == [id |-> lastId + 1, kind |-> kind, subject |-> subject,
            status |-> "open", location |-> NoLocation, ttl |-> AlertTTL] IN
  /\ lastId < MaxId
  /\ lastId' = lastId + 1
  /\ alerts' = Newest(alerts \union {a})
  /\ jobs' = jobs \union {[op |-> "insert", row |-> a]}
  /\ raced' = IF Bulk = {} THEN raced ELSE raced \union {a.id}

\* drone_new, drone_lost and a drone_update with low trust and spoof flags.
generateEventAlerts(kind, d) ==
  /\ attach = NoAlert
  /\ <<kind, d>> \notin alerted
  /\ alerted' = alerted \union {<<kind, d>>}
  /\ AddAlert(kind, d)
  /\ attach' = [id |-> lastId + 1, subject |-> d]
  /\ UNCHANGED <<rows, tapStatus, calls>>

\* The second half of AddAlertWithLocation: whatever alert is last by now.
AddAlertWithLocation ==
  /\ attach # NoAlert
  /\ alerts' = NotLast(alerts) \union
               {[a EXCEPT !.location = attach.subject] : a \in alerts \ NotLast(alerts)}
  /\ attach' = NoAlert
  /\ UNCHANGED <<rows, jobs, alerted, tapStatus, lastId,
                 raced, calls>>

\* tap_status: an alert only when a known status changes.
Recorded(t, status) == [tapStatus EXCEPT ![t] = status]

generateTapAlert(t, status) ==
  LET kind == IF status = "offline" THEN "tap_offline" ELSE "tap_online" IN
  /\ attach = NoAlert
  /\ tapStatus[t] # status
  /\ tapStatus' = Recorded(t, status)
  /\ IF tapStatus[t] = "unknown" THEN UNCHANGED <<alerts, jobs, lastId, raced>>
     ELSE AddAlert(kind, t)
  /\ UNCHANGED <<rows, alerted, attach, calls>>

\* flushBatchedEvents forgets every ten minutes what was alerted.
ResetAlerted ==
  /\ alerted # {}
  /\ alerted' = {}
  /\ UNCHANGED <<alerts, rows, jobs, tapStatus, attach, lastId,
                 raced, calls>>

-----------------------------------------------------------------------------
(* The operator.                                                           *)

Pending(id) == \E j \in jobs : j.op = "insert" /\ j.row.id = id

\* handleAlertByID: the identifier may have left the list since it was shown.
handleAlertByID(id) ==
  /\ Call
  /\ alerts' = {IF a.id = id THEN Acked(a) ELSE a : a \in alerts}
  /\ jobs' = jobs \union {[op |-> "ack", id |-> id]}
  /\ raced' = IF Pending(id) THEN raced \union {id} ELSE raced
  /\ UNCHANGED <<rows, alerted, tapStatus, attach, lastId>>

\* handleAlertsAction.
AckAll ==
  /\ Call
  /\ alerts' = {Acked(a) : a \in alerts}
  /\ jobs' = jobs \union {[op |-> "ackall"]}
  /\ raced' = raced \union {id \in Ids : Pending(id)}
  /\ UNCHANGED <<rows, alerted, tapStatus, attach, lastId>>

Clear ==
  /\ Call
  /\ alerts' = {}
  /\ jobs' = jobs \union {[op |-> "clear"]}
  /\ UNCHANGED <<rows, alerted, tapStatus, attach, lastId,
                 raced>>

\* handleClearData empties the list in memory only.
handleClearData ==
  /\ Call /\ alerts # {}
  /\ alerts' = {}
  /\ UNCHANGED <<rows, jobs, alerted, tapStatus, attach, lastId,
                 raced>>

-----------------------------------------------------------------------------
(* The goroutines.                                                         *)

Executed_AckLost(j) ==
  CASE j.op = "insert" -> IF \E r \in rows : r.id = j.row.id THEN rows ELSE rows \union {j.row}
    [] j.op = "ack"    -> rows
    [] j.op = "ackall" -> {Acked(r) : r \in rows}
    [] j.op = "clear"  -> {}

\* What the statement of a job makes of the table.
Executed(j) ==
  CASE j.op = "insert" -> IF \E r \in rows : r.id = j.row.id THEN rows ELSE rows \union {j.row}
    [] j.op = "ack"    -> {IF r.id = j.id THEN Acked(r) ELSE r : r \in rows}
    [] j.op = "ackall" -> {Acked(r) : r \in rows}
    [] j.op = "clear"  -> {}

Persist(j) ==
  /\ j \in jobs
  /\ jobs' = jobs \ {j}
  /\ rows' = Executed(j)
  /\ UNCHANGED <<alerts, alerted, tapStatus, attach, lastId,
                 raced, calls>>

\* The statement fails; the error is logged and nothing is retried.
PersistFails(j) ==
  /\ j \in jobs /\ Call
  /\ jobs' = jobs \ {j}
  /\ raced' = raced \union (CASE j.op = "insert" -> {j.row.id}
                              [] j.op = "ack" -> {j.id}
                              [] OTHER -> Ids)
  /\ UNCHANGED <<alerts, rows, alerted, tapStatus, attach, lastId>>

-----------------------------------------------------------------------------
(* Time, and the end of the process.                                       *)

Older(a) == [a EXCEPT !.ttl = IF @ = 0 THEN 0 ELSE @ - 1]

AlertTick ==
  /\ Call
  /\ alerts' = {Older(a) : a \in alerts}
  /\ rows' = {Older(r) : r \in rows}
  /\ jobs' = {IF j.op = "insert" THEN [j EXCEPT !.row = Older(@)] ELSE j : j \in jobs}
  /\ UNCHANGED <<alerted, tapStatus, attach, lastId, raced>>

Unexpired(a) == a.ttl > 0

cleanupAlerts ==
  /\ \E a \in alerts \union rows : ~Unexpired(a)
  /\ alerts' = {a \in alerts : Unexpired(a)}
  /\ rows' = {r \in rows : Unexpired(r)}
  /\ UNCHANGED <<jobs, alerted, tapStatus, attach, lastId,
                 raced, calls>>

\* LoadAlerts and NewServer: the newest of the table, turned around; the location is
\* not a column.
Loaded ==
  LET kept == {r \in rows : Unexpired(r) /\
                 Cardinality({x \in rows : Unexpired(x) /\ x.id > r.id}) < MaxAlerts} IN
  {[r EXCEPT !.location = NoLocation] : r \in kept}

RestartServer ==
  /\ Call
  /\ alerts' = Loaded
  /\ jobs' = {} /\ alerted' = {}
  /\ tapStatus' = [t \in Taps |-> "unknown"]
  /\ attach' = NoAlert
  /\ raced' = raced \union {j.row.id : j \in {i \in jobs : i.op = "insert"}}
                    \union {j.id : j \in {i \in jobs : i.op = "ack"}}
  /\ UNCHANGED <<rows, lastId>>

LogInit ==
  /\ alerts = {} /\ rows = {} /\ jobs = {} /\ alerted = {}
  /\ tapStatus = [t \in Taps |-> "unknown"]
  /\ attach = NoAlert
  /\ raced = {}
  /\ lastId = 0 /\ calls = 0

LogNext ==
  \/ \E kind \in Kinds, d \in Subjects : generateEventAlerts(kind, d)
  \/ \E t \in Taps, status \in {"online", "offline"} : generateTapAlert(t, status)
  \/ AddAlertWithLocation \/ ResetAlerted
  \/ \E id \in 1..lastId : handleAlertByID(id)
  \/ AckAll \/ Clear \/ handleClearData
  \/ \E j \in jobs : Persist(j) \/ PersistFails(j)
  \/ AlertTick \/ cleanupAlerts \/ RestartServer

LogSpec == LogInit /\ [][LogNext]_logVars

-----------------------------------------------------------------------------
\* AddAlertWithLocation takes the lock twice, and clears, trims and cleanups run in
\* between: an alert never carries the location of another alert's drone.
LocationIsOwn ==
  \A a \in alerts : a.location \in {NoLocation, a.subject}

\* When no goroutine is left, every alert shown is in the table with the same
\* acknowledgement, unless the code let two statements about it overlap, one failed,
\* or the process ended before one: what the operator sees survives a restart.
ShownIsStored ==
  jobs = {} => \A a \in alerts :
    a.id \in raced \/ ~Unexpired(a)
    \/ \E r \in rows : r.id = a.id /\ r.status = a.status

\* No alert carries another alert's location, and what is shown is what is stored.
AlertsTrue == LocationIsOwn /\ ShownIsStored
=============================================================================
