--------------------------- MODULE AlertLog_proofs ---------------------------
(***************************************************************************)
(* No alert carries the location of another, and what is shown is stored,  *)
(* for any number of drones, TAPs, alerts, requests and failures.          *)
(*                                                                         *)
(* The proof needs what the table and the statements under way hold        *)
(* (TableOK), what an alert shown may still expect of the statements under *)
(* way (ShownOK), and that the alert whose location is to be attached is   *)
(* the last of the list and the last to expire (ListOK).                   *)
(***************************************************************************)
EXTENDS AlertLog, TLAPS

Alert == [id : Nat, kind : Kinds \union {"tap_offline", "tap_online"},
          subject : Subjects \union Taps, status : {"open", "acked"},
          location : Subjects \union {NoLocation}, ttl : Nat]

\* An alert that was raised when n was the last identifier, or before.
Raised(a, n) == a \in Alert /\ 1 <= a.id /\ a.id <= n /\ a.ttl <= AlertTTL

InsertJob == [op : {"insert"}, row : Alert]

\* The statements under way: an alert is inserted once, and is not in the table before.
TableOK ==
  /\ lastId \in Nat /\ lastId <= MaxId
  /\ \A r \in rows : Raised(r, lastId)
  /\ \A j \in jobs : /\ j.op \in {"insert", "ack", "ackall", "clear"}
                     /\ j.op = "insert" => j \in InsertJob /\ Raised(j.row, lastId)
                     /\ j.op = "ack" => j.id \in 1..lastId
  /\ \A i, j \in jobs : i.op = "insert" /\ j.op = "insert" /\ i.row.id = j.row.id => i = j
  /\ \A j \in jobs, r \in rows : j.op = "insert" => r.id # j.row.id

\* While a location waits to be attached its alert is the last of the list and the last
\* to expire, or the list is empty.
ListOK ==
  /\ \A a \in alerts : Raised(a, lastId) /\ a.location \in {NoLocation, a.subject}
  /\ attach # NoAlert =>
       /\ attach.id = lastId /\ attach.subject \in Subjects
       /\ \A a \in alerts : a.id = lastId => a.subject = attach.subject
       /\ alerts = {} \/ \E b \in alerts : b.id = lastId /\ \A a \in alerts : a.ttl <= b.ttl

Acks(j, id) == j.op = "ackall" \/ (j.op = "ack" /\ j.id = id)

\* An alert waits to be inserted as it is, or its row is what the list shows, but for an
\* acknowledgement under way.
Stored(a) ==
  \/ \E j \in jobs : /\ j.op = "insert" /\ j.row.id = a.id
                     /\ j.row.status = a.status /\ j.row.ttl = a.ttl
  \/ \E r \in rows : /\ r.id = a.id /\ r.ttl = a.ttl
                     /\ \/ r.status = a.status
                        \/ a.status = "acked" /\ \E j \in jobs : Acks(j, a.id)

\* No clear is under way, and an acknowledgement under way found the alert inserted.
Undisturbed(a) ==
  /\ \A j \in jobs : j.op # "clear"
  /\ \A j \in jobs : Acks(j, a.id) => a.status = "acked" /\ ~Pending(a.id)

ShownOK == \A a \in alerts : a.id \in raced \/ a.ttl = 0 \/ (Stored(a) /\ Undisturbed(a))

LogInv == TableOK /\ ListOK /\ ShownOK

\* What the code does to one alert.
LEMMA AlertChanges ==
  ASSUME NEW a \in Alert
  PROVE  /\ Acked(a) \in Alert /\ Acked(a).id = a.id /\ Acked(a).subject = a.subject
         /\ Acked(a).status = "acked" /\ Acked(a).location = a.location
         /\ Acked(a).ttl = a.ttl
         /\ Older(a) \in Alert /\ Older(a).id = a.id /\ Older(a).subject = a.subject
         /\ Older(a).status = a.status /\ Older(a).location = a.location
         /\ Older(a).ttl = IF a.ttl = 0 THEN 0 ELSE a.ttl - 1
BY DEF Alert, Acked, Older

\* The location of an alert is set.
LEMMA LocationChanges ==
  ASSUME NEW a \in Alert, NEW l \in Subjects \union {NoLocation}
  PROVE  LET b == [a EXCEPT !.location = l]
         IN  /\ b \in Alert /\ b.id = a.id /\ b.subject = a.subject
             /\ b.status = a.status /\ b.location = l /\ b.ttl = a.ttl
BY DEF Alert

\* Nothing was raised at the start.
LEMMA LogInitially == LogInit => LogInv
BY LogAssumption DEF LogInit, LogInv, TableOK, ListOK, ShownOK, NoAlert

\* The list is trimmed at its beginning: the new alert stays, unless none does.
LEMMA NewestKeeps ==
  ASSUME NEW S, NEW n \in Nat, NEW a \in S, a.id = n + 1,
         \A b \in S : b # a => b.id \in Nat /\ b.id <= n
  PROVE  Newest(S) \subseteq S /\ (a \in Newest(S) \/ Newest(S) = {})
<1>1. ASSUME NEW x \in NotFirst(S) PROVE a \in NotFirst(S)
  BY <1>1 DEF NotFirst
<1> QED
  BY <1>1 DEF Newest, NotFirst

\* A new alert.
LEMMA AddKeeps ==
  ASSUME LogInv, NEW kind \in Kinds \union {"tap_offline", "tap_online"},
         NEW subject \in Subjects \union Taps, AddAlert(kind, subject), rows' = rows,
         attach = NoAlert,
         \/ attach' = NoAlert
         \/ attach' = [id |-> lastId + 1, subject |-> subject] /\ subject \in Subjects
  PROVE  LogInv'
<1> DEFINE a == [id |-> lastId + 1, kind |-> kind, subject |-> subject, status |-> "open",
                 location |-> NoLocation, ttl |-> AlertTTL]
           j == [op |-> "insert", row |-> a]
<1>1. /\ a \in Alert /\ a.id = lastId + 1 /\ a.subject = subject /\ a.status = "open"
      /\ a.location = NoLocation /\ a.ttl = AlertTTL
  BY LogAssumption DEF Alert, LogInv, TableOK
<1>2. j.op = "insert" /\ j.row = a /\ j \in InsertJob
  BY <1>1 DEF InsertJob
<1>3. /\ alerts' = Newest(alerts \union {a}) /\ jobs' = jobs \union {j}
      /\ lastId' = lastId + 1 /\ lastId < MaxId
      /\ raced' = IF Bulk = {} THEN raced ELSE raced \union {a.id}
  BY DEF AddAlert
<1> HIDE DEF a, j
<1>4. lastId \in Nat /\ lastId' \in Nat
  BY <1>3 DEF LogInv, TableOK
<1>5. \A x : Raised(x, lastId) => Raised(x, lastId') /\ x.id # lastId'
  BY <1>3, <1>4 DEF Raised, Alert
<1>6. Raised(a, lastId')
  BY <1>1, <1>3, <1>4, LogAssumption DEF Raised
<1>7. alerts' \subseteq alerts \union {a} /\ (a \in alerts' \/ alerts' = {})
  BY <1>1, <1>3, <1>4, NewestKeeps, Zenon DEF LogInv, ListOK, Raised, Alert
<1>8. TableOK'
  <2>1. \A r \in rows' : Raised(r, lastId') /\ r.id # j.row.id
    BY <1>1, <1>2, <1>3, <1>5 DEF LogInv, TableOK
  <2>2. \A i \in jobs : /\ i.op \in {"insert", "ack", "ackall", "clear"}
                        /\ i.op = "insert" => i \in InsertJob /\ Raised(i.row, lastId')
                                              /\ i.row.id # j.row.id
                        /\ i.op = "ack" => i.id \in 1..lastId'
    BY <1>1, <1>2, <1>3, <1>4, <1>5 DEF LogInv, TableOK
  <2> QED
    BY <1>1, <1>2, <1>3, <1>4, <1>6, <2>1, <2>2, LogAssumption DEF LogInv, TableOK
<1>9. ListOK'
  <2>1. \A b \in alerts' : Raised(b, lastId') /\ b.location \in {NoLocation, b.subject}
    BY <1>1, <1>5, <1>6, <1>7 DEF LogInv, ListOK
  <2>2. \A b \in alerts' : (b.id = lastId' => b.subject = subject) /\ b.ttl <= a.ttl
    <3>1. \A b \in alerts : b.id # lastId' /\ b.ttl <= a.ttl
      BY <1>1, <1>5 DEF LogInv, ListOK, Raised
    <3> QED
      BY <1>1, <1>7, <3>1, LogAssumption
  <2>3. attach' # NoAlert =>
          attach'.id = lastId' /\ attach'.subject = subject /\ subject \in Subjects
    BY <1>3
  <2> QED
    BY <1>1, <1>3, <1>7, <2>1, <2>2, <2>3, Zenon DEF ListOK
<1>10. ShownOK'
  <2> SUFFICES ASSUME NEW b \in alerts', b.id \notin raced', b.ttl # 0
               PROVE  Stored(b)' /\ Undisturbed(b)'
    BY DEF ShownOK
  <2>1. CASE b = a
    <3>1. Bulk = {}
      BY <1>3, <2>1
    <3>2. \A i \in jobs' : i.op # "clear" /\ ~Acks(i, b.id)
      <4>1. \A i \in jobs : i.op # "clear" /\ i.op # "ackall"
        BY <3>1 DEF Bulk
      <4>2. \A i \in jobs : i.op = "ack" => i.id # b.id
        BY <1>1, <1>4, <2>1 DEF LogInv, TableOK
      <4> QED
        BY <1>2, <1>3, <4>1, <4>2 DEF Acks
    <3>3. Undisturbed(b)'
      BY <3>2 DEF Undisturbed, Acks
    <3>4. Stored(b)'
      BY <1>1, <1>2, <1>3, <2>1 DEF Stored
    <3> QED
      BY <3>3, <3>4
  <2>2. CASE b # a
    <3>1. Stored(b) /\ Undisturbed(b) /\ b.id # lastId'
      BY <1>3, <1>5, <1>7, <2>2, Zenon DEF LogInv, ShownOK, ListOK
    <3>2. Stored(b)'
      BY <1>3, <3>1 DEF Stored, Acks
    <3>3. Pending(b.id)' => Pending(b.id)
      BY <1>1, <1>2, <1>3, <3>1 DEF Pending
    <3>4. Undisturbed(b)'
      BY <1>2, <1>3, <3>1, <3>3 DEF Undisturbed, Acks
    <3> QED
      BY <3>2, <3>4
  <2> QED
    BY <2>1, <2>2
<1> QED
  BY <1>8, <1>9, <1>10 DEF LogInv

\* The events of the state manager.
LEMMA EventKeeps ==
  ASSUME LogInv,
         \/ \E kind \in Kinds, d \in Subjects : generateEventAlerts(kind, d)
         \/ \E t \in Taps, status \in {"online", "offline"} : generateTapAlert(t, status)
         \/ ResetAlerted
  PROVE  LogInv'
<1>1. ASSUME NEW kind \in Kinds, NEW d \in Subjects, generateEventAlerts(kind, d) PROVE LogInv'
  BY <1>1, AddKeeps DEF generateEventAlerts
<1>2. ASSUME NEW t \in Taps, NEW status, generateTapAlert(t, status) PROVE LogInv'
  <2>1. CASE tapStatus[t] = "unknown"
    <3>1. UNCHANGED <<alerts, rows, jobs, attach, lastId, raced>>
      BY <1>2, <2>1 DEF generateTapAlert
    <3> QED
      BY <3>1 DEF LogInv, TableOK, ListOK, ShownOK, Raised, Stored, Undisturbed, Acks, Pending
  <2>2. CASE tapStatus[t] # "unknown"
    BY <1>2, <2>2, AddKeeps DEF generateTapAlert
  <2> QED
    BY <2>1, <2>2
<1>3. CASE ResetAlerted
  BY <1>3 DEF ResetAlerted, LogInv, TableOK, ListOK, ShownOK, Raised, Stored, Undisturbed, Acks,
              Pending
<1> QED
  BY <1>1, <1>2, <1>3

\* The list of alerts shrinks, or every alert keeps what the table must agree with.
LEMMA SameTable ==
  ASSUME LogInv, UNCHANGED <<rows, jobs, lastId, raced>>,
         \A x \in alerts' : \E a \in alerts : /\ x.id = a.id /\ x.status = a.status
                                              /\ x.ttl = a.ttl
  PROVE  TableOK' /\ ShownOK'
<1>1. TableOK'
  BY DEF LogInv, TableOK, Raised
<1>2. ASSUME NEW x \in alerts', x.id \notin raced, x.ttl # 0 PROVE Stored(x)' /\ Undisturbed(x)'
  <2>1. PICK a \in alerts : x.id = a.id /\ x.status = a.status /\ x.ttl = a.ttl
    OBVIOUS
  <2>2. Stored(a) /\ Undisturbed(a)
    BY <1>2, <2>1 DEF LogInv, ShownOK
  <2> QED
    BY <2>1, <2>2 DEF Stored, Undisturbed, Acks, Pending
<1> QED
  BY <1>1, <1>2 DEF ShownOK

\* The location goes to the last alert of the list, which is the one it belongs to.
LEMMA AttachKeeps ==
  ASSUME LogInv, AddAlertWithLocation
  PROVE  LogInv'
<1>1. attach.subject \in Subjects
  BY DEF AddAlertWithLocation, LogInv, ListOK
<1>2. ASSUME NEW a \in alerts \ NotLast(alerts) PROVE a.subject = attach.subject
  <2>1. \A b \in alerts : ~(a.id < b.id)
    BY DEF NotLast
  <2>2. \E b \in alerts : b.id = lastId
    BY DEF AddAlertWithLocation, LogInv, ListOK
  <2>3. a.id = lastId
    BY <2>1, <2>2 DEF LogInv, TableOK, ListOK, Raised, Alert
  <2> QED
    BY <2>3 DEF AddAlertWithLocation, LogInv, ListOK
<1>3. ASSUME NEW x \in alerts'
      PROVE  \E a \in alerts : /\ x.id = a.id /\ x.status = a.status /\ x.ttl = a.ttl
                               /\ Raised(x, lastId) /\ x.location \in {NoLocation, x.subject}
  <2>1. CASE x \in NotLast(alerts)
    BY <2>1 DEF NotLast, LogInv, ListOK
  <2>2. CASE x \notin NotLast(alerts)
    <3>1. PICK a \in alerts \ NotLast(alerts) : x = [a EXCEPT !.location = attach.subject]
      BY <2>2 DEF AddAlertWithLocation
    <3>2. Raised(a, lastId)
      BY DEF LogInv, ListOK
    <3>3. /\ x \in Alert /\ x.id = a.id /\ x.subject = a.subject
          /\ x.status = a.status /\ x.location = attach.subject /\ x.ttl = a.ttl
      BY <1>1, <3>1, <3>2, LocationChanges DEF Raised
    <3> QED
      BY <1>2, <3>2, <3>3 DEF Raised
  <2> QED
    BY <2>1, <2>2
<1>4. UNCHANGED <<rows, jobs, lastId, raced>> /\ attach' = NoAlert
  BY DEF AddAlertWithLocation
<1>5. TableOK' /\ ShownOK'
  BY <1>3, <1>4, SameTable
<1>6. ListOK'
  BY <1>3, <1>4 DEF ListOK, Raised
<1> QED
  BY <1>5, <1>6 DEF LogInv

\* An acknowledgement changes the status of alerts, and nothing else about the list.
LEMMA AckList ==
  ASSUME LogInv, UNCHANGED <<attach, lastId>>,
         \A x \in alerts' : \E a \in alerts : x = a \/ x = Acked(a),
         \A a \in alerts : a \in alerts' \/ Acked(a) \in alerts'
  PROVE  ListOK'
<1>1. \A a \in alerts : Raised(a, lastId)
  BY DEF LogInv, ListOK
<1>2. ASSUME NEW x \in alerts'
      PROVE  /\ Raised(x, lastId) /\ x.location \in {NoLocation, x.subject}
             /\ \E a \in alerts : x.id = a.id /\ x.subject = a.subject /\ x.ttl = a.ttl
  BY <1>1, AlertChanges DEF LogInv, ListOK, Raised
<1>3. ASSUME NEW b \in alerts PROVE \E x \in alerts' : x.id = b.id /\ x.ttl = b.ttl
  BY <1>1, AlertChanges DEF Raised
<1>4. alerts' = {} <=> alerts = {}
  BY <1>2, <1>3
<1>5. ASSUME attach # NoAlert
      PROVE  /\ attach.id = lastId /\ attach.subject \in Subjects
             /\ \A x \in alerts' : x.id = lastId => x.subject = attach.subject
             /\ alerts' = {} \/ \E b \in alerts' : b.id = lastId /\ \A a \in alerts' : a.ttl <= b.ttl
  <2>1. \A x \in alerts' : x.id = lastId => x.subject = attach.subject
    BY <1>2, <1>5 DEF LogInv, ListOK
  <2>2. ASSUME alerts # {}
        PROVE  \E b \in alerts' : b.id = lastId /\ \A a \in alerts' : a.ttl <= b.ttl
    <3>1. PICK b \in alerts : b.id = lastId /\ \A a \in alerts : a.ttl <= b.ttl
      BY <1>5, <2>2 DEF LogInv, ListOK
    <3>2. PICK x \in alerts' : x.id = b.id /\ x.ttl = b.ttl
      BY <1>3
    <3> QED
      BY <1>2, <3>1, <3>2
  <2> QED
    BY <1>4, <1>5, <2>1, <2>2 DEF LogInv, ListOK
<1> QED
  BY <1>2, <1>5 DEF ListOK, Raised

\* The operator acknowledges one alert.
LEMMA AckKeeps ==
  ASSUME LogInv, NEW id \in 1..lastId, handleAlertByID(id)
  PROVE  LogInv'
<1> DEFINE j == [op |-> "ack", id |-> id]
<1>1. j.op = "ack" /\ j.id = id
  OBVIOUS
<1>2. /\ jobs' = jobs \union {j} /\ UNCHANGED <<rows, attach, lastId>>
      /\ alerts' = {IF a.id = id THEN Acked(a) ELSE a : a \in alerts}
      /\ raced' = IF Pending(id) THEN raced \union {id} ELSE raced
  BY DEF handleAlertByID
<1> HIDE DEF j
<1>3. ListOK'
  BY <1>2, AckList
<1>4. TableOK'
  BY <1>1, <1>2 DEF LogInv, TableOK, Raised
<1>5. ASSUME NEW x \in alerts', x.id \notin raced', x.ttl # 0 PROVE Stored(x)' /\ Undisturbed(x)'
  <2>1. PICK a \in alerts : x = IF a.id = id THEN Acked(a) ELSE a
    BY <1>2
  <2>2. Raised(a, lastId)
    BY DEF LogInv, ListOK
  <2>3. x.id = a.id /\ x.ttl = a.ttl /\ (a.id # id => x = a) /\ (a.id = id => x.status = "acked")
    BY <2>1, <2>2, AlertChanges DEF Raised
  <2>4. Stored(a) /\ Undisturbed(a)
    BY <1>2, <1>5, <2>3 DEF LogInv, ShownOK
  <2>5. Pending(x.id)' <=> Pending(x.id)
    BY <1>1, <1>2 DEF Pending
  <2>6. CASE a.id = id
    <3>1. ~Pending(x.id)
      BY <1>2, <1>5, <2>3, <2>6
    <3>2. PICK r \in rows : r.id = a.id /\ r.ttl = a.ttl
      BY <2>3, <2>4, <3>1 DEF Stored, Pending
    <3>3. Acks(j, x.id)
      BY <1>1, <2>3, <2>6 DEF Acks
    <3>4. Stored(x)'
      BY <1>2, <2>3, <2>6, <3>2, <3>3 DEF Stored, Acks
    <3>5. Undisturbed(x)'
      BY <1>1, <1>2, <2>3, <2>4, <2>5, <2>6, <3>1 DEF Undisturbed, Acks
    <3> QED
      BY <3>4, <3>5
  <2>7. CASE a.id # id
    <3>1. x = a /\ ~Acks(j, x.id)
      BY <1>1, <2>3, <2>7 DEF Acks
    <3>2. Stored(x)'
      BY <1>2, <2>4, <3>1 DEF Stored, Acks
    <3>3. Undisturbed(x)'
      BY <1>1, <1>2, <2>4, <2>5, <3>1 DEF Undisturbed, Acks
    <3> QED
      BY <3>2, <3>3
  <2> QED
    BY <2>6, <2>7
<1> QED
  BY <1>3, <1>4, <1>5 DEF LogInv, ShownOK

\* The operator acknowledges all.
LEMMA AckAllKeeps ==
  ASSUME LogInv, AckAll
  PROVE  LogInv'
<1> DEFINE j == [op |-> "ackall"]
<1>1. j.op = "ackall"
  OBVIOUS
<1>2. /\ jobs' = jobs \union {j} /\ UNCHANGED <<rows, attach, lastId>>
      /\ alerts' = {Acked(a) : a \in alerts}
      /\ raced' = raced \union {id \in Ids : Pending(id)}
  BY DEF AckAll
<1> HIDE DEF j
<1>3. ListOK'
  BY <1>2, AckList
<1>4. TableOK'
  BY <1>1, <1>2 DEF LogInv, TableOK, Raised
<1>5. ASSUME NEW x \in alerts', x.id \notin raced', x.ttl # 0 PROVE Stored(x)' /\ Undisturbed(x)'
  <2>1. PICK a \in alerts : x = Acked(a)
    BY <1>2
  <2>2. Raised(a, lastId)
    BY DEF LogInv, ListOK
  <2>3. x.id = a.id /\ x.ttl = a.ttl /\ x.status = "acked"
    BY <2>1, <2>2, AlertChanges DEF Raised
  <2>4. Stored(a) /\ Undisturbed(a)
    BY <1>2, <1>5, <2>3 DEF LogInv, ShownOK
  <2>5. a.id \in Ids
    BY <2>2, LogAssumption DEF LogInv, TableOK, Raised, Alert, Ids
  <2>6. ~Pending(x.id) /\ ~Pending(x.id)'
    BY <1>1, <1>2, <1>5, <2>3, <2>5 DEF Pending
  <2>7. PICK r \in rows : r.id = a.id /\ r.ttl = a.ttl
    BY <2>3, <2>4, <2>6 DEF Stored, Pending
  <2>8. Stored(x)'
    BY <1>1, <1>2, <2>3, <2>7 DEF Stored, Acks
  <2>9. Undisturbed(x)'
    BY <1>1, <1>2, <2>3, <2>4, <2>6 DEF Undisturbed, Acks
  <2> QED
    BY <2>8, <2>9
<1> QED
  BY <1>3, <1>4, <1>5 DEF LogInv, ShownOK

\* The list is emptied.
LEMMA ClearKeeps ==
  ASSUME LogInv, Clear \/ handleClearData
  PROVE  LogInv'
<1>1. alerts' = {} /\ UNCHANGED <<rows, attach, lastId>>
  BY DEF Clear, handleClearData
<1>2. CASE Clear
  <2> DEFINE j == [op |-> "clear"]
  <2>1. jobs' = jobs \union {j} /\ j.op = "clear"
    BY <1>2 DEF Clear
  <2> HIDE DEF j
  <2>2. TableOK'
    BY <1>1, <2>1 DEF LogInv, TableOK, Raised
  <2> QED
    BY <1>1, <2>2 DEF LogInv, ListOK, ShownOK
<1>3. CASE handleClearData
  BY <1>1, <1>3 DEF handleClearData, LogInv, TableOK, ListOK, ShownOK, Raised
<1> QED
  BY <1>2, <1>3

\* An INSERT reaches the table.
LEMMA InsertKeeps ==
  ASSUME LogInv, NEW j \in jobs, j.op = "insert", Persist(j)
  PROVE  LogInv'
<1>1. jobs' = jobs \ {j} /\ UNCHANGED <<alerts, attach, lastId, raced>>
  BY DEF Persist
<1>2. \A r \in rows : r.id # j.row.id
  BY DEF LogInv, TableOK
<1>3. rows' = rows \union {j.row}
  BY <1>2 DEF Persist, Executed
<1>4. TableOK'
  BY <1>1, <1>3 DEF LogInv, TableOK, Raised
<1>5. ListOK'
  BY <1>1 DEF LogInv, ListOK, Raised
<1>6. ASSUME NEW a \in alerts, a.id \notin raced, a.ttl # 0 PROVE Stored(a)' /\ Undisturbed(a)'
  <2>1. Stored(a) /\ Undisturbed(a)
    BY <1>6 DEF LogInv, ShownOK
  <2>2. Pending(a.id)' => Pending(a.id)
    BY <1>1 DEF Pending
  <2>3. Undisturbed(a)'
    BY <1>1, <2>1, <2>2 DEF Undisturbed, Acks
  <2>4. CASE j.row.id = a.id
    <3>1. \E i \in jobs : /\ i.op = "insert" /\ i.row.id = a.id
                          /\ i.row.status = a.status /\ i.row.ttl = a.ttl
      BY <1>2, <2>1, <2>4 DEF Stored
    <3>2. j.row.status = a.status /\ j.row.ttl = a.ttl
      BY <2>4, <3>1 DEF LogInv, TableOK
    <3> QED
      BY <1>3, <2>3, <2>4, <3>2 DEF Stored
  <2>5. CASE j.row.id # a.id
    <3>1. Stored(a)'
      BY <1>1, <1>3, <2>1, <2>5 DEF Stored, Acks
    <3> QED
      BY <2>3, <3>1
  <2> QED
    BY <2>4, <2>5
<1> QED
  BY <1>1, <1>4, <1>5, <1>6 DEF LogInv, ShownOK

\* An acknowledgement reaches the table.
LEMMA PersistAckKeeps ==
  ASSUME LogInv, NEW j \in jobs, j.op \in {"ack", "ackall"}, Persist(j)
  PROVE  LogInv'
<1>1. jobs' = jobs \ {j} /\ UNCHANGED <<alerts, attach, lastId, raced>>
  BY DEF Persist
<1>2. rows' = {IF Acks(j, r.id) THEN Acked(r) ELSE r : r \in rows}
  BY DEF Persist, Executed, Acks
<1>3. ASSUME NEW r \in rows
      PROVE  LET q == IF Acks(j, r.id) THEN Acked(r) ELSE r
             IN  /\ q \in rows' /\ Raised(q, lastId) /\ q.id = r.id /\ q.ttl = r.ttl
                 /\ q.status = r.status \/ (q.status = "acked" /\ Acks(j, r.id))
                 /\ Acks(j, r.id) => q.status = "acked"
  <2>1. Raised(r, lastId)
    BY DEF LogInv, TableOK
  <2> QED
    BY <1>2, <2>1, AlertChanges DEF Raised
<1>4. ASSUME NEW q \in rows' PROVE Raised(q, lastId) /\ \E r \in rows : q.id = r.id
  BY <1>2, <1>3
<1>5. TableOK'
  BY <1>1, <1>4 DEF LogInv, TableOK, Raised
<1>6. ListOK'
  BY <1>1 DEF LogInv, ListOK, Raised
<1>7. ASSUME NEW a \in alerts, a.id \notin raced, a.ttl # 0 PROVE Stored(a)' /\ Undisturbed(a)'
  <2>1. Stored(a) /\ Undisturbed(a)
    BY <1>7 DEF LogInv, ShownOK
  <2>2. Pending(a.id)' <=> Pending(a.id)
    BY <1>1 DEF Pending
  <2>3. Undisturbed(a)'
    BY <1>1, <2>1, <2>2 DEF Undisturbed, Acks
  <2>4. CASE Pending(a.id)
    <3>1. \E i \in jobs : /\ i.op = "insert" /\ i.row.id = a.id
                          /\ i.row.status = a.status /\ i.row.ttl = a.ttl
      BY <2>1, <2>4 DEF Stored, Pending, LogInv, TableOK
    <3> QED
      BY <1>1, <2>3, <3>1 DEF Stored
  <2>5. CASE ~Pending(a.id)
    <3>1. PICK r \in rows : /\ r.id = a.id /\ r.ttl = a.ttl
                            /\ \/ r.status = a.status
                               \/ a.status = "acked" /\ \E i \in jobs : Acks(i, a.id)
      BY <2>1, <2>5 DEF Stored, Pending
    <3> DEFINE q == IF Acks(j, r.id) THEN Acked(r) ELSE r
    <3>2. /\ q \in rows' /\ q.id = a.id /\ q.ttl = a.ttl
          /\ q.status = r.status \/ (q.status = "acked" /\ Acks(j, r.id))
          /\ Acks(j, r.id) => q.status = "acked"
      BY <1>3, <3>1
    <3> HIDE DEF q
    <3>3. CASE Acks(j, a.id)
      <4>1. a.status = "acked" /\ q.status = "acked"
        BY <2>1, <3>1, <3>2, <3>3 DEF Undisturbed
      <4> QED
        BY <2>3, <3>2, <4>1 DEF Stored
    <3>4. CASE ~Acks(j, a.id)
      <4>1. q.status = r.status
        BY <3>1, <3>2, <3>4
      <4>2. (\E i \in jobs : Acks(i, a.id)) => (\E i \in jobs' : Acks(i, a.id))
        BY <1>1, <3>4, SMTT(20)
      <4> QED
        BY <2>3, <3>1, <3>2, <4>1, <4>2 DEF Stored, Acks
    <3> QED
      BY <3>3, <3>4
  <2> QED
    BY <2>4, <2>5
<1> QED
  BY <1>1, <1>5, <1>6, <1>7 DEF LogInv, ShownOK

\* A clear reaches the table: only alerts that came after it are shown.
LEMMA PersistClearKeeps ==
  ASSUME LogInv, NEW j \in jobs, j.op = "clear", Persist(j)
  PROVE  LogInv'
<1>1. jobs' = jobs \ {j} /\ UNCHANGED <<alerts, attach, lastId, raced>> /\ rows' = {}
  BY DEF Persist, Executed
<1>2. \A a \in alerts : a.id \in raced \/ a.ttl = 0
  BY DEF LogInv, ShownOK, Undisturbed
<1> QED
  BY <1>1, <1>2 DEF LogInv, TableOK, ListOK, ShownOK, Raised

\* A statement fails.
LEMMA FailKeeps ==
  ASSUME LogInv, NEW j \in jobs, PersistFails(j)
  PROVE  LogInv'
<1>1. jobs' = jobs \ {j} /\ UNCHANGED <<alerts, rows, attach, lastId>>
  BY DEF PersistFails
<1>2. TableOK' /\ ListOK'
  BY <1>1 DEF LogInv, TableOK, ListOK, Raised
<1>3. ASSUME NEW a \in alerts, a.id \notin raced', a.ttl # 0 PROVE Stored(a)' /\ Undisturbed(a)'
  <2>1. a.id \in Ids
    BY LogAssumption DEF LogInv, TableOK, ListOK, Raised, Alert, Ids
  <2>2. /\ a.id \notin raced /\ j.op \in {"insert", "ack"}
        /\ j.op = "insert" => j.row.id # a.id
        /\ j.op = "ack" => j.id # a.id
    BY <1>3, <2>1 DEF PersistFails, LogInv, TableOK
  <2>3. Stored(a) /\ Undisturbed(a)
    BY <1>3, <2>2 DEF LogInv, ShownOK
  <2>4. ~Acks(j, a.id)
    BY <2>2 DEF Acks
  <2>5. Stored(a)'
    BY <1>1, <2>2, <2>3, <2>4 DEF Stored, Acks
  <2>6. Undisturbed(a)'
    BY <1>1, <2>3 DEF Undisturbed, Acks, Pending
  <2> QED
    BY <2>5, <2>6
<1> QED
  BY <1>1, <1>2, <1>3 DEF LogInv, ShownOK

\* Time passes for the list, the table and what is on its way to it.
LEMMA LogTickKeeps ==
  ASSUME LogInv, AlertTick
  PROVE  LogInv'
<1> DEFINE olderJob(j) == IF j.op = "insert" THEN [j EXCEPT !.row = Older(@)] ELSE j
<1>1. /\ alerts' = {Older(a) : a \in alerts} /\ rows' = {Older(r) : r \in rows}
      /\ jobs' = {olderJob(j) : j \in jobs} /\ UNCHANGED <<attach, lastId, raced>>
  BY DEF AlertTick
<1>2. ASSUME NEW a, Raised(a, lastId)
      PROVE  /\ Raised(Older(a), lastId) /\ Older(a).id = a.id /\ Older(a).subject = a.subject
             /\ Older(a).status = a.status /\ Older(a).location = a.location
             /\ Older(a).ttl = IF a.ttl = 0 THEN 0 ELSE a.ttl - 1
             /\ a.ttl \in Nat
  <2>1. a \in Alert /\ a.ttl \in Nat
    BY <1>2 DEF Raised, Alert
  <2> QED
    BY <1>2, <2>1, AlertChanges, LogAssumption DEF Raised
<1>3. ASSUME NEW j \in jobs
      PROVE  /\ olderJob(j).op = j.op
             /\ j.op # "insert" => olderJob(j) = j
             /\ j.op = "insert" =>
                  /\ Raised(j.row, lastId) /\ olderJob(j).row = Older(j.row)
                  /\ olderJob(j) \in InsertJob
  <2>1. CASE j.op = "insert"
    <3>1. j \in InsertJob /\ Raised(j.row, lastId)
      BY <2>1 DEF LogInv, TableOK
    <3>2. Older(j.row) \in Alert
      BY <1>2, <3>1 DEF Raised
    <3> QED
      BY <2>1, <3>1, <3>2 DEF InsertJob
  <2>2. CASE j.op # "insert"
    BY <2>2
  <2> QED
    BY <2>1, <2>2
<1>4. \A a \in alerts : Raised(a, lastId)
  BY DEF LogInv, ListOK
<1>5. \A r \in rows : Raised(r, lastId)
  BY DEF LogInv, TableOK
<1> HIDE DEF olderJob
<1>6. TableOK'
  <2>1. \A r \in rows' : Raised(r, lastId')
    BY <1>1, <1>2, <1>5 DEF Raised
  <2>2. \A j \in jobs' : /\ j.op \in {"insert", "ack", "ackall", "clear"}
                         /\ j.op = "insert" => j \in InsertJob /\ Raised(j.row, lastId')
                         /\ j.op = "ack" => j.id \in 1..lastId'
    <3> SUFFICES ASSUME NEW j \in jobs
                 PROVE  LET i == olderJob(j)
                        IN  /\ i.op \in {"insert", "ack", "ackall", "clear"}
                            /\ i.op = "insert" => i \in InsertJob /\ Raised(i.row, lastId')
                            /\ i.op = "ack" => i.id \in 1..lastId'
      BY <1>1
    <3>1. j.op = "insert" => Raised(olderJob(j).row, lastId')
      BY <1>1, <1>2, <1>3 DEF Raised
    <3>2. j.op \in {"insert", "ack", "ackall", "clear"} /\ (j.op = "ack" => j.id \in 1..lastId)
      BY DEF LogInv, TableOK
    <3> QED
      BY <1>1, <1>3, <3>1, <3>2
  <2>3. \A i, j \in jobs' : i.op = "insert" /\ j.op = "insert" /\ i.row.id = j.row.id => i = j
    <3> SUFFICES ASSUME NEW i \in jobs, NEW j \in jobs, olderJob(i).op = "insert",
                        olderJob(j).op = "insert", olderJob(i).row.id = olderJob(j).row.id
                 PROVE  i = j
      BY <1>1
    <3>1. i.op = "insert" /\ j.op = "insert" /\ i.row.id = j.row.id
      BY <1>2, <1>3
    <3> QED
      BY <3>1 DEF LogInv, TableOK
  <2>4. \A j \in jobs', r \in rows' : j.op = "insert" => r.id # j.row.id
    <3> SUFFICES ASSUME NEW j \in jobs, NEW r \in rows, olderJob(j).op = "insert"
                 PROVE  Older(r).id # olderJob(j).row.id
      BY <1>1
    <3>1. j.op = "insert" /\ olderJob(j).row.id = j.row.id /\ Older(r).id = r.id
      BY <1>2, <1>3, <1>5
    <3> QED
      BY <3>1 DEF LogInv, TableOK
  <2> QED
    BY <1>1, <2>1, <2>2, <2>3, <2>4 DEF LogInv, TableOK
<1>7. ListOK'
  <2>1. \A x \in alerts' : Raised(x, lastId') /\ x.location \in {NoLocation, x.subject}
    BY <1>1, <1>2, <1>4 DEF Raised, LogInv, ListOK
  <2>2. ASSUME attach # NoAlert
        PROVE  /\ attach.id = lastId /\ attach.subject \in Subjects
               /\ \A x \in alerts' : x.id = lastId => x.subject = attach.subject
               /\ alerts' = {} \/ \E b \in alerts' : b.id = lastId /\ \A a \in alerts' : a.ttl <= b.ttl
    <3>1. \A x \in alerts' : x.id = lastId => x.subject = attach.subject
      BY <1>1, <1>2, <1>4, <2>2 DEF LogInv, ListOK
    <3>2. ASSUME alerts # {}
          PROVE  \E b \in alerts' : b.id = lastId /\ \A a \in alerts' : a.ttl <= b.ttl
      <4>1. PICK b \in alerts : b.id = lastId /\ \A a \in alerts : a.ttl <= b.ttl
        BY <2>2, <3>2 DEF LogInv, ListOK
      <4>2. Older(b) \in alerts' /\ Older(b).id = lastId
        BY <1>1, <1>2, <1>4, <4>1
      <4>3. ASSUME NEW a \in alerts PROVE Older(a).ttl <= Older(b).ttl
        BY <1>2, <1>4, <4>1
      <4> QED
        BY <1>1, <4>2, <4>3
    <3>3. alerts = {} => alerts' = {}
      BY <1>1, SMTT(20)
    <3> QED
      BY <2>2, <3>1, <3>2, <3>3 DEF LogInv, ListOK
  <2> QED
    BY <1>1, <2>1, <2>2 DEF ListOK
<1>8. ASSUME NEW a \in alerts, a.id \notin raced, a.ttl # 0, Older(a).ttl # 0
      PROVE  Stored(Older(a))' /\ Undisturbed(Older(a))'
  <2>1. Stored(a) /\ Undisturbed(a)
    BY <1>8 DEF LogInv, ShownOK
  <2>2. Older(a).id = a.id /\ Older(a).status = a.status /\ Older(a).ttl = a.ttl - 1
    BY <1>2, <1>4, <1>8
  <2>3. ASSUME NEW i \in jobs', Acks(i, a.id) PROVE \E j \in jobs : Acks(j, a.id)
    BY <1>1, <1>3, <2>3 DEF Acks
  <2>4. ASSUME NEW j \in jobs, Acks(j, a.id) PROVE \E i \in jobs' : Acks(i, a.id)
    BY <1>1, <1>3, <2>4 DEF Acks
  <2>5. Pending(a.id)' => Pending(a.id)
    BY <1>1, <1>2, <1>3 DEF Pending
  <2>6. \A i \in jobs' : i.op # "clear"
    BY <1>1, <1>3, <2>1 DEF Undisturbed
  <2>7. Undisturbed(Older(a))'
    BY <2>1, <2>2, <2>3, <2>5, <2>6 DEF Undisturbed, Acks
  <2>8. CASE \E j \in jobs : /\ j.op = "insert" /\ j.row.id = a.id
                             /\ j.row.status = a.status /\ j.row.ttl = a.ttl
    <3>1. PICK j \in jobs : /\ j.op = "insert" /\ j.row.id = a.id
                            /\ j.row.status = a.status /\ j.row.ttl = a.ttl
      BY <2>8
    <3>2. /\ olderJob(j) \in jobs' /\ olderJob(j).op = "insert" /\ olderJob(j).row.id = a.id
          /\ olderJob(j).row.status = a.status /\ olderJob(j).row.ttl = a.ttl - 1
      BY <1>1, <1>2, <1>3, <1>8, <3>1
    <3> QED
      BY <2>2, <2>7, <3>2 DEF Stored
  <2>9. CASE \E r \in rows : /\ r.id = a.id /\ r.ttl = a.ttl
                             /\ \/ r.status = a.status
                                \/ a.status = "acked" /\ \E j \in jobs : Acks(j, a.id)
    <3>1. PICK r \in rows : /\ r.id = a.id /\ r.ttl = a.ttl
                            /\ \/ r.status = a.status
                               \/ a.status = "acked" /\ \E j \in jobs : Acks(j, a.id)
      BY <2>9
    <3>2. /\ Older(r) \in rows' /\ Older(r).id = a.id /\ Older(r).ttl = a.ttl - 1
          /\ Older(r).status = r.status
      BY <1>1, <1>2, <1>5, <1>8, <3>1
    <3> QED
      BY <2>2, <2>4, <2>7, <3>1, <3>2 DEF Stored, Acks
  <2> QED
    BY <2>1, <2>8, <2>9 DEF Stored
<1>9. ShownOK'
  <2> SUFFICES ASSUME NEW a \in alerts, Older(a).id \notin raced, Older(a).ttl # 0
               PROVE  Stored(Older(a))' /\ Undisturbed(Older(a))'
    BY <1>1 DEF ShownOK
  <2> QED
    BY <1>2, <1>4, <1>8
<1> QED
  BY <1>6, <1>7, <1>9 DEF LogInv

\* What has expired leaves the list and the table.
LEMMA ExpireKeeps ==
  ASSUME LogInv, cleanupAlerts
  PROVE  LogInv'
<1>1. /\ alerts' = {a \in alerts : a.ttl > 0} /\ rows' = {r \in rows : r.ttl > 0}
      /\ UNCHANGED <<jobs, attach, lastId, raced>>
  BY DEF cleanupAlerts, Unexpired
<1>2. TableOK'
  BY <1>1 DEF LogInv, TableOK, Raised
<1>3. ListOK'
  <2>1. \A a \in alerts : a.ttl \in Nat
    BY DEF LogInv, ListOK, Raised, Alert
  <2>2. ASSUME attach # NoAlert, alerts' # {}
        PROVE  \E b \in alerts' : b.id = lastId /\ \A a \in alerts' : a.ttl <= b.ttl
    <3>1. PICK b \in alerts : b.id = lastId /\ \A a \in alerts : a.ttl <= b.ttl
      BY <1>1, <2>2 DEF LogInv, ListOK
    <3>2. b \in alerts'
      BY <1>1, <2>1, <2>2, <3>1
    <3> QED
      BY <1>1, <3>1, <3>2
  <2> QED
    BY <1>1, <2>2 DEF LogInv, ListOK, Raised
<1>4. ASSUME NEW a \in alerts', a.id \notin raced PROVE Stored(a)' /\ Undisturbed(a)'
  <2>1. a \in alerts /\ a.ttl > 0 /\ a.ttl # 0
    BY <1>1 DEF LogInv, ListOK, Raised, Alert
  <2>2. Stored(a) /\ Undisturbed(a)
    BY <1>4, <2>1, SMTT(20) DEF LogInv, ShownOK
  <2> QED
    BY <1>1, <2>1, <2>2 DEF Stored, Undisturbed, Acks, Pending
<1> QED
  BY <1>1, <1>2, <1>3, <1>4 DEF LogInv, ShownOK

\* A restart shows rows of the table.
LEMMA LogRestartKeeps ==
  ASSUME LogInv, RestartServer
  PROVE  LogInv'
<1>1. jobs' = {} /\ attach' = NoAlert /\ UNCHANGED <<rows, lastId>> /\ alerts' = Loaded
  BY DEF RestartServer
<1>2. ASSUME NEW x \in alerts'
      PROVE  /\ Raised(x, lastId') /\ x.location = NoLocation
             /\ \E r \in rows : r.id = x.id /\ r.ttl = x.ttl /\ r.status = x.status
  <2>1. PICK r \in rows : x = [r EXCEPT !.location = NoLocation]
    BY <1>1, Zenon DEF Loaded
  <2>2. Raised(r, lastId)
    BY DEF LogInv, TableOK
  <2> QED
    BY <1>1, <2>1, <2>2, LocationChanges DEF Raised
<1> QED
  BY <1>1, <1>2 DEF LogInv, TableOK, ListOK, ShownOK, Stored, Undisturbed, Raised

\* Every step of the alerts.
LEMMA LogKeeps ==
  ASSUME LogInv, [LogNext]_logVars
  PROVE  LogInv'
<1>1. CASE UNCHANGED logVars
  BY <1>1 DEF logVars, LogInv, TableOK, ListOK, ShownOK, Raised, Stored, Undisturbed, Acks,
      Pending
<1>2. ASSUME NEW j \in jobs, Persist(j) PROVE LogInv'
  BY <1>2, InsertKeeps, PersistAckKeeps, PersistClearKeeps, Zenon DEF LogInv, TableOK
<1> QED
  BY <1>1, <1>2, EventKeeps, AttachKeeps, AckKeeps, AckAllKeeps, ClearKeeps, FailKeeps,
     LogTickKeeps, ExpireKeeps, LogRestartKeeps DEF LogNext

\* What the invariant is for.
LEMMA LogImplies == LogInv => LocationIsOwn /\ ShownIsStored
<1> SUFFICES ASSUME LogInv PROVE LocationIsOwn /\ ShownIsStored
  OBVIOUS
<1>1. LocationIsOwn
  BY DEF LogInv, ListOK, LocationIsOwn
<1>2. ASSUME jobs = {}, NEW a \in alerts, a.id \notin raced, Unexpired(a)
      PROVE  \E r \in rows : r.id = a.id /\ r.status = a.status
  <2>1. a.ttl # 0
    BY <1>2 DEF Unexpired
  <2>2. Stored(a)
    BY <1>2, <2>1 DEF LogInv, ShownOK
  <2> QED
    BY <1>2, <2>2 DEF Stored
<1> QED
  BY <1>1, <1>2 DEF ShownIsStored

\* AddAlertWithLocation and the goroutines that repeat changes of the list in the database
\* (server.go, store.go): no alert carries another's location, and what is shown is stored,
\* for any bounds on alerts, requests and failures.
THEOREM AlertsAreTrue == LogSpec => []AlertsTrue
<1>1. LogInv /\ [LogNext]_logVars => LogInv'
  BY LogKeeps
<1>2. LogInv => AlertsTrue
  BY LogImplies DEF AlertsTrue
<1> QED
  BY LogInitially, <1>1, <1>2, PTL DEF LogSpec
=============================================================================
