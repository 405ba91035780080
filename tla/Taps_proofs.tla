---------------------------- MODULE Taps_proofs ----------------------------
(***************************************************************************)
(* What passes between the node and its TAPs over NATS, for any messages,  *)
(* requests, handlers, TAPs and faults and any deduplication window.       *)
(*                                                                         *)
(* An answer is true because every acknowledgment on its way or delivered  *)
(* was sent by the TAP it names after doing what it says (CommandInv).     *)
(* EnteredOnce needs the cache: a message some handler works on was marked *)
(* this very second and by nobody else (Marked), and an entry tells when   *)
(* its message was entered last (Remembered).  EnteredPlausible needs what *)
(* each step of the validation has established so far (Validated).         *)
(***************************************************************************)
EXTENDS CommandAck, DetectionIntake, TLAPS

Request ==
  [at : {"idle", "send", "publish", "wait", "waiting", "late", "returned"},
   kind : {"none", "ping", "restart", "config", "config2", "broadcast ping"},
   to : SUBSET Taps, n : {1, 2},
   said : {"none", "sent", "failed", "ok", "not found", "timeout"}]

CommandTyped ==
  /\ req \in [Requests -> Request]
  /\ pending \subseteq Commands /\ channel \subseteq Commands
  /\ box \in [Commands -> SUBSET Taps]
  /\ wire \subseteq Commands \X Taps
  /\ acks \subseteq Commands \X Taps /\ executed \subseteq Commands \X Taps

\* A request that waits is a ping of one TAP, and an answer ends a request.
Pings ==
  \A r \in Requests :
    /\ req[r].at = "idle" => req[r].n = 1
    /\ req[r].kind = "ping" => req[r].n = 1 /\ \E t \in Taps : req[r].to = {t}
    /\ req[r].at \in {"wait", "waiting", "late"} => req[r].kind = "ping"
    /\ req[r].said # "none" => req[r].at = "returned"
    /\ req[r].said \in {"ok", "not found"} => req[r].kind = "ping"

\* The n-th command of r has been published.
Published(r, n) ==
  \/ n < req[r].n
  \/ /\ n = req[r].n /\ req[r].at \in {"wait", "waiting", "late", "returned"}
     /\ req[r].said # "failed"

\* What is on its way or carried out was published, to the TAP it is at.
Addressed ==
  \A r \in Requests, n \in {1, 2}, t \in Taps :
    <<<<r, n>>, t>> \in wire \cup executed => Published(r, n) /\ t \in req[r].to

\* An acknowledgment comes from a TAP that carried the command out.
AcksTrue ==
  /\ acks \subseteq executed
  /\ \A c \in Commands : \A t \in box[c] : <<c, t>> \in executed

\* While a command is sent or waited for, its entry is there or it was carried out.
EntryOrDone ==
  \A r \in Requests :
    /\ req[r].at = "publish" => Cmd(r) \in pending
    /\ req[r].at = "wait" => Cmd(r) \in pending \/ \E t \in Taps : <<Cmd(r), t>> \in executed
    /\ req[r].said \in {"ok", "not found"} => \E t \in Taps : <<Cmd(r), t>> \in executed

CommandInv == CommandTyped /\ Pings /\ Addressed /\ AcksTrue /\ EntryOrDone

-----------------------------------------------------------------------------
\* The numbers of a request's commands, for the steps that only compare them.
LEMMA StepsAreOrdered == ~(1 < 1) /\ ~(2 < 1) /\ 1 < 2
  OBVIOUS

\* No request has begun and nothing is sent at the start.
LEMMA CommandInitially == CommandInit => CommandInv
<1> SUFFICES ASSUME CommandInit PROVE CommandInv
  OBVIOUS
<1>1. /\ req \in [Requests -> Request]
      /\ \A r \in Requests : /\ req[r].at = "idle" /\ req[r].kind = "none"
                             /\ req[r].n = 1 /\ req[r].said = "none"
  BY DEF CommandInit, Request
<1>2. CommandTyped
  BY <1>1 DEF CommandInit, CommandTyped
<1> QED
  BY <1>1, <1>2, Zenon DEF CommandInit, CommandInv, Pings, Addressed, AcksTrue, EntryOrDone

\* A request's command is one of the table's.
LEMMA CmdType == ASSUME CommandTyped, NEW r \in Requests PROVE Cmd(r) \in Commands
BY Zenon DEF CommandTyped, Request, Cmd, Commands

\* What changing the fields of one request leaves of the requests.
LEMMA Changed ==
  ASSUME CommandTyped, NEW r \in Requests, NEW v \in Request, req' = [req EXCEPT ![r] = v]
  PROVE  /\ req' \in [Requests -> Request] /\ req'[r] = v
         /\ \A q \in Requests : q # r => req'[q] = req[q]
BY DEF CommandTyped

\* A request begins with its first command, which is not sent yet.
LEMMA BeginKeeps ==
  ASSUME CommandInv, NEW r \in Requests, NEW kind, NEW to, BeginCommand(r, kind, to),
         kind \in {"ping", "restart", "config", "config2", "broadcast ping"}, to \in SUBSET Taps,
         kind = "ping" => \E t \in Taps : to = {t}
  PROVE  CommandInv'
<1> DEFINE v == [req[r] EXCEPT !.at = "send", !.kind = kind, !.to = to]
<1>1. /\ req[r].at = "idle" /\ req' = [req EXCEPT ![r] = v] /\ req[r] \in Request
      /\ UNCHANGED <<pending, channel, box, wire, acks, executed>>
  BY Zenon DEF BeginCommand, CommandInv, CommandTyped
<1>2. /\ v \in Request /\ v.at = "send" /\ v.kind = kind /\ v.to = to
      /\ v.n = req[r].n /\ v.said = req[r].said
  BY <1>1, Zenon DEF Request
<1> HIDE DEF v
<1>3. /\ req' \in [Requests -> Request] /\ req'[r] = v
      /\ \A q \in Requests : q # r => req'[q] = req[q]
  BY <1>1, <1>2, Changed, Zenon DEF CommandInv
<1>4. CommandTyped'
  BY <1>1, <1>3, Zenon DEF CommandInv, CommandTyped
<1>5. Pings'
  BY <1>1, <1>2, <1>3, Zenon DEF CommandInv, Pings
<1>6. Addressed'
  <2>1. req[r].n = 1 /\ req[r].at = "idle"
    BY <1>1, Zenon DEF CommandInv, Pings
  <2>3. \A n \in {1, 2} : ~Published(r, n)
    BY <2>1, StepsAreOrdered, Zenon DEF Published
  <2> QED
    BY <1>1, <1>3, <2>3 DEF CommandInv, Addressed, Published
<1>7. AcksTrue' /\ EntryOrDone'
  BY <1>1, <1>2, <1>3, Zenon DEF CommandInv, AcksTrue, EntryOrDone, Cmd, Pings
<1> QED
  BY <1>4, <1>5, <1>6, <1>7, Zenon DEF CommandInv

\* A request moves on with the same command: what was published stays so, its own entry
\* is there when it must be, and the others' are not touched.
LEMMA MoveKeeps ==
  ASSUME CommandInv, NEW r \in Requests, NEW v \in Request, req' = [req EXCEPT ![r] = v],
         UNCHANGED <<wire, acks, executed>>,
         v.kind = req[r].kind, v.to = req[r].to, v.n = req[r].n,
         v.at \notin {"idle", "wait"}, v.at \in {"waiting", "late"} => req[r].kind = "ping",
         v.said # "none" => v.at = "returned",
         req[r].at # "returned",
         req[r].at \in {"wait", "waiting", "late"} =>
           v.at \in {"waiting", "late", "returned"} /\ v.said # "failed",
         v.at = "publish" => Cmd(r) \in pending',
         v.said \in {"ok", "not found"} =>
           req[r].kind = "ping" /\ \E t \in Taps : <<Cmd(r), t>> \in executed,
         pending' \subseteq Commands, channel' \subseteq Commands,
         \A c \in pending : c # Cmd(r) => c \in pending',
         box' \in [Commands -> SUBSET Taps], \A c \in Commands : box'[c] \subseteq box[c]
  PROVE  CommandInv'
<1>1. /\ req' \in [Requests -> Request] /\ req'[r] = v
      /\ \A q \in Requests : q # r => req'[q] = req[q]
  BY Changed, Zenon DEF CommandInv
<1>2. CommandTyped'
  BY <1>1, Zenon DEF CommandInv, CommandTyped
<1>3. Pings'
  <2> SUFFICES ASSUME NEW q \in Requests
               PROVE  /\ req'[q].at = "idle" => req'[q].n = 1
                      /\ req'[q].kind = "ping" => req'[q].n = 1 /\ \E t \in Taps : req'[q].to = {t}
                      /\ req'[q].at \in {"wait", "waiting", "late"} => req'[q].kind = "ping"
                      /\ req'[q].said # "none" => req'[q].at = "returned"
                      /\ req'[q].said \in {"ok", "not found"} => req'[q].kind = "ping"
    BY Zenon DEF Pings
  <2>1. req[r].kind = "ping" => req[r].n = 1 /\ \E t \in Taps : req[r].to = {t}
    BY Zenon DEF CommandInv, Pings
  <2>2. CASE q = r
    BY <1>1, <2>1, <2>2, Zenon
  <2>3. CASE q # r
    BY <1>1, <2>3, Zenon DEF CommandInv, Pings
  <2> QED
    BY <2>2, <2>3, Zenon
<1>4. \A q \in Requests, n \in {1, 2} : Published(q, n) => Published(q, n)'
  <2>1. \A n \in {1, 2} : Published(r, n) => Published(r, n)'
    BY <1>1, Zenon DEF Published
  <2> QED
    BY <1>1, <2>1, Zenon DEF Published
<1>5. \A q \in Requests : req'[q].to = req[q].to
  BY <1>1, Zenon
<1>6. Addressed'
  BY <1>4, <1>5, Zenon DEF CommandInv, Addressed
<1>7. AcksTrue'
  BY Zenon DEF CommandInv, AcksTrue
<1>8. EntryOrDone'
  <2> SUFFICES ASSUME NEW q \in Requests
               PROVE  /\ req'[q].at = "publish" => Cmd(q)' \in pending'
                      /\ req'[q].at = "wait" =>
                           Cmd(q)' \in pending' \/ \E t \in Taps : <<Cmd(q)', t>> \in executed
                      /\ req'[q].said \in {"ok", "not found"} =>
                           \E t \in Taps : <<Cmd(q)', t>> \in executed
    BY Zenon DEF EntryOrDone
  <2>1. Cmd(q)' = Cmd(q)
    BY <1>1, Zenon DEF Cmd
  <2>2. CASE q = r
    BY <1>1, <2>1, <2>2, Zenon
  <2>3. CASE q # r
    <3>1. Cmd(q) # Cmd(r)
      BY <2>3, Zenon DEF Cmd
    <3> QED
      BY <1>1, <2>1, <2>3, <3>1, Zenon DEF CommandInv, EntryOrDone
  <2> QED
    BY <2>2, <2>3, Zenon
<1> QED
  BY <1>2, <1>3, <1>6, <1>7, <1>8, Zenon DEF CommandInv

\* The steps of a handler other than the publication are such moves.
LEMMA HandlerKeeps ==
  ASSUME CommandInv, NEW r \in Requests,
         \/ SendEnter(r) \/ CommandFails(r)
         \/ WaitEnter(r) \/ WaitAck(r) \/ WaitTimeout(r) \/ WaitDelete(r)
  PROVE  CommandInv'
<1>1. /\ CommandTyped /\ req[r] \in Request /\ Cmd(r) \in Commands
      /\ req[r].at \in {"wait", "waiting", "late"} => req[r].kind = "ping"
      /\ req[r].at # "returned" => req[r].said = "none"
      /\ pending \subseteq Commands /\ channel \subseteq Commands
      /\ box \in [Commands -> SUBSET Taps]
  BY CmdType, Zenon DEF CommandInv, CommandTyped, Pings
<1>2. CASE SendEnter(r)
  <2> DEFINE v == [req[r] EXCEPT !.at = "publish"]
  <2>1. /\ req[r].at = "send" /\ req' = [req EXCEPT ![r] = v] /\ pending' = pending \cup {Cmd(r)}
        /\ UNCHANGED <<channel, box, wire, acks, executed>>
    BY <1>2 DEF SendEnter, Goto
  <2>2. /\ v \in Request /\ v.at = "publish" /\ v.kind = req[r].kind /\ v.to = req[r].to
        /\ v.n = req[r].n /\ v.said = "none"
    BY <1>1, <2>1, Zenon DEF Request
  <2> HIDE DEF v
  <2> QED
    BY <1>1, <2>1, <2>2, MoveKeeps, Zenon
<1>3. CASE CommandFails(r)
  <2> DEFINE v == [req[r] EXCEPT !.at = "returned", !.said = "failed"]
  <2>1. /\ req[r].at = "publish" /\ req' = [req EXCEPT ![r] = v] /\ pending' = pending \ {Cmd(r)}
        /\ UNCHANGED <<channel, box, wire, acks, executed>>
    BY <1>1, <1>3, Zenon DEF CommandFails, Return, CommandTyped
  <2>2. /\ v \in Request /\ v.at = "returned" /\ v.kind = req[r].kind /\ v.to = req[r].to
        /\ v.n = req[r].n /\ v.said = "failed"
    BY <1>1, Zenon DEF Request
  <2> HIDE DEF v
  <2> QED
    BY <1>1, <2>1, <2>2, MoveKeeps, Zenon
<1>4. CASE WaitEnter(r) /\ Cmd(r) \in pending
  <2> DEFINE v == [req[r] EXCEPT !.at = "waiting"]
  <2>1. /\ req[r].at = "wait" /\ req' = [req EXCEPT ![r] = v] /\ channel' = channel \cup {Cmd(r)}
        /\ UNCHANGED <<pending, box, wire, acks, executed>>
    BY <1>4 DEF WaitEnter, Goto
  <2>2. /\ v \in Request /\ v.at = "waiting" /\ v.kind = req[r].kind /\ v.to = req[r].to
        /\ v.n = req[r].n /\ v.said = "none"
    BY <1>1, <2>1, Zenon DEF Request
  <2> HIDE DEF v
  <2> QED
    BY <1>1, <2>1, <2>2, MoveKeeps, Zenon
<1>5. CASE WaitEnter(r) /\ Cmd(r) \notin pending
  <2> DEFINE v == [req[r] EXCEPT !.at = "returned", !.said = "not found"]
  <2>1. /\ req[r].at = "wait" /\ req' = [req EXCEPT ![r] = v]
        /\ UNCHANGED <<pending, channel, box, wire, acks, executed>>
    BY <1>1, <1>5, Zenon DEF WaitEnter, Return, CommandTyped
  <2>2. /\ v \in Request /\ v.at = "returned" /\ v.kind = req[r].kind /\ v.to = req[r].to
        /\ v.n = req[r].n /\ v.said = "not found"
    BY <1>1, Zenon DEF Request
  <2>3. \E t \in Taps : <<Cmd(r), t>> \in executed
    BY <1>5, <2>1, Zenon DEF CommandInv, EntryOrDone
  <2> HIDE DEF v
  <2> QED
    BY <1>1, <2>1, <2>2, <2>3, MoveKeeps, Zenon
<1>6. CASE WaitAck(r)
  <2> DEFINE v == [req[r] EXCEPT !.at = "returned", !.said = "ok"]
  <2>1. /\ req[r].at = "waiting" /\ req' = [req EXCEPT ![r] = v] /\ box[Cmd(r)] # {}
        /\ box' = [box EXCEPT ![Cmd(r)] = {}]
        /\ UNCHANGED <<pending, channel, wire, acks, executed>>
    BY <1>1, <1>6, Zenon DEF WaitAck, Return, CommandTyped
  <2>2. /\ v \in Request /\ v.at = "returned" /\ v.kind = req[r].kind /\ v.to = req[r].to
        /\ v.n = req[r].n /\ v.said = "ok"
    BY <1>1, Zenon DEF Request
  <2>3. \E t \in Taps : <<Cmd(r), t>> \in executed
    BY <1>1, <2>1 DEF CommandInv, AcksTrue
  <2>4. box' \in [Commands -> SUBSET Taps] /\ \A c \in Commands : box'[c] \subseteq box[c]
    BY <1>1, <2>1
  <2> HIDE DEF v
  <2> QED
    BY <1>1, <2>1, <2>2, <2>3, <2>4, MoveKeeps, Zenon
<1>7. CASE WaitTimeout(r)
  <2> DEFINE v == [req[r] EXCEPT !.at = "late"]
  <2>1. /\ req[r].at = "waiting" /\ req' = [req EXCEPT ![r] = v]
        /\ UNCHANGED <<pending, channel, box, wire, acks, executed>>
    BY <1>7 DEF WaitTimeout, Goto
  <2>2. /\ v \in Request /\ v.at = "late" /\ v.kind = req[r].kind /\ v.to = req[r].to
        /\ v.n = req[r].n /\ v.said = "none"
    BY <1>1, <2>1, Zenon DEF Request
  <2> HIDE DEF v
  <2> QED
    BY <1>1, <2>1, <2>2, MoveKeeps, Zenon
<1>8. CASE WaitDelete(r)
  <2> DEFINE v == [req[r] EXCEPT !.at = "returned", !.said = "timeout"]
  <2>1. /\ req[r].at = "late" /\ req' = [req EXCEPT ![r] = v]
        /\ pending' = pending \ {Cmd(r)} /\ channel' = channel \ {Cmd(r)}
        /\ UNCHANGED <<box, wire, acks, executed>>
    BY <1>1, <1>8, Zenon DEF WaitDelete, Return, CommandTyped
  <2>2. /\ v \in Request /\ v.at = "returned" /\ v.kind = req[r].kind /\ v.to = req[r].to
        /\ v.n = req[r].n /\ v.said = "timeout"
    BY <1>1, Zenon DEF Request
  <2> HIDE DEF v
  <2> QED
    BY <1>1, <2>1, <2>2, MoveKeeps, Zenon
<1> QED
  BY <1>2, <1>3, <1>4, <1>5, <1>6, <1>7, <1>8

\* The publication reaches the addressed TAPs only.
LEMMA PublishKeeps == ASSUME CommandInv, NEW r \in Requests, SendPublish(r) PROVE CommandInv'
<1> DEFINE v == Sent(r)
<1>1. /\ req[r].at = "publish" /\ req' = [req EXCEPT ![r] = v]
      /\ wire' = wire \cup ({Cmd(r)} \X req[r].to)
      /\ UNCHANGED <<pending, channel, box, acks, executed>>
  BY DEF SendPublish
<1>2. /\ CommandTyped /\ req[r] \in Request /\ Cmd(r) \in Commands /\ Cmd(r) \in pending
      /\ req[r].said = "none"
      /\ req[r].kind = "ping" => req[r].n = 1 /\ \E t \in Taps : req[r].to = {t}
  BY <1>1, CmdType, Zenon DEF CommandInv, CommandTyped, Pings, EntryOrDone
<1>3. /\ v \in Request /\ v.kind = req[r].kind /\ v.to = req[r].to
      /\ \/ v.at = "wait" /\ v.n = req[r].n /\ v.said = "none" /\ req[r].kind = "ping"
         \/ v.at = "send" /\ v.n = 2 /\ v.said = "none" /\ req[r].kind = "config2" /\ req[r].n = 1
         \/ v.at = "returned" /\ v.n = req[r].n /\ v.said = "sent"
  BY <1>2, Zenon DEF Sent, Request
<1> HIDE DEF v
<1>4. /\ req' \in [Requests -> Request] /\ req'[r] = v
      /\ \A q \in Requests : q # r => req'[q] = req[q]
  BY <1>1, <1>2, <1>3, Changed, Zenon
<1>5. CommandTyped'
  BY <1>1, <1>2, <1>4, Zenon DEF CommandTyped, Request
<1>6. Pings'
  <2> SUFFICES ASSUME NEW q \in Requests
               PROVE  /\ req'[q].at = "idle" => req'[q].n = 1
                      /\ req'[q].kind = "ping" => req'[q].n = 1 /\ \E t \in Taps : req'[q].to = {t}
                      /\ req'[q].at \in {"wait", "waiting", "late"} => req'[q].kind = "ping"
                      /\ req'[q].said # "none" => req'[q].at = "returned"
                      /\ req'[q].said \in {"ok", "not found"} => req'[q].kind = "ping"
    BY Zenon DEF Pings
  <2>1. CASE q = r
    BY <1>2, <1>3, <1>4, <2>1, Zenon
  <2>2. CASE q # r
    BY <1>4, <2>2, Zenon DEF CommandInv, Pings
  <2> QED
    BY <2>1, <2>2, Zenon
<1>7. \A q \in Requests, n \in {1, 2} :
        /\ Published(q, n) => Published(q, n)'
        /\ q = r /\ n = req[r].n => Published(q, n)'
  <2>1. req[r].n \in {1, 2}
    BY <1>2, Zenon DEF Request
  <2>2. \A n \in {1, 2} : /\ Published(r, n) => Published(r, n)'
                          /\ n = req[r].n => Published(r, n)'
    BY <1>1, <1>3, <1>4, <2>1, StepsAreOrdered DEF Published
  <2> QED
    BY <1>4, <2>2 DEF Published
<1>8. Addressed'
  <2> SUFFICES ASSUME NEW q \in Requests, NEW n \in {1, 2}, NEW t \in Taps,
                      <<<<q, n>>, t>> \in wire' \cup executed
               PROVE  Published(q, n)' /\ t \in req'[q].to
    BY <1>1 DEF Addressed
  <2>1. req'[q].to = req[q].to
    BY <1>3, <1>4
  <2>2. CASE <<<<q, n>>, t>> \in wire \cup executed
    BY <1>7, <2>1, <2>2 DEF CommandInv, Addressed
  <2>3. CASE <<<<q, n>>, t>> \in {Cmd(r)} \X req[r].to
    BY <1>7, <2>1, <2>3 DEF Cmd
  <2> QED
    BY <1>1, <2>2, <2>3
<1>9. AcksTrue'
  BY <1>1 DEF CommandInv, AcksTrue
<1>10. EntryOrDone'
  <2> SUFFICES ASSUME NEW q \in Requests
               PROVE  /\ req'[q].at = "publish" => Cmd(q)' \in pending
                      /\ req'[q].at = "wait" =>
                           Cmd(q)' \in pending \/ \E t \in Taps : <<Cmd(q)', t>> \in executed
                      /\ req'[q].said \in {"ok", "not found"} =>
                           \E t \in Taps : <<Cmd(q)', t>> \in executed
    BY <1>1, Zenon DEF EntryOrDone
  <2>1. CASE q = r
    <3>1. req'[r].n = req[r].n => Cmd(r)' = Cmd(r)
      BY DEF Cmd
    <3> QED
      BY <1>2, <1>3, <1>4, <2>1, <3>1, Zenon
  <2>2. CASE q # r
    <3>1. Cmd(q)' = Cmd(q)
      BY <1>4, <2>2 DEF Cmd
    <3> QED
      BY <1>4, <2>2, <3>1, Zenon DEF CommandInv, EntryOrDone
  <2> QED
    BY <2>1, <2>2, Zenon
<1> QED
  BY <1>5, <1>6, <1>8, <1>9, <1>10 DEF CommandInv

\* The TAPs and the network carry out what is on its way; an entry goes only when its
\* command was carried out or its request is past it.
LEMMA OutsideKeeps ==
  ASSUME CommandInv, UNCHANGED req,
         wire' \subseteq wire, executed \subseteq executed', executed' \subseteq executed \cup wire,
         acks' \subseteq executed', pending' \subseteq pending, channel' \subseteq channel,
         box' \in [Commands -> SUBSET Taps],
         \A c \in Commands : \A t \in box'[c] : <<c, t>> \in executed',
         \A c \in pending \ pending' : Old(c) \/ \E t \in Taps : <<c, t>> \in executed'
  PROVE  CommandInv'
<1>1. CommandTyped'
  BY DEF CommandInv, CommandTyped
<1>2. Pings'
  BY Zenon DEF CommandInv, Pings
<1>3. Addressed'
  BY DEF CommandInv, Addressed, Published
<1>4. AcksTrue'
  BY DEF AcksTrue
<1>5. EntryOrDone'
  <2> SUFFICES ASSUME NEW q \in Requests
               PROVE  /\ req[q].at = "publish" => Cmd(q) \in pending'
                      /\ req[q].at = "wait" =>
                           Cmd(q) \in pending' \/ \E t \in Taps : <<Cmd(q), t>> \in executed'
                      /\ req[q].said \in {"ok", "not found"} =>
                           \E t \in Taps : <<Cmd(q), t>> \in executed'
    BY Zenon DEF EntryOrDone, Cmd
  <2>1. req[q].n \in {1, 2} /\ Cmd(q) = <<q, req[q].n>> /\ Cmd(q) \in Commands
    BY CmdType, Zenon DEF CommandInv, CommandTyped, Request, Cmd
  <2>2. Old(Cmd(q)) => req[q].at = "returned"
    BY <2>1 DEF Old
  <2>3. \A t \in Taps : <<Cmd(q), t>> \in executed' => req[q].at # "publish"
    BY <2>1 DEF CommandInv, Addressed, Published
  <2> QED
    BY <2>2, <2>3, Zenon DEF CommandInv, EntryOrDone
<1> QED
  BY <1>1, <1>2, <1>3, <1>4, <1>5 DEF CommandInv

\* Every step keeps the inductive invariant.
LEMMA CommandKeeps == CommandInv /\ [CommandNext]_commandVars => CommandInv'
<1> SUFFICES ASSUME CommandInv, [CommandNext]_commandVars PROVE CommandInv'
  OBVIOUS
<1>0. /\ pending \subseteq Commands /\ channel \subseteq Commands
      /\ box \in [Commands -> SUBSET Taps] /\ acks \subseteq executed
      /\ \A c \in Commands : \A t \in box[c] : <<c, t>> \in executed
  BY DEF CommandInv, CommandTyped, AcksTrue
<1>1. ASSUME NEW r \in Requests, handleTapCommand(r) \/ handleTapConfig(r) \/ handleBroadcast(r)
      PROVE  CommandInv'
  <2>1. ASSUME NEW t \in Taps, NEW kind \in {"ping", "restart", "config", "config2"},
               BeginCommand(r, kind, {t})
        PROVE  CommandInv'
    BY <2>1, BeginKeeps, Zenon
  <2>2. ASSUME NEW kind \in {"restart", "broadcast ping"}, BeginCommand(r, kind, Taps)
        PROVE  CommandInv'
    BY <2>2, BeginKeeps, Zenon
  <2> QED
    BY <1>1, <2>1, <2>2, Zenon DEF handleTapCommand, handleTapConfig, handleBroadcast
<1>2. ASSUME NEW r \in Requests, Handler(r) PROVE CommandInv'
  BY <1>2, HandlerKeeps, PublishKeeps DEF Handler
<1>3. ASSUME NEW c \in Commands, Evict(c) PROVE CommandInv'
  BY <1>0, <1>3, OutsideKeeps DEF Evict
<1>4. ASSUME NEW c \in Commands, NEW t \in Taps, HandleCommand(c, t) PROVE CommandInv'
  BY <1>0, <1>4, OutsideKeeps DEF HandleCommand
<1>5. ASSUME NEW c \in Commands, NEW t \in Taps, LoseMessage(c, t) PROVE CommandInv'
  BY <1>0, <1>5, OutsideKeeps DEF LoseMessage
<1>6. ASSUME NEW c \in Commands, NEW t \in Taps, handleCommandAck(c, t) PROVE CommandInv'
  <2>1. <<c, t>> \in executed
    BY <1>0, <1>6 DEF handleCommandAck
  <2>2. /\ box' \in [Commands -> SUBSET Taps]
        /\ \A d \in Commands : \A u \in box'[d] : <<d, u>> \in executed
    BY <1>0, <1>6, <2>1 DEF handleCommandAck, Notified
  <2> QED
    BY <1>0, <1>6, <2>1, <2>2, OutsideKeeps DEF handleCommandAck
<1>7. ASSUME NEW t \in Taps, TapStarts(t) PROVE CommandInv'
  BY <1>0, <1>7, OutsideKeeps DEF TapStarts
<1>8. CASE UNCHANGED commandVars
  BY <1>0, <1>8, OutsideKeeps DEF commandVars
<1> QED
  BY <1>1, <1>2, <1>3, <1>4, <1>5, <1>6, <1>7, <1>8 DEF CommandNext

\* The answers are true: a ping that came back and one whose entry was gone were carried
\* out by the TAP they were addressed to, a failed command by nobody.
LEMMA AnswerFollows == CommandInv => AnswerTrue
<1> SUFFICES ASSUME CommandInv, NEW r \in Requests
             PROVE  LET by == {t \in Taps : <<Cmd(r), t>> \in executed} IN
                    /\ req[r].said \in {"ok", "not found"} => by = req[r].to
                    /\ req[r].said = "failed" => by = {}
  BY Zenon DEF AnswerTrue
<1>1. req[r].n \in {1, 2} /\ Cmd(r) = <<r, req[r].n>>
  BY Zenon DEF CommandInv, CommandTyped, Request, Cmd
<1>2. \A t \in Taps : <<Cmd(r), t>> \in executed => Published(r, req[r].n) /\ t \in req[r].to
  BY <1>1 DEF CommandInv, Addressed
<1>3. ASSUME req[r].said \in {"ok", "not found"}
      PROVE  {t \in Taps : <<Cmd(r), t>> \in executed} = req[r].to
  <2>1. \E t \in Taps : req[r].to = {t}
    BY <1>3, Zenon DEF CommandInv, Pings
  <2>2. \E t \in Taps : <<Cmd(r), t>> \in executed
    BY <1>3, Zenon DEF CommandInv, EntryOrDone
  <2> QED
    BY <1>2, <2>1, <2>2
<1>4. ~(req[r].n < req[r].n)
  BY <1>1, StepsAreOrdered
<1>5. ASSUME req[r].said = "failed"
      PROVE  {t \in Taps : <<Cmd(r), t>> \in executed} = {}
  BY <1>2, <1>4, <1>5 DEF Published
<1> QED
  BY <1>3, <1>5, Zenon

\* What the API answers to a request is what happened at the TAPs, whatever is lost,
\* overtaken, restarted or evicted (sendCommand, WaitForAck, handleCommandAck).
THEOREM AnswersTrue == CommandSpec => []AnswerTrue
<1>1. CommandInv /\ [CommandNext]_commandVars => CommandInv'
  BY CommandKeeps
<1> QED
  BY CommandInitially, <1>1, AnswerFollows, PTL DEF CommandSpec

IsSeq(s) == \E S : s \in Seq(S)
Busy(h) == intake[h].at # "idle"
Enriched(h) == intake[h].at \in {"position", "operator", "store"}

\* A handler's detection has the fields its step works with.
IntakeOK(h) ==
  /\ intake[h].at \in {"idle", "filter", "position", "operator", "store"}
  /\ intake[h].at = "idle" => intake[h] = Idle
  /\ Busy(h) => intake[h].msg \in Messages
  /\ Enriched(h) =>
       intake[h] = [at |-> intake[h].at, msg |-> intake[h].msg, pos |-> intake[h].pos,
                    op |-> intake[h].op, id |-> intake[h].id, serial |-> intake[h].serial,
                    tap |-> intake[h].tap]

IntakeTyped ==
  /\ second \in Nat
  /\ dedupCache \in [Messages -> Int]
  /\ \A f \in Messages : dedupCache[f] >= Never /\ dedupCache[f] <= second
  /\ intake = [h \in Receivers |-> intake[h]]
  /\ \A h \in Receivers : IntakeOK(h)
  /\ IsSeq(entered)
  /\ \A i \in 1..Len(entered) : entered[i].at \in Nat /\ entered[i].at <= second

\* A message being handled was marked this second, for one handler.
Marked ==
  /\ \A h \in Receivers : Busy(h) => dedupCache[intake[h].msg] = second
  /\ \A h, g \in Receivers : Busy(h) /\ Busy(g) /\ intake[h].msg = intake[g].msg => h = g

\* The entry of a message is that of its last entrance or of a later delivery; without
\* an entry the window is over.
Remembered ==
  \A i \in 1..Len(entered), f \in Messages : entered[i].n = f.n =>
    /\ dedupCache[f] = Never => second - entered[i].at > DedupWindow
    /\ dedupCache[f] # Never =>
         dedupCache[f] = entered[i].at \/ dedupCache[f] - entered[i].at > DedupWindow
    /\ \A h \in Receivers : Busy(h) /\ intake[h].msg = f =>
         dedupCache[f] - entered[i].at > DedupWindow

OnceInv == IntakeTyped /\ Marked /\ Remembered /\ EnteredOnce

-----------------------------------------------------------------------------
\* What Append does to any sequence.
LEMMA Appended ==
  ASSUME NEW s, NEW x, IsSeq(s)
  PROVE  /\ IsSeq(Append(s, x))
         /\ Len(s) \in Nat /\ Len(Append(s, x)) = Len(s) + 1
         /\ \A i \in 1..Len(s) : Append(s, x)[i] = s[i]
         /\ Append(s, x)[Len(s) + 1] = x
<1>1. PICK S : s \in Seq(S)
  BY DEF IsSeq
<1>2. s \in Seq(S \cup {x})
  BY <1>1
<1>3. Append(s, x) \in Seq(S \cup {x})
  BY <1>2
<1>4. IsSeq(Append(s, x))
  BY <1>3 DEF IsSeq
<1> QED
  BY <1>2, <1>4

\* Nothing is marked, handled or entered at the start.
LEMMA IntakeInitially == IntakeInit => OnceInv
<1> SUFFICES ASSUME IntakeInit PROVE OnceInv
  OBVIOUS
<1>1. entered \in Seq({}) /\ Len(entered) = 0
  BY DEF IntakeInit
<1>2. \A h \in Receivers : intake[h] = Idle
  BY DEF IntakeInit
<1>3. IntakeTyped
  BY <1>1, <1>2 DEF IsSeq, IntakeInit, IntakeTyped, IntakeOK, Busy, Enriched, Idle, Never
<1> QED
  BY <1>1, <1>2, <1>3 DEF OnceInv, Marked, Remembered, EnteredOnce, Busy, Idle

\* A delivery of a marked message changes nothing; another is marked now, when nobody
\* handles it and its window is over.
LEMMA DedupKeeps ==
  ASSUME DedupWindow \in Nat, \A f, g \in Messages : f.n = g.n => f = g,
         OnceInv, NEW h \in Receivers, NEW f \in Messages, Dedup(h, f)
  PROVE  OnceInv'
<1>1. UNCHANGED <<entered, second>> /\ intake[h] = Idle
  BY Zenon DEF Dedup
<1>2. CASE UNCHANGED <<dedupCache, intake>>
  BY <1>1, <1>2 DEF OnceInv, IntakeTyped, IntakeOK, Marked, Remembered, EnteredOnce, Busy,
      Enriched
<1>3. CASE /\ dedupCache[f] = Never
           /\ dedupCache' = [dedupCache EXCEPT ![f] = second]
           /\ intake' = [intake EXCEPT ![h] = [at |-> "filter", msg |-> f]]
  <2>1. /\ intake'[h] = [at |-> "filter", msg |-> f]
        /\ \A g \in Receivers : g # h => intake'[g] = intake[g]
        /\ intake' = [g \in Receivers |-> intake'[g]]
    BY <1>3, Zenon DEF OnceInv, IntakeTyped
  <2>2. /\ dedupCache' \in [Messages -> Int] /\ dedupCache'[f] = second
        /\ \A g \in Messages : g # f => dedupCache'[g] = dedupCache[g]
    BY <1>3 DEF OnceInv, IntakeTyped
  <2>3. /\ second \in Nat /\ Never \in Int /\ second # Never
    BY DEF OnceInv, IntakeTyped, Never
  <2>4. \A g \in Receivers : Busy(g) => intake[g].msg # f
    BY <1>3, <2>3 DEF OnceInv, Marked
  <2>5. \A g \in Receivers : IntakeOK(g)'
    BY <2>1 DEF OnceInv, IntakeTyped, IntakeOK, Busy, Enriched
  <2>6. IntakeTyped'
    BY <1>1, <2>1, <2>2, <2>3, <2>5 DEF OnceInv, IntakeTyped, Never
  <2>7. Marked'
    <3>1. \A g \in Receivers : g # h /\ Busy(g)' =>
            /\ Busy(g) /\ intake'[g].msg = intake[g].msg /\ intake'[g].msg # f
            /\ dedupCache'[intake'[g].msg] = second
      BY <2>1, <2>2, <2>4 DEF OnceInv, IntakeTyped, IntakeOK, Marked, Busy
    <3>2. intake'[h].msg = f
      BY <2>1
    <3> QED
      BY <1>1, <2>2, <3>1, <3>2 DEF OnceInv, Marked
  <2>8. Remembered'
    <3> SUFFICES ASSUME NEW i \in 1..Len(entered), NEW g \in Messages, entered[i].n = g.n
                 PROVE  /\ dedupCache'[g] = Never => second - entered[i].at > DedupWindow
                        /\ dedupCache'[g] # Never =>
                             \/ dedupCache'[g] = entered[i].at
                             \/ dedupCache'[g] - entered[i].at > DedupWindow
                        /\ \A b \in Receivers : Busy(b)' /\ intake'[b].msg = g =>
                             dedupCache'[g] - entered[i].at > DedupWindow
      BY <1>1, Zenon DEF Remembered
    <3>1. CASE g = f
      BY <1>3, <2>2, <2>3, <3>1, Zenon DEF OnceInv, Remembered
    <3>2. CASE g # f
      BY <2>1, <2>2, <3>2 DEF OnceInv, Remembered, Busy
    <3> QED
      BY <3>1, <3>2, Zenon
  <2> QED
    BY <1>1, <2>6, <2>7, <2>8 DEF OnceInv, EnteredOnce
<1> QED
  BY <1>2, <1>3 DEF Dedup

\* An entry that is evicted is older than the window, so nobody handles its message.
LEMMA EvictKeeps == ASSUME DedupWindow \in Nat, OnceInv, EvictDedup PROVE OnceInv'
<1>1. UNCHANGED <<intake, entered, second>>
  BY DEF EvictDedup
<1>2. /\ dedupCache' \in [Messages -> Int]
      /\ \A f \in Messages : \/ dedupCache'[f] = dedupCache[f]
                             \/ /\ dedupCache'[f] = Never /\ dedupCache[f] # Never
                                /\ second - dedupCache[f] > DedupWindow
  BY DEF EvictDedup, Evictable, OnceInv, IntakeTyped, Never
<1>3. \A f \in Messages : dedupCache[f] \in Int /\ dedupCache[f] <= second /\ dedupCache[f] >= Never
  BY DEF OnceInv, IntakeTyped
<1>4. second \in Nat /\ \A i \in 1..Len(entered) : entered[i].at \in Nat
  BY Zenon DEF OnceInv, IntakeTyped
<1>5. IntakeTyped'
  BY <1>1, <1>2, <1>3, <1>4 DEF OnceInv, IntakeTyped, IntakeOK, Busy, Enriched, Never
<1>6. \A h \in Receivers : Busy(h) => dedupCache'[intake[h].msg] = dedupCache[intake[h].msg]
  <2> SUFFICES ASSUME NEW h \in Receivers, Busy(h)
               PROVE  dedupCache'[intake[h].msg] = dedupCache[intake[h].msg]
    OBVIOUS
  <2>1. intake[h].msg \in Messages /\ dedupCache[intake[h].msg] = second
    BY Zenon DEF OnceInv, IntakeTyped, IntakeOK, Marked
  <2> QED
    BY <1>2, <1>4, <2>1
<1>7. Marked'
  BY <1>1, <1>6, Zenon DEF OnceInv, Marked, Busy
<1>8. Remembered'
  <2> SUFFICES ASSUME NEW i \in 1..Len(entered), NEW f \in Messages, entered[i].n = f.n
               PROVE  /\ dedupCache'[f] = Never => second - entered[i].at > DedupWindow
                      /\ dedupCache'[f] # Never =>
                           \/ dedupCache'[f] = entered[i].at
                           \/ dedupCache'[f] - entered[i].at > DedupWindow
                      /\ \A h \in Receivers : Busy(h) /\ intake[h].msg = f =>
                           dedupCache'[f] - entered[i].at > DedupWindow
    BY <1>1 DEF Remembered, Busy
  <2>1. CASE dedupCache'[f] = dedupCache[f]
    BY <2>1 DEF OnceInv, Remembered
  <2>2. CASE dedupCache'[f] # dedupCache[f]
    <3>1. dedupCache'[f] = Never /\ dedupCache[f] # Never /\ second - dedupCache[f] > DedupWindow
      BY <1>2, <2>2
    <3>2. dedupCache[f] = entered[i].at \/ dedupCache[f] - entered[i].at > DedupWindow
      BY <3>1 DEF OnceInv, Remembered
    <3>3. \A h \in Receivers : Busy(h) => intake[h].msg # f
      BY <1>6, <2>2
    <3> QED
      BY <1>3, <1>4, <3>1, <3>2, <3>3
  <2> QED
    BY <2>1, <2>2, Zenon
<1> QED
  BY <1>1, <1>5, <1>7, <1>8 DEF OnceInv, EnteredOnce
\* A handler that goes on with its message, or drops it, marks and enters nothing.
LEMMA WorkKeeps ==
  ASSUME OnceInv, NEW h \in Receivers, UNCHANGED <<dedupCache, entered, second>>,
         \A g \in Receivers : g # h => intake'[g] = intake[g],
         intake' = [g \in Receivers |-> intake'[g]],
         IntakeOK(h)', Busy(h)' => Busy(h) /\ intake'[h].msg = intake[h].msg
  PROVE  OnceInv'
<1>1. \A g \in Receivers : Busy(g)' => Busy(g) /\ intake'[g].msg = intake[g].msg
  BY Zenon DEF Busy
<1>2. \A g \in Receivers : IntakeOK(g)'
  BY DEF OnceInv, IntakeTyped, IntakeOK, Busy, Enriched
<1>3. IntakeTyped'
  BY <1>2 DEF OnceInv, IntakeTyped
<1>4. Marked'
  BY <1>1, Zenon DEF OnceInv, Marked
<1>5. Remembered'
  BY <1>1 DEF OnceInv, Remembered
<1> QED
  BY <1>3, <1>4, <1>5 DEF OnceInv, EnteredOnce

\* What the steps between the check and the entrance do to the handler.
LEMMA EnrichIs ==
  ASSUME IntakeTyped, NEW h \in Receivers, Enrich(h)
  PROVE  /\ UNCHANGED <<dedupCache, located, entered, second>>
         /\ \A g \in Receivers : g # h => intake'[g] = intake[g]
         /\ intake' = [g \in Receivers |-> intake'[g]]
         /\ Busy(h) /\ intake[h].msg \in Messages
         /\ IntakeOK(h)' /\ (Busy(h)' => intake'[h].msg = intake[h].msg)
         /\ \/ intake'[h] = Idle
            \/ /\ intake'[h].at = "position" /\ intake'[h].msg = intake[h].msg
               /\ intake'[h].tap = "located" => intake[h].msg.tap \in located
<1> DEFINE f == intake[h].msg
           d == FromDJI(f, FromRemoteID(f, [pos |-> f.pos, op |-> f.op, serial |-> SSIDSerial(f)]))
           id == CleanIdentifier(f, d.serial)
           New(serial) == [at |-> "position", msg |-> f, pos |-> d.pos, op |-> d.op, id |-> id,
                           serial |-> serial,
                           tap |-> IF f.tap \in located THEN "located" ELSE "unknown"]
<1>1. \/ intake' = [intake EXCEPT ![h] = Idle]
      \/ \E serial \in CleanSerials(d.serial) : intake' = [intake EXCEPT ![h] = New(serial)]
  BY Zenon DEF Enrich
<1>2. intake[h].at = "filter" /\ UNCHANGED <<dedupCache, located, entered, second>>
  BY DEF Enrich
<1>3. Busy(h) /\ intake[h].msg \in Messages /\ intake = [g \in Receivers |-> intake[g]]
  BY <1>2 DEF IntakeTyped, IntakeOK, Busy
<1>4. CASE intake' = [intake EXCEPT ![h] = Idle]
  <2>1. intake'[h] = Idle
    BY <1>3, <1>4, Zenon
  <2>2. IntakeOK(h)' /\ ~Busy(h)'
    BY <2>1 DEF IntakeOK, Busy, Enriched, Idle
  <2> QED
    BY <1>2, <1>3, <1>4, <2>1, <2>2
<1>5. CASE \E serial \in CleanSerials(d.serial) : intake' = [intake EXCEPT ![h] = New(serial)]
  <2>1. PICK serial \in CleanSerials(d.serial) : intake' = [intake EXCEPT ![h] = New(serial)]
    BY <1>5, Zenon
  <2>2. /\ intake'[h] = New(serial)
        /\ \A g \in Receivers : g # h => intake'[g] = intake[g]
        /\ intake' = [g \in Receivers |-> intake'[g]]
    BY <1>3, <2>1, Zenon
  <2> HIDE DEF d, id
  <2>3. IntakeOK(h)' /\ intake'[h].msg = f
    BY <1>3, <2>2 DEF IntakeOK, Busy, Enriched
  <2>4. /\ intake'[h].at = "position"
        /\ intake'[h].tap = "located" => f.tap \in located
    BY <2>2
  <2> HIDE DEF New
  <2> QED
    BY <1>2, <1>3, <2>2, <2>3, <2>4, Zenon
<1> QED
  BY <1>1, <1>4, <1>5, Zenon

\* The position is kept when it is plausible, and dropped otherwise.
LEMMA ValidatePositionIs ==
  ASSUME IntakeTyped, NEW h \in Receivers, ValidatePosition(h)
  PROVE  /\ UNCHANGED <<dedupCache, located, entered, second>>
         /\ \A g \in Receivers : g # h => intake'[g] = intake[g]
         /\ intake' = [g \in Receivers |-> intake'[g]]
         /\ Busy(h) /\ intake[h].msg \in Messages /\ intake[h].at = "position"
         /\ IntakeOK(h)' /\ (Busy(h)' => intake'[h].msg = intake[h].msg)
         /\ intake'[h].at = "operator" /\ intake'[h].msg = intake[h].msg
         /\ intake'[h].tap = intake[h].tap
         /\ intake'[h].pos = Kept(intake[h].pos, intake[h].msg.tap)
<1> DEFINE r == intake[h]
           v == Kept(r.pos, r.msg.tap)
<1>1. /\ r.at = "position" /\ UNCHANGED <<dedupCache, located, entered, second>>
      /\ intake' = [intake EXCEPT ![h].at = "operator", ![h].pos = v]
  BY DEF ValidatePosition
<1>2. /\ Busy(h) /\ r.msg \in Messages /\ intake = [g \in Receivers |-> intake[g]]
      /\ r = [at |-> r.at, msg |-> r.msg, pos |-> r.pos, op |-> r.op, id |-> r.id,
              serial |-> r.serial, tap |-> r.tap]
  BY <1>1 DEF IntakeTyped, IntakeOK, Busy, Enriched
<1> HIDE DEF v
<1>3. /\ \A g \in Receivers : g # h => intake'[g] = intake[g]
      /\ intake' = [g \in Receivers |-> intake'[g]]
      /\ intake'[h] = [r EXCEPT !.at = "operator", !.pos = v]
  BY <1>1, <1>2
<1>4. intake'[h] = [at |-> "operator", msg |-> r.msg, pos |-> v, op |-> r.op, id |-> r.id,
                    serial |-> r.serial, tap |-> r.tap]
  BY <1>2, <1>3, Zenon
<1>5. IntakeOK(h)'
  BY <1>2, <1>4 DEF IntakeOK, Busy, Enriched
<1>6. /\ intake'[h].at = "operator" /\ intake'[h].msg = r.msg /\ intake'[h].tap = r.tap
      /\ intake'[h].pos = v /\ intake'[h].op = r.op
  BY <1>4
<1> QED
  BY <1>1, <1>2, <1>3, <1>5, <1>6 DEF v

\* The operator's position is kept when it agrees with the drone's, and dropped otherwise.
LEMMA ValidateOperatorIs ==
  ASSUME IntakeTyped, NEW h \in Receivers, ValidateOperator(h)
  PROVE  /\ UNCHANGED <<dedupCache, located, entered, second>>
         /\ \A g \in Receivers : g # h => intake'[g] = intake[g]
         /\ intake' = [g \in Receivers |-> intake'[g]]
         /\ Busy(h) /\ intake[h].msg \in Messages /\ intake[h].at = "operator"
         /\ IntakeOK(h)' /\ (Busy(h)' => intake'[h].msg = intake[h].msg)
         /\ intake'[h].at = "store" /\ intake'[h].msg = intake[h].msg
         /\ intake'[h].tap = intake[h].tap /\ intake'[h].pos = intake[h].pos
         /\ intake'[h].op =
              KeptOperator(intake[h].msg, intake[h].pos, Kept(intake[h].op, intake[h].msg.tap))
<1> DEFINE r == intake[h]
           v == KeptOperator(r.msg, r.pos, Kept(r.op, r.msg.tap))
<1>1. /\ r.at = "operator" /\ UNCHANGED <<dedupCache, located, entered, second>>
      /\ intake' = [intake EXCEPT ![h].at = "store", ![h].op = v]
  BY DEF ValidateOperator
<1>2. /\ Busy(h) /\ r.msg \in Messages /\ intake = [g \in Receivers |-> intake[g]]
      /\ r = [at |-> r.at, msg |-> r.msg, pos |-> r.pos, op |-> r.op, id |-> r.id,
              serial |-> r.serial, tap |-> r.tap]
  BY <1>1 DEF IntakeTyped, IntakeOK, Busy, Enriched
<1> HIDE DEF v
<1>3. /\ \A g \in Receivers : g # h => intake'[g] = intake[g]
      /\ intake' = [g \in Receivers |-> intake'[g]]
      /\ intake'[h] = [r EXCEPT !.at = "store", !.op = v]
  BY <1>1, <1>2
<1>4. intake'[h] = [at |-> "store", msg |-> r.msg, pos |-> r.pos, op |-> v, id |-> r.id,
                    serial |-> r.serial, tap |-> r.tap]
  BY <1>2, <1>3, Zenon
<1>5. IntakeOK(h)'
  BY <1>2, <1>4 DEF IntakeOK, Busy, Enriched
<1>6. /\ intake'[h].at = "store" /\ intake'[h].msg = r.msg /\ intake'[h].tap = r.tap
      /\ intake'[h].pos = r.pos /\ intake'[h].op = v
  BY <1>4
<1> QED
  BY <1>1, <1>2, <1>3, <1>5, <1>6 DEF v

\* The three steps that validate.
LEMMA HandlingKeeps ==
  ASSUME OnceInv, NEW h \in Receivers, Enrich(h) \/ ValidatePosition(h) \/ ValidateOperator(h)
  PROVE  OnceInv'
<1>1. IntakeTyped
  BY Zenon DEF OnceInv
<1>2. CASE Enrich(h)
  BY <1>1, <1>2, EnrichIs, WorkKeeps, Zenon
<1>3. CASE ValidatePosition(h)
  BY <1>1, <1>3, ValidatePositionIs, WorkKeeps, Zenon
<1>4. CASE ValidateOperator(h)
  BY <1>1, <1>4, ValidateOperatorIs, WorkKeeps, Zenon
<1> QED
  BY <1>2, <1>3, <1>4

\* What an entrance does.
LEMMA StoreIs ==
  ASSUME IntakeTyped, NEW h \in Receivers, Store(h)
  PROVE  /\ UNCHANGED <<dedupCache, located, second>>
         /\ intake[h].at = "store" /\ intake[h].msg \in Messages
         /\ intake'[h] = Idle /\ \A g \in Receivers : g # h => intake'[g] = intake[g]
         /\ intake' = [g \in Receivers |-> intake'[g]]
         /\ IsSeq(entered')
         /\ Len(entered) \in Nat /\ Len(entered') = Len(entered) + 1
         /\ \A i \in 1..Len(entered) : entered'[i] = entered[i]
         /\ LET d == entered'[Len(entered) + 1]
            IN /\ d.n = intake[h].msg.n /\ d.at = second
               /\ d.pos = intake[h].pos /\ d.op = intake[h].op /\ d.tap = intake[h].tap
               /\ d.kind = "controller" => ValidatedController(intake[h].msg)
<1> DEFINE k == IF ValidatedController(intake[h].msg) THEN "controller" ELSE "uav"
           x == [n |-> intake[h].msg.n, at |-> second, pos |-> intake[h].pos, op |-> intake[h].op,
                 id |-> intake[h].id, serial |-> intake[h].serial, tap |-> intake[h].tap,
                 kind |-> k]
<1>1. /\ UNCHANGED <<dedupCache, located, second>> /\ intake[h].at = "store"
      /\ intake' = [intake EXCEPT ![h] = Idle] /\ entered' = Append(entered, x)
  BY Zenon DEF Store
<1>2. /\ intake[h].msg \in Messages /\ intake = [g \in Receivers |-> intake[g]]
      /\ IsSeq(entered)
  BY <1>1 DEF IntakeTyped, IntakeOK, Busy
<1>3. k = "controller" => ValidatedController(intake[h].msg)
  BY Zenon
<1> HIDE DEF k
<1>4. /\ x.n = intake[h].msg.n /\ x.at = second /\ x.kind = k
      /\ x.pos = intake[h].pos /\ x.op = intake[h].op /\ x.tap = intake[h].tap
  OBVIOUS
<1> HIDE DEF x
<1>5. /\ IsSeq(entered')
      /\ Len(entered) \in Nat /\ Len(entered') = Len(entered) + 1
      /\ \A i \in 1..Len(entered) : entered'[i] = entered[i]
      /\ entered'[Len(entered) + 1] = x
  BY <1>1, <1>2, Appended
<1>6. /\ intake'[h] = Idle /\ \A g \in Receivers : g # h => intake'[g] = intake[g]
      /\ intake' = [g \in Receivers |-> intake'[g]]
  BY <1>1, <1>2, Zenon
<1> QED
  BY <1>1, <1>2, <1>3, <1>4, <1>5, <1>6, Zenon

\* A message is entered in the second it was marked, which is past the window of every
\* earlier entrance.
LEMMA StoreKeeps ==
  ASSUME DedupWindow \in Nat, \A f, g \in Messages : f.n = g.n => f = g,
         OnceInv, NEW h \in Receivers, Store(h)
  PROVE  OnceInv'
<1> DEFINE f == intake[h].msg
           len == Len(entered)
<1>1. IntakeTyped
  BY DEF OnceInv
<1>2. /\ UNCHANGED <<dedupCache, second>> /\ second \in Nat
      /\ f \in Messages /\ Busy(h) /\ dedupCache[f] = second
  BY <1>1, StoreIs, Zenon DEF OnceInv, IntakeTyped, Marked, Busy
<1>3. /\ intake'[h] = Idle /\ \A g \in Receivers : g # h => intake'[g] = intake[g]
      /\ intake' = [g \in Receivers |-> intake'[g]]
  BY <1>1, StoreIs, Zenon
<1>4. /\ IsSeq(entered')
      /\ len \in Nat /\ Len(entered') = len + 1
      /\ \A i \in 1..len : entered'[i] = entered[i]
      /\ entered'[len + 1].n = f.n /\ entered'[len + 1].at = second
  BY <1>1, StoreIs, Zenon
<1>5. \A g \in Receivers : /\ IntakeOK(g)'
                           /\ Busy(g)' => /\ g # h /\ Busy(g) /\ intake'[g].msg = intake[g].msg
                                          /\ intake[g].msg # f
  BY <1>1, <1>2, <1>3 DEF IntakeTyped, IntakeOK, OnceInv, Marked, Busy, Enriched, Idle
<1>6. \A i \in 1..Len(entered') : i \in 1..len \/ i = len + 1
  BY <1>4
<1>7. IntakeTyped'
  BY <1>1, <1>2, <1>3, <1>4, <1>5, <1>6, Zenon DEF IntakeTyped
<1>8. Marked'
  BY <1>2, <1>5, Zenon DEF OnceInv, Marked
<1>9. Remembered'
  <2> SUFFICES ASSUME NEW i \in 1..Len(entered'), NEW g \in Messages, entered'[i].n = g.n
               PROVE  /\ dedupCache[g] = Never => second - entered'[i].at > DedupWindow
                      /\ dedupCache[g] # Never =>
                           \/ dedupCache[g] = entered'[i].at
                           \/ dedupCache[g] - entered'[i].at > DedupWindow
                      /\ \A b \in Receivers : Busy(b)' /\ intake'[b].msg = g =>
                           dedupCache[g] - entered'[i].at > DedupWindow
    BY <1>2, Zenon DEF Remembered
  <2>1. CASE i \in 1..len
    BY <1>4, <1>5, <2>1, Zenon DEF OnceInv, Remembered
  <2>2. CASE i = len + 1
    <3>1. g = f /\ entered'[i].at = second
      BY <1>2, <1>4, <2>2
    <3> QED
      BY <1>2, <1>5, <3>1 DEF Never
  <2> QED
    BY <1>6, <2>1, <2>2, Zenon
<1>10. EnteredOnce'
  <2> SUFFICES ASSUME NEW i \in 1..Len(entered'), NEW j \in 1..Len(entered'), i < j,
                      entered'[i].n = entered'[j].n
               PROVE  entered'[j].at - entered'[i].at > DedupWindow
    BY Zenon DEF EnteredOnce
  <2>1. CASE j \in 1..len
    BY <1>4, <2>1 DEF OnceInv, EnteredOnce
  <2>2. CASE j = len + 1
    <3>1. i \in 1..len /\ entered'[i] = entered[i]
      BY <1>4, <2>2
    <3>2. dedupCache[f] - entered[i].at > DedupWindow
      BY <1>2, <1>4, <2>2, <3>1, Zenon DEF OnceInv, Remembered
    <3> QED
      BY <1>2, <1>4, <2>2, <3>1, <3>2, Zenon
  <2> QED
    BY <1>6, <2>1, <2>2
<1> QED
  BY <1>7, <1>8, <1>9, <1>10 DEF OnceInv

\* Time passes when nobody handles a message.
LEMMA TickKeeps == ASSUME DedupWindow \in Nat, OnceInv, SecondTick PROVE OnceInv'
<1>1. /\ UNCHANGED <<dedupCache, intake, entered>> /\ second \in Nat /\ second' = second + 1
      /\ \A h \in Receivers : ~Busy(h)
  BY DEF SecondTick, OnceInv, IntakeTyped, Busy, Idle
<1>2. /\ \A f \in Messages : dedupCache[f] \in Int
      /\ \A i \in 1..Len(entered) : entered[i].at \in Nat /\ entered[i].at <= second
  BY Zenon DEF OnceInv, IntakeTyped
<1>3. IntakeTyped'
  BY <1>1, <1>2 DEF OnceInv, IntakeTyped, IntakeOK, Busy, Enriched
<1>4. Marked'
  BY <1>1, Zenon DEF Marked, Busy
<1>5. Remembered'
  BY <1>1, <1>2 DEF OnceInv, Remembered, Busy
<1> QED
  BY <1>1, <1>3, <1>4, <1>5, Zenon DEF OnceInv, EnteredOnce

\* The cache and the handlers agree throughout.
LEMMA IntakeHolds == IntakeSpec => []OnceInv
<1>1. OnceInv /\ [IntakeNext]_intakeVars => OnceInv'
  <2> SUFFICES ASSUME OnceInv, [IntakeNext]_intakeVars PROVE OnceInv'
    OBVIOUS
  <2> USE IntakeAssumption
  <2>1. ASSUME UNCHANGED <<dedupCache, intake, entered, second>> PROVE OnceInv'
    BY <2>1 DEF OnceInv, IntakeTyped, IntakeOK, Marked, Remembered, EnteredOnce, Busy, Enriched
  <2>2. ASSUME NEW h \in Receivers, NEW f \in Messages, Dedup(h, f) PROVE OnceInv'
    BY <2>2, DedupKeeps
  <2>3. ASSUME NEW h \in Receivers,
               Enrich(h) \/ ValidatePosition(h) \/ ValidateOperator(h) \/ Store(h)
        PROVE  OnceInv'
    BY <2>3, HandlingKeeps, StoreKeeps
  <2>4. CASE EvictDedup \/ SecondTick
    BY <2>4, EvictKeeps, TickKeeps
  <2>5. CASE (\E f \in Messages : Locate(f.tap)) \/ UNCHANGED intakeVars
    BY <2>1, <2>5 DEF Locate, intakeVars
  <2> QED
    BY <2>2, <2>3, <2>4, <2>5, Zenon DEF IntakeNext
<1> QED
  BY IntakeInitially, <1>1, PTL DEF IntakeSpec

\* handleDetection and the ticker that evicts (nats.go): a message is entered again only
\* when more than the window has passed, for any messages told apart by their key, any
\* number of handlers and deliveries, and any window.
THEOREM EntersOnce == IntakeSpec => []EnteredOnce
<1>1. OnceInv => EnteredOnce
  BY DEF OnceInv
<1> QED
  BY IntakeHolds, <1>1, PTL

-----------------------------------------------------------------------------
\* What the validation has established of a detection on its way: a position that
\* passed is plausible, and an operator's agrees with it.
Validated(h) ==
  /\ Enriched(h) /\ intake[h].tap = "located" => intake[h].msg.tap \in located
  /\ intake[h].at \in {"operator", "store"} =>
       intake[h].pos # "wild" /\ (intake[h].tap = "located" => intake[h].pos # "far")
  /\ intake[h].at = "store" =>
       /\ intake[h].op # "wild" /\ (intake[h].tap = "located" => intake[h].op # "far")
       /\ intake[h].pos # "none" /\ intake[h].op # "none" =>
            intake[h].pos # intake[h].op /\ ~Over50km(intake[h].pos, intake[h].op)
       /\ ValidatedController(intake[h].msg) /\ intake[h].pos = "none" => intake[h].op = "none"

AllValidated == \A h \in Receivers : Validated(h)

\* A position that is kept is valid, and near a TAP whose position is known.
LEMMA KeptIs ==
  ASSUME NEW pos, NEW tap
  PROVE  Kept(pos, tap) # "wild" /\ (tap \in located => Kept(pos, tap) # "far")
BY DEF Kept, Implausible

\* An operator's position that is kept agrees with the drone's.
LEMMA KeptOperatorIs ==
  ASSUME NEW f, NEW pos, NEW op
  PROVE  /\ KeptOperator(f, pos, op) \in {op, "none"}
         /\ pos # "none" /\ KeptOperator(f, pos, op) # "none" =>
              pos # KeptOperator(f, pos, op) /\ ~Over50km(pos, KeptOperator(f, pos, op))
         /\ ValidatedController(f) /\ pos = "none" => KeptOperator(f, pos, op) = "none"
BY DEF KeptOperator

\* A handler that is not involved stays validated, since no TAP loses its position.
LEMMA OthersValidated ==
  ASSUME NEW h \in Receivers, Validated(h), intake'[h] = intake[h], located \subseteq located'
  PROVE  Validated(h)'
BY Zenon DEF Validated, Enriched

\* Each step of the validation establishes its part.
LEMMA HandlingValidates ==
  ASSUME IntakeTyped, AllValidated, EnteredPlausible, NEW h \in Receivers,
         Enrich(h) \/ ValidatePosition(h) \/ ValidateOperator(h)
  PROVE  AllValidated' /\ EnteredPlausible'
<1>1. /\ UNCHANGED <<located, entered>>
      /\ \A g \in Receivers : g # h => intake'[g] = intake[g]
  BY EnrichIs, ValidatePositionIs, ValidateOperatorIs
<1>2. Validated(h)'
  <2>1. CASE Enrich(h)
    <3>1. CASE intake'[h] = Idle
      BY <3>1 DEF Validated, Enriched, Idle
    <3>2. CASE intake'[h] # Idle
      <4>1. /\ intake'[h].at = "position" /\ intake'[h].msg = intake[h].msg
            /\ intake'[h].tap = "located" => intake[h].msg.tap \in located
        BY <2>1, <3>2, EnrichIs, Zenon
      <4> QED
        BY <1>1, <4>1, Zenon DEF Validated, Enriched
    <3> QED
      BY <3>1, <3>2, Zenon
  <2>2. CASE ValidatePosition(h)
    <3>1. /\ intake'[h].at = "operator" /\ intake'[h].msg = intake[h].msg
          /\ intake'[h].tap = intake[h].tap
          /\ intake'[h].pos = Kept(intake[h].pos, intake[h].msg.tap)
          /\ intake[h].at = "position"
      BY <2>2, ValidatePositionIs, Zenon
    <3>2. intake[h].tap = "located" => intake[h].msg.tap \in located
      BY <3>1, Zenon DEF AllValidated, Validated, Enriched
    <3> QED
      BY <1>1, <3>1, <3>2, KeptIs, Zenon DEF Validated, Enriched
  <2>3. CASE ValidateOperator(h)
    <3> DEFINE op == Kept(intake[h].op, intake[h].msg.tap)
    <3>1. /\ intake'[h].at = "store" /\ intake'[h].msg = intake[h].msg
          /\ intake'[h].tap = intake[h].tap /\ intake'[h].pos = intake[h].pos
          /\ intake'[h].op = KeptOperator(intake[h].msg, intake[h].pos, op)
          /\ intake[h].at = "operator"
      BY <2>3, ValidateOperatorIs
    <3>2. /\ intake[h].tap = "located" => intake[h].msg.tap \in located
          /\ intake[h].pos # "wild" /\ (intake[h].tap = "located" => intake[h].pos # "far")
      BY <3>1, Zenon DEF AllValidated, Validated, Enriched
    <3>3. op # "wild" /\ (intake[h].tap = "located" => op # "far")
      BY <3>2, KeptIs, Zenon
    <3> HIDE DEF op
    <3>4. intake'[h].op # "wild" /\ (intake[h].tap = "located" => intake'[h].op # "far")
      BY <3>1, <3>3, KeptOperatorIs, Zenon
    <3> QED
      BY <1>1, <3>1, <3>2, <3>4, KeptOperatorIs, Zenon DEF Validated, Enriched
  <2> QED
    BY <2>1, <2>2, <2>3
<1>3. AllValidated'
  BY <1>1, <1>2, OthersValidated, Zenon DEF AllValidated
<1> QED
  BY <1>1, <1>3, Zenon DEF EnteredPlausible

\* What is entered was validated.
LEMMA StoreValidates ==
  ASSUME IntakeTyped, AllValidated, EnteredPlausible, NEW h \in Receivers, Store(h)
  PROVE  AllValidated' /\ EnteredPlausible'
<1>1. /\ UNCHANGED located /\ intake'[h] = Idle
      /\ \A g \in Receivers : g # h => intake'[g] = intake[g]
  BY StoreIs, Zenon
<1>2. Validated(h)'
  BY <1>1 DEF Validated, Enriched, Idle
<1>3. AllValidated'
  BY <1>1, <1>2, OthersValidated, Zenon DEF AllValidated
<1>4. EnteredPlausible'
  <2> DEFINE d == entered'[Len(entered) + 1]
  <2>1. /\ Len(entered) \in Nat /\ Len(entered') = Len(entered) + 1
        /\ \A i \in 1..Len(entered) : entered'[i] = entered[i]
    BY StoreIs
  <2>2. /\ d.pos = intake[h].pos /\ d.op = intake[h].op /\ d.tap = intake[h].tap
        /\ d.kind = "controller" => ValidatedController(intake[h].msg)
        /\ intake[h].at = "store"
    BY StoreIs, Zenon
  <2>3. /\ "wild" \notin {d.pos, d.op}
        /\ d.tap = "located" => "far" \notin {d.pos, d.op}
        /\ "none" \notin {d.pos, d.op} => d.pos # d.op /\ ~Over50km(d.pos, d.op)
        /\ d.kind = "controller" /\ d.pos = "none" => d.op = "none"
    BY <2>2, Zenon DEF AllValidated, Validated
  <2>4. \A i \in 1..Len(entered') : i \in 1..Len(entered) \/ i = Len(entered) + 1
    BY <2>1
  <2> QED
    BY <2>1, <2>3, <2>4, Zenon DEF EnteredPlausible
<1> QED
  BY <1>3, <1>4, Zenon

\* handleDetection (nats.go): whichever source a position came from and whenever the
\* TAP's own arrives, every drone is entered with plausible positions, for any messages,
\* any number of handlers and any interleaving.
THEOREM EntersPlausible == IntakeSpec => []EnteredPlausible
<1>1. IntakeInit => AllValidated /\ EnteredPlausible
  <2> SUFFICES ASSUME IntakeInit PROVE AllValidated /\ EnteredPlausible
    OBVIOUS
  <2>1. Len(entered) = 0 /\ \A h \in Receivers : intake[h].at = "idle"
    BY Zenon DEF IntakeInit, Idle
  <2> QED
    BY <2>1 DEF AllValidated, Validated, Enriched, EnteredPlausible
<1>2. IntakeTyped /\ AllValidated /\ EnteredPlausible /\ [IntakeNext]_intakeVars
        => AllValidated' /\ EnteredPlausible'
  <2> SUFFICES ASSUME IntakeTyped, AllValidated, EnteredPlausible, [IntakeNext]_intakeVars
               PROVE  AllValidated' /\ EnteredPlausible'
    BY Zenon
  <2>1. ASSUME UNCHANGED <<intake, entered>>, located \subseteq located'
        PROVE  AllValidated' /\ EnteredPlausible'
    BY <2>1, OthersValidated, Zenon DEF AllValidated, EnteredPlausible
  <2>2. ASSUME NEW h \in Receivers, NEW f \in Messages, Dedup(h, f)
        PROVE  AllValidated' /\ EnteredPlausible'
    <3>1. /\ UNCHANGED <<located, entered>>
          /\ \A g \in Receivers : \/ intake'[g] = intake[g]
                                  \/ intake'[g] = [at |-> "filter", msg |-> f]
      BY <2>2, Zenon DEF Dedup, IntakeTyped
    <3>2. \A g \in Receivers : intake'[g] = [at |-> "filter", msg |-> f] => Validated(g)'
      BY DEF Validated, Enriched
    <3> QED
      BY <3>1, <3>2, OthersValidated, Zenon DEF AllValidated, EnteredPlausible
  <2>3. ASSUME NEW h \in Receivers,
               Enrich(h) \/ ValidatePosition(h) \/ ValidateOperator(h) \/ Store(h)
        PROVE  AllValidated' /\ EnteredPlausible'
    BY <2>3, HandlingValidates, StoreValidates, Zenon
  <2>4. CASE EvictDedup \/ SecondTick \/ (\E f \in Messages : Locate(f.tap)) \/ UNCHANGED intakeVars
    BY <2>1, <2>4 DEF EvictDedup, SecondTick, Locate, intakeVars
  <2> QED
    BY <2>2, <2>3, <2>4 DEF IntakeNext
<1>3. OnceInv => IntakeTyped
  BY DEF OnceInv
<1> QED
  BY IntakeHolds, <1>1, <1>2, <1>3, PTL DEF IntakeSpec

\* handleDetection (nats.go): both of what an entry promises hold together.
THEOREM IntakeIsSound == IntakeSpec => []IntakeSound
BY EntersOnce, EntersPlausible, PTL DEF IntakeSound
=============================================================================
