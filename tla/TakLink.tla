------------------------------ MODULE TakLink ------------------------------
(***************************************************************************)
(* The output to a TAK server.  The client's loop dials, holds the         *)
(* connection and dials again when it is told to; the publisher's          *)
(* goroutine turns events into markers and writes them; the dashboard      *)
(* changes the address, connections break and dials fail at any moment.    *)
(***************************************************************************)
EXTENDS Naturals, Sequences, FiniteSets

CONSTANTS
  Addresses,   \* TAK servers
  Drones,
  Sockets,     \* numbers of the connections that may be open at once
  EventCap,    \* capacity of the publisher's channel (256)
  MaxEvents,   \* bound on changes of drones
  MaxConfigs,  \* bound on changes of the address
  MaxBreaks    \* bound on broken connections and failed dials

\* No socket is numbered like no connection, no server is called like no address.
ASSUME TakAssumption == 0 \notin Sockets /\ "none" \notin Addresses

VARIABLES
  address,   \* the client's configured address, None without one
  loop,      \* Client.Start: where it is
  dialing,   \* the address connect() read
  conn,      \* the client's connection, or NoConn
  open,      \* socket -> the server it is connected to, None when closed
  broken,    \* sockets on which a write fails
  signal,    \* reconnectCh holds a token
  stopped,   \* done is closed, or the context cancelled
  events,    \* the publisher's channel
  limited,   \* drones whose last marker is younger than the rate limit
  pub,       \* Publisher.handleEvent: where it is
  active,    \* drones that are not lost
  display,   \* server -> markers it shows
  gap,       \* history: drones of which an event did not reach the server
  forgotten, \* history: connections another connection's failing write cleared
  count      \* changes and faults so far

takVars == <<address, loop, dialing, conn, open, broken, signal, stopped, events,
             limited, pub, active, display, gap, forgotten, count>>
link == <<address, loop, dialing, conn, open, broken, signal, stopped>>

None == "none"
NoConn == 0
Idle == [at |-> "idle"]
Markers == Drones \X {"uav", "opr"}
Bounded(k, max) == count[k] < max /\ count' = [count EXCEPT ![k] = @ + 1]

-----------------------------------------------------------------------------
(* Client.                                                                 *)

\* The top of the loop: stop, wait for an address, or dial.
LoopTop ==
  /\ loop = "top"
  /\ loop' = IF stopped THEN "done" ELSE IF address = None THEN "unset" ELSE "dial"
  /\ conn' = IF stopped THEN NoConn ELSE conn
  /\ open' = IF stopped /\ conn # NoConn THEN [open EXCEPT ![conn] = None] ELSE open
  /\ dialing' = IF loop' = "dial" THEN address ELSE dialing
  /\ UNCHANGED <<address, broken, signal, stopped, events, limited, pub, active, display,
                 gap, forgotten, count>>

\* Numbers no closed or open connection still has a name for.
Free == {s \in Sockets : open[s] = None /\ s # conn /\ (pub.at = "write" => s # pub.socket)}

DialWorks ==
  /\ loop = "dial"
  /\ \E s \in Sockets :
       /\ s \in Free /\ \A t \in Free : s <= t
       /\ conn' = s
       /\ open' = [open EXCEPT ![s] = dialing]
       /\ broken' = broken \ {s}
  /\ loop' = "hold"
  /\ UNCHANGED <<address, dialing, signal, stopped, events, limited, pub, active, display,
                 gap, forgotten, count>>

DialFails ==
  /\ loop = "dial" /\ Bounded("faults", MaxBreaks)
  /\ loop' = "backoff"
  /\ UNCHANGED <<address, dialing, conn, open, broken, signal, stopped, events, limited,
                 pub, active, display, gap, forgotten>>

\* The waits without a connection: for an address, and after a failed dial.
Wait ==
  /\ \/ loop \in {"unset", "backoff"} /\ stopped /\ loop' = "done" /\ UNCHANGED signal
     \/ loop \in {"unset", "backoff"} /\ signal /\ loop' = "top" /\ signal' = FALSE
     \/ loop = "backoff" /\ loop' = "top" /\ UNCHANGED signal
  /\ UNCHANGED <<address, dialing, conn, open, broken, stopped, events, limited, pub,
                 active, display, gap, forgotten, count>>

Dropped_Kept == UNCHANGED <<conn, open>>

\* Client.close.
Dropped ==
  /\ conn' = NoConn
  /\ open' = IF conn = NoConn THEN open ELSE [open EXCEPT ![conn] = None]

\* Holding the connection until the end or a token.
Hold ==
  /\ loop = "hold"
  /\ \/ stopped /\ loop' = "done" /\ UNCHANGED signal
     \/ signal /\ loop' = "top" /\ signal' = FALSE
  /\ Dropped
  /\ UNCHANGED <<address, dialing, broken, stopped, events, limited, pub, active, display,
                 gap, forgotten, count>>

\* UpdateConfig: the address, then the token.
UpdateConfig(a) ==
  /\ a # address /\ Bounded("configs", MaxConfigs)
  /\ address' = a
  /\ signal' = TRUE
  /\ gap' = Drones
  /\ UNCHANGED <<loop, dialing, conn, open, broken, stopped, events, limited, pub, active,
                 display, forgotten>>

\* Publisher.Stop and Client.Stop.
Stop ==
  /\ ~stopped
  /\ stopped' = TRUE
  /\ Dropped
  /\ gap' = Drones
  /\ UNCHANGED <<address, loop, dialing, broken, signal, events, limited, pub, active,
                 display, forgotten, count>>

Break(s) ==
  /\ open[s] # None /\ s \notin broken /\ Bounded("faults", MaxBreaks)
  /\ broken' = broken \union {s}
  /\ UNCHANGED <<address, loop, dialing, conn, open, signal, stopped, events, limited, pub,
                 active, display, gap, forgotten>>

-----------------------------------------------------------------------------
(* Publisher.                                                              *)

\* The state manager offers an event; a full channel skips it.
Offer(d, type) ==
  /\ active' = IF type = "lost" THEN active \ {d} ELSE active \union {d}
  /\ IF Len(events) < EventCap THEN events' = Append(events, <<type, d>>) /\ UNCHANGED gap
     ELSE gap' = gap \union {d} /\ UNCHANGED events
  /\ UNCHANGED <<link, limited, pub, display, forgotten>>

Update(d) == Bounded("events", MaxEvents) /\ Offer(d, "update")
Lose(d) == d \in active /\ Bounded("events", MaxEvents) /\ Offer(d, "lost")

Begin(type, d, todo) == [at |-> "send", type |-> type, drone |-> d, todo |-> todo]

\* handleEvent up to its first Send.
HandleEvent ==
  LET type == Head(events)[1]  d == Head(events)[2] IN
  /\ pub = Idle /\ events # <<>>
  /\ events' = Tail(events)
  /\ IF conn = NoConn THEN gap' = gap \union {d} /\ UNCHANGED <<limited, pub>>
     ELSE /\ UNCHANGED gap
          /\ \/ type = "lost" /\ pub' = Begin("lost", d, <<"uav", "opr">>) /\ UNCHANGED limited
             \/ type = "update" /\ d \in limited /\ UNCHANGED <<limited, pub>>
             \/ /\ type = "update" /\ d \notin limited
                /\ limited' = limited \union {d}
                /\ \E todo \in {<<"uav">>, <<"uav", "opr">>} : pub' = Begin("update", d, todo)
  /\ UNCHANGED <<link, active, display, forgotten, count>>

Finished_Limited(p) == limited

\* A drone_lost takes the drone out of the rate limiter.
Finished(p) == IF p.type = "lost" THEN limited \ {p.drone} ELSE limited

\* Client.Send reads the connection ...
SendRead ==
  /\ pub.at = "send"
  /\ IF conn # NoConn
     THEN pub' = [at |-> "write", type |-> pub.type, drone |-> pub.drone, todo |-> pub.todo,
                  socket |-> conn] /\ UNCHANGED <<gap, limited>>
     ELSE /\ gap' = gap \union {pub.drone}
          /\ IF pub.type = "lost" /\ Len(pub.todo) > 1
             THEN pub' = [pub EXCEPT !.todo = Tail(@)] /\ UNCHANGED limited
             ELSE pub' = Idle /\ limited' = Finished(pub)
  /\ UNCHANGED <<link, events, active, display, forgotten, count>>

\* ... writes to it ...
SendWorks ==
  /\ pub.at = "write" /\ open[pub.socket] # None /\ pub.socket \notin broken
  /\ LET m == <<pub.drone, Head(pub.todo)>> IN
     display' = [display EXCEPT ![open[pub.socket]] =
                   IF pub.type = "lost" THEN @ \ {m} ELSE @ \union {m}]
  /\ IF Len(pub.todo) > 1
     THEN pub' = Begin(pub.type, pub.drone, Tail(pub.todo)) /\ UNCHANGED limited
     ELSE pub' = Idle /\ limited' = Finished(pub)
  /\ UNCHANGED <<link, events, active, gap, forgotten, count>>

\* ... and clears whatever connection is current when that fails, its own or not ...
SendFails ==
  /\ pub.at = "write" /\ (open[pub.socket] = None \/ pub.socket \in broken)
  /\ conn' = NoConn
  /\ open' = [open EXCEPT ![pub.socket] = None]
  /\ forgotten' = IF conn \in {NoConn, pub.socket} THEN forgotten ELSE forgotten \union {conn}
  /\ gap' = gap \union {pub.drone}
  /\ pub' = [pub EXCEPT !.at = "signal"]
  /\ UNCHANGED <<address, loop, dialing, broken, signal, stopped, events, limited, active,
                 display, count>>

Signalled_Never == signal

\* ... and then tells the loop.
Signalled == TRUE

SendSignal ==
  /\ pub.at = "signal"
  /\ signal' = Signalled
  /\ IF pub.type = "lost" /\ Len(pub.todo) > 1
     THEN pub' = Begin(pub.type, pub.drone, Tail(pub.todo)) /\ UNCHANGED limited
     ELSE pub' = Idle /\ limited' = Finished(pub)
  /\ UNCHANGED <<address, loop, dialing, conn, open, broken, stopped, events, active,
                 display, gap, forgotten, count>>

\* The rate limit of a drone is over, or its entry cleaned up.
LimitEnds(d) ==
  /\ d \in limited
  /\ limited' = limited \ {d}
  /\ UNCHANGED <<link, events, pub, active, display, gap, forgotten, count>>

-----------------------------------------------------------------------------
TakInit ==
  /\ address \in Addresses \union {None} /\ loop = "top" /\ dialing = None
  /\ conn = NoConn /\ open = [s \in Sockets |-> None] /\ broken = {}
  /\ signal = FALSE /\ stopped = FALSE
  /\ events = <<>> /\ limited = {} /\ pub = Idle
  /\ active = {} /\ display = [a \in Addresses |-> {}]
  /\ gap = {} /\ forgotten = {}
  /\ count = [configs |-> 0, faults |-> 0, events |-> 0]

Start == LoopTop \/ DialWorks \/ DialFails \/ Wait \/ Hold
Publish == HandleEvent \/ SendRead \/ SendWorks \/ SendFails \/ SendSignal

TakNext ==
  \/ Start \/ Publish \/ Stop
  \/ \E a \in Addresses : UpdateConfig(a)
  \/ \E s \in Sockets : Break(s)
  \/ \E d \in Drones : Update(d) \/ Lose(d) \/ LimitEnds(d)

\* Both goroutines are scheduled, and a write ends by its deadline; a dial that can
\* work for ever works in the end.
TakFairness == WF_takVars(Start) /\ WF_takVars(DialWorks) /\ WF_takVars(Publish)

TakSpec == TakInit /\ [][TakNext]_takVars /\ TakFairness

-----------------------------------------------------------------------------
\* Every connection that was opened is the client's or is closed again, however
\* dialling, config changes, failing writes and the shutdown interleave; only a
\* connection that the failure of an older one cleared is forgotten.
NoneLeft ==
  \A s \in Sockets : open[s] # None => s = conn \/ s \in forgotten

\* When the events are handled, a TAK server that missed none of a drone's events
\* shows it exactly when it is not lost: the rate limiter never hides a return, and a
\* lost drone's operator marker goes with it.
DisplayTrue ==
  events = <<>> /\ pub = Idle /\ conn # NoConn =>
    \A d \in Drones \ gap :
      /\ d \in active => \A a \in Addresses : a = open[conn] => <<d, "uav">> \in display[a]
      /\ d \notin active => \A a \in Addresses : a = open[conn] =>
                              {<<d, "uav">>, <<d, "opr">>} \intersect display[a] = {}

\* Once changes and faults are over, the client is connected to the configured
\* address, whatever tokens were merged or came from an older connection; after a
\* stop it has no connection.
Converges ==
  <>[](IF stopped THEN conn = NoConn
       ELSE IF address = None THEN conn = NoConn
       ELSE conn # NoConn /\ open[conn] = address)
=============================================================================
