---------------------------- MODULE Links_proofs ----------------------------
(***************************************************************************)
(* What the node's links to a TAK server and to NATS promise, for any      *)
(* number of servers, connections, drones, subscriptions and faults.       *)
(*                                                                         *)
(* No subscription is orphaned because only the one Start has not entered  *)
(* yet is missing in subs (HearingInv).  No connection is left because     *)
(* only a loop that holds one has one (LinkInv), and the display is true   *)
(* because of what is known of a drone between the offer of an event and   *)
(* its last marker: its last event in the channel, or else the one being   *)
(* handled, says whether it is active (Shows).                             *)
(***************************************************************************)
EXTENDS MCLinks, TLAPS

\* While Start has a subscription it has not entered, that one alone may be missing in
\* subs; otherwise subs has all.
HearingInv ==
  /\ starting = [at |-> starting.at, n |-> starting.n, sub |-> starting.sub]
  /\ starting.at # "enter" => valid \subseteq subs
  /\ NoneOrphaned

\* A refresh unsubscribes what subs has, and leaves in valid what is in subs.
LEMMA RefreshKeeps ==
  ASSUME HearingInv, RefreshSubscriptions, UNCHANGED starting
  PROVE  HearingInv'
<1>1. CASE /\ valid' = (valid \ subs) \union {NewSub(Subjects[i]) : i \in 1..3}
           /\ subs' = {NewSub(Subjects[i]) : i \in 1..3}
  BY <1>1 DEF HearingInv, NoneOrphaned
<1>2. ASSUME valid' = (valid \ subs) \union {}, UNCHANGED subs
      PROVE  HearingInv'
  BY <1>2 DEF HearingInv, NoneOrphaned
<1> QED
  BY <1>1, <1>2 DEF RefreshSubscriptions, Cleaned

\* Every step of Start, of the watchdog and of NATS keeps that.
LEMMA HearingKeeps == HearingInv /\ [HearingNext]_hearingVars => HearingInv'
<1> SUFFICES ASSUME HearingInv, [HearingNext]_hearingVars PROVE HearingInv'
  BY Zenon
<1>1. CASE Subscribe
  <2>1. starting.at = "subscribe" /\ valid \subseteq subs /\ UNCHANGED subs
    BY <1>1 DEF Subscribe, HearingInv
  <2>2. CASE Fault /\ starting' = [starting EXCEPT !.at = "failed"] /\ UNCHANGED <<valid, stale>>
    BY <2>1, <2>2 DEF HearingInv, NoneOrphaned
  <2>3. CASE \E s : /\ valid' = valid \union {s}
                    /\ starting' = [starting EXCEPT !.at = "enter", !.sub = s]
    <3>1. PICK s : /\ valid' = valid \union {s}
                   /\ starting' = [starting EXCEPT !.at = "enter", !.sub = s]
      BY <2>3, Zenon
    <3>2. starting'.at = "enter" /\ starting'.sub = s
      BY <3>1 DEF HearingInv
    <3> QED
      BY <2>1, <3>1, <3>2, Zenon DEF HearingInv, NoneOrphaned
  <2> QED
    BY <1>1, <2>2, <2>3, Zenon DEF Subscribe
<1>2. CASE Enter
  BY <1>2 DEF Enter, HearingInv, NoneOrphaned
<1>3. CASE Resume \/ TickRefresh
  BY <1>3, RefreshKeeps DEF Resume, TickRefresh
<1>4. CASE UNCHANGED <<starting, valid, subs>>
  BY <1>4 DEF HearingInv, NoneOrphaned
<1> QED
  BY <1>1, <1>2, <1>3, <1>4
  DEF HearingNext, LoseRoutes, handleHeartbeat, CleanupTaps, Watchdog, TickFlowing, TickSilent,
      TickPause, PauseEnds, hearingVars

\* Start and RefreshSubscriptions (nats.go): every subscription NATS delivers to is one the
\* node can unsubscribe, for any number of failures and refreshes.
LEMMA NoneIsOrphaned == HearingSpec => []NoneOrphaned
<1>1. HearingInit => HearingInv
  BY DEF HearingInit, HearingInv, NoneOrphaned
<1>2. HearingInv => NoneOrphaned
  BY Zenon DEF HearingInv
<1> QED
  BY HearingKeeps, <1>1, <1>2, PTL DEF HearingSpec

Todos == {<<"uav">>, <<"opr">>, <<"uav", "opr">>}
Event == {"update", "lost"} \X Drones

\* What the publisher's goroutine works on.
PubOK ==
  /\ pub.at \in {"idle", "send", "write", "signal"}
  /\ pub.at = "idle" => pub = Idle
  /\ pub.at # "idle" => /\ pub.type \in {"update", "lost"} /\ pub.drone \in Drones
                        /\ pub.todo \in Todos
                        /\ pub.type = "lost" => pub.todo # <<"uav">>
  /\ pub.at = "send" => pub = [at |-> "send", type |-> pub.type, drone |-> pub.drone,
                               todo |-> pub.todo]
  /\ pub.at \in {"write", "signal"} =>
       /\ pub.socket \in Sockets
       /\ pub = [at |-> pub.at, type |-> pub.type, drone |-> pub.drone, todo |-> pub.todo,
                 socket |-> pub.socket]

TakTyped ==
  /\ conn \in Sockets \union {NoConn}
  /\ dialing \in Addresses \union {None}
  /\ open \in [Sockets -> Addresses \union {None}]
  /\ address \in Addresses \union {None}
  /\ display \in [Addresses -> SUBSET Markers]
  /\ events \in Seq(Event)
  /\ active \subseteq Drones
  /\ PubOK

\* Only a loop that holds a connection has one.
LinkInv == TakTyped /\ (loop # "hold" => conn = NoConn) /\ NoneLeft

\* Before the first change of the address every connection goes to it.
Home ==
  /\ \A s \in Sockets : open[s] \in {None, address}
  /\ loop = "dial" => dialing = address

Queued(d) == \E i \in 1..Len(events) : events[i][2] = d
LastOf(i) == \A j \in 1..Len(events) : j > i => events[j][2] # events[i][2]
Handling(d) == pub.at # "idle" /\ pub.drone = d

\* What is known of a drone that missed nothing: its last event tells whether it is
\* active, and the server shows it accordingly once the event is handled; a drone in the
\* rate limiter is shown.
Shows(d) ==
  /\ \A i \in 1..Len(events) :
       events[i][2] = d /\ LastOf(i) => (events[i][1] = "update" <=> d \in active)
  /\ Handling(d) =>
       /\ pub.at # "signal"
       /\ ~Queued(d) => (pub.type = "update" <=> d \in active)
       /\ \A a \in Addresses : a = address /\ pub.todo = <<"opr">> =>
            (pub.type = "update" <=> <<d, "uav">> \in display[a])
  /\ ~Handling(d) => \A a \in Addresses : a = address =>
       /\ d \in limited => <<d, "uav">> \in display[a]
       /\ ~Queued(d) /\ d \in active => <<d, "uav">> \in display[a]
       /\ ~Queued(d) /\ d \notin active =>
            <<d, "uav">> \notin display[a] /\ <<d, "opr">> \notin display[a]

ShowInv == \A d \in Drones \ gap : Home /\ Shows(d)

TakInv == LinkInv /\ ShowInv

-----------------------------------------------------------------------------
\* The markers that are left to send.
LEMMA TodoFacts ==
  /\ \A t \in Todos : Len(t) > 1 => t = <<"uav", "opr">>
  /\ \A t \in Todos : ~(Len(t) > 1) => t \in {<<"uav">>, <<"opr">>}
  /\ Tail(<<"uav", "opr">>) = <<"opr">> /\ Head(<<"uav", "opr">>) = "uav"
  /\ Head(<<"uav">>) = "uav" /\ Head(<<"opr">>) = "opr"
  /\ <<"uav">> # <<"opr">> /\ <<"uav", "opr">> # <<"opr">> /\ <<"uav", "opr">> # <<"uav">>
  /\ {<<"uav">>, <<"opr">>, <<"uav", "opr">>} \subseteq Todos
<1>1. Len(<<"uav">>) = 1 /\ Len(<<"opr">>) = 1 /\ Len(<<"uav", "opr">>) = 2
  OBVIOUS
<1>2. Tail(<<"uav", "opr">>) = <<"opr">>
  OBVIOUS
<1> QED
  BY <1>1, <1>2 DEF Todos

\* The publisher goes on to a marker, or is done.
LEMMA PubSends ==
  ASSUME \/ pub' = Idle
         \/ \E t \in {"update", "lost"}, d \in Drones, k \in Todos :
              (t = "lost" => k # <<"uav">>) /\ pub' = Begin(t, d, k)
  PROVE  PubOK'
<1>1. CASE pub' = Idle
  BY <1>1 DEF PubOK, Idle
<1>2. CASE pub' # Idle
  <2>1. PICK t \in {"update", "lost"}, d \in Drones, k \in Todos :
           (t = "lost" => k # <<"uav">>) /\ pub' = Begin(t, d, k)
    BY <1>2
  <2> QED
    BY <2>1 DEF PubOK, Begin
<1> QED
  BY <1>1, <1>2

\* Every step of the client's loop.
LEMMA StartLinks ==
  ASSUME LinkInv, Start
  PROVE  LinkInv'
<1> USE TakAssumption DEF NoConn, None
<1>1. /\ PubOK' /\ UNCHANGED <<address, display, events, active, pub, forgotten>>
  BY DEF LinkInv, TakTyped, PubOK, Start, LoopTop, DialWorks, DialFails, Wait, Hold, Dropped
<1>2. CASE LoopTop
  BY <1>1, <1>2 DEF LoopTop, LinkInv, TakTyped, NoneLeft
<1>3. CASE DialWorks
  BY <1>1, <1>3 DEF DialWorks, LinkInv, TakTyped, NoneLeft
<1>4. CASE DialFails \/ Wait
  BY <1>1, <1>4 DEF DialFails, Wait, LinkInv, TakTyped, NoneLeft
<1>5. CASE Hold
  BY <1>1, <1>5 DEF Hold, Dropped, LinkInv, TakTyped, NoneLeft
<1> QED
  BY <1>2, <1>3, <1>4, <1>5 DEF Start

\* The address, the shutdown and a broken connection.
LEMMA ConfigLinks ==
  ASSUME LinkInv, Stop \/ (\E a \in Addresses : UpdateConfig(a)) \/ \E s \in Sockets : Break(s)
  PROVE  LinkInv'
<1> USE TakAssumption DEF NoConn, None
<1>1. PubOK' /\ UNCHANGED <<loop, dialing, display, events, active, pub, forgotten>>
  BY DEF LinkInv, TakTyped, PubOK, Stop, UpdateConfig, Break, Dropped
<1>2. CASE Stop
  BY <1>1, <1>2 DEF Stop, Dropped, LinkInv, TakTyped, NoneLeft
<1>3. CASE \E a \in Addresses : UpdateConfig(a)
  BY <1>1, <1>3 DEF UpdateConfig, LinkInv, TakTyped, NoneLeft
<1>4. CASE \E s \in Sockets : Break(s)
  BY <1>1, <1>4 DEF Break, LinkInv, TakTyped, NoneLeft
<1> QED
  BY <1>2, <1>3, <1>4

\* A drone changes, or its rate limit ends.
LEMMA OfferLinks ==
  ASSUME LinkInv, NEW d \in Drones, Update(d) \/ Lose(d) \/ LimitEnds(d)
  PROVE  LinkInv'
<1>1. PubOK' /\ UNCHANGED <<link, display, pub, forgotten>>
  BY DEF LinkInv, TakTyped, PubOK, Update, Lose, Offer, LimitEnds
<1>2. active' \subseteq Drones
  BY DEF LinkInv, TakTyped, Update, Lose, Offer, LimitEnds
<1>3. events' \in Seq(Event)
  <2>1. <<"update", d>> \in Event /\ <<"lost", d>> \in Event
    BY DEF Event
  <2>2. events \in Seq(Event)
    BY DEF LinkInv, TakTyped
  <2>3. \/ events' = events
        \/ events' = Append(events, <<"update", d>>) \/ events' = Append(events, <<"lost", d>>)
    BY DEF Update, Lose, Offer, LimitEnds
  <2>4. \A e \in Event : Append(events, e) \in Seq(Event)
    BY <2>2
  <2>5. \A e \in Event : events' = Append(events, e) => events' \in Seq(Event)
    BY <2>4, Zenon
  <2> QED
    BY <2>1, <2>2, <2>3, <2>5, Zenon
<1> QED
  BY <1>1, <1>2, <1>3 DEF LinkInv, TakTyped, NoneLeft, link

\* The publisher takes an event.
LEMMA HandleLinks ==
  ASSUME LinkInv, HandleEvent
  PROVE  LinkInv'
<1>1. events \in Seq(Event) /\ events # <<>>
  BY DEF LinkInv, TakTyped, HandleEvent
<1>2. /\ events' \in Seq(Event)
      /\ Head(events)[1] \in {"update", "lost"} /\ Head(events)[2] \in Drones
  <2>1. events' = Tail(events)
    BY DEF HandleEvent
  <2>2. Tail(events) \in Seq(Event) /\ Head(events) \in Event
    BY <1>1
  <2> QED
    BY <2>1, <2>2, Zenon DEF Event
<1>3. UNCHANGED <<link, active, display, forgotten>>
  BY DEF HandleEvent
<1>4. PubOK'
  <2>1. PubOK
    BY DEF LinkInv, TakTyped
  <2>2. CASE UNCHANGED pub
    BY <2>1, <2>2 DEF PubOK
  <2>3. CASE ~UNCHANGED pub
    <3>1. \E t \in {"update", "lost"}, d \in Drones, k \in Todos :
            (t = "lost" => k # <<"uav">>) /\ pub' = Begin(t, d, k)
      BY <2>3, <1>2, TodoFacts, Zenon DEF HandleEvent
    <3> QED
      BY <3>1, PubSends
  <2> QED
    BY <2>2, <2>3
<1> QED
  BY <1>2, <1>3, <1>4 DEF LinkInv, TakTyped, NoneLeft, link

\* The publisher sends a marker.
LEMMA SendLinks ==
  ASSUME LinkInv, SendRead \/ SendWorks \/ SendFails \/ SendSignal
  PROVE  LinkInv'
<1> USE TakAssumption DEF NoConn, None
<1>1. /\ PubOK /\ pub.at # "idle" /\ pub.type \in {"update", "lost"} /\ pub.drone \in Drones
      /\ pub.todo \in Todos
      /\ UNCHANGED <<address, loop, dialing, events, active>>
  BY DEF LinkInv, TakTyped, PubOK, SendRead, SendWorks, SendFails, SendSignal, link
<1>2. Len(pub.todo) > 1 => Tail(pub.todo) \in Todos /\ Tail(pub.todo) # <<"uav">>
  BY <1>1, TodoFacts, Zenon
<1>3. CASE SendRead
  <2>1. PubOK'
    <3>1. CASE conn # NoConn
      BY <1>1, <1>3, <3>1 DEF SendRead, PubOK, LinkInv, TakTyped
    <3>2. CASE conn = NoConn
      <4>1. pub' = Idle \/ (Len(pub.todo) > 1 /\ pub' = [pub EXCEPT !.todo = Tail(@)])
        BY <1>3, <3>2 DEF SendRead
      <4>2. pub = [at |-> "send", type |-> pub.type, drone |-> pub.drone, todo |-> pub.todo]
        BY <1>1, <1>3 DEF SendRead, PubOK
      <4>3. \/ pub' = Idle
            \/ Len(pub.todo) > 1 /\ pub' = Begin(pub.type, pub.drone, Tail(pub.todo))
        BY <4>1, <4>2 DEF Begin
      <4> QED
        BY <1>1, <1>2, <4>3, PubSends, Zenon
    <3> QED
      BY <3>1, <3>2
  <2> QED
    BY <1>1, <1>3, <2>1 DEF SendRead, LinkInv, TakTyped, NoneLeft, link
<1>4. CASE SendWorks
  <2>1. PubOK'
    <3>1. \/ pub' = Idle
          \/ Len(pub.todo) > 1 /\ pub' = Begin(pub.type, pub.drone, Tail(pub.todo))
      BY <1>4 DEF SendWorks
    <3> QED
      BY <1>1, <1>2, <3>1, PubSends, Zenon
  <2>2. display' \in [Addresses -> SUBSET Markers]
    <3>1. open[pub.socket] \in Addresses /\ display \in [Addresses -> SUBSET Markers]
      BY <1>1, <1>4 DEF SendWorks, PubOK, LinkInv, TakTyped
    <3>2. <<pub.drone, Head(pub.todo)>> \in Markers
      BY <1>1, TodoFacts DEF Markers, Todos
    <3> QED
      BY <1>4, <3>1, <3>2 DEF SendWorks
  <2> QED
    BY <1>1, <1>4, <2>1, <2>2 DEF SendWorks, LinkInv, TakTyped, NoneLeft, link
<1>5. CASE SendFails
  <2>1. pub.socket \in Sockets /\ PubOK'
    BY <1>1, <1>5 DEF SendFails, PubOK
  <2> QED
    BY <1>1, <1>5, <2>1 DEF SendFails, LinkInv, TakTyped, NoneLeft
<1>6. CASE SendSignal
  <2>1. PubOK'
    <3>1. \/ pub' = Idle
          \/ Len(pub.todo) > 1 /\ pub' = Begin(pub.type, pub.drone, Tail(pub.todo))
      BY <1>6 DEF SendSignal
    <3> QED
      BY <1>1, <1>2, <3>1, PubSends
  <2> QED
    BY <1>1, <1>6, <2>1 DEF SendSignal, LinkInv, TakTyped, NoneLeft
<1> QED
  BY <1>3, <1>4, <1>5, <1>6

LEMMA LinkKeeps ==
  ASSUME LinkInv, [TakNext]_takVars
  PROVE  LinkInv'
<1>1. CASE UNCHANGED takVars
  BY <1>1 DEF takVars, LinkInv, TakTyped, PubOK, NoneLeft
<1> QED
  BY <1>1, StartLinks, ConfigLinks, OfferLinks, HandleLinks, SendLinks, Zenon DEF TakNext, Publish

-----------------------------------------------------------------------------
\* A step that leaves the channel, the address and a drone's markers alone.
LEMMA ShowsFrame ==
  ASSUME NEW d \in Drones, Shows(d), UNCHANGED <<events, address, active>>,
         \A a \in Addresses, k \in {"uav", "opr"} :
           <<d, k>> \in display'[a] <=> <<d, k>> \in display[a],
         d \in limited' => d \in limited,
         UNCHANGED pub \/ (~Handling(d) /\ ~Handling(d)')
  PROVE  Shows(d)'
<1>1. Queued(d)' = Queued(d) /\ \A i \in 1..Len(events) : LastOf(i)' = LastOf(i)
  BY Zenon DEF Queued, LastOf
<1>2. CASE UNCHANGED pub
  BY <1>1, <1>2, Zenon DEF Shows, Handling
<1>3. CASE ~Handling(d) /\ ~Handling(d)'
  BY <1>1, <1>3 DEF Shows
<1> QED
  BY <1>2, <1>3, Zenon

\* Steps that touch no drone.
LEMMA QuietShows ==
  ASSUME LinkInv, ShowInv, Start \/ (\E s \in Sockets : Break(s)) \/ UNCHANGED takVars
  PROVE  ShowInv'
<1> SUFFICES ASSUME NEW d \in Drones \ gap'
             PROVE  Home' /\ Shows(d)'
  BY DEF ShowInv
<1>1. UNCHANGED <<gap, events, address, active, display, limited, pub>>
  BY DEF Start, LoopTop, DialWorks, DialFails, Wait, Hold, Break, takVars
<1>2. Home /\ Shows(d)
  BY <1>1 DEF ShowInv
<1>3. Shows(d)'
  BY <1>1, <1>2, ShowsFrame
<1>4. Home'
  <2> USE <1>1, <1>2, TakAssumption DEF Home, NoConn, None, LinkInv, TakTyped
  <2>1. CASE LoopTop
    BY <2>1 DEF LoopTop
  <2>2. CASE DialWorks
    BY <2>2 DEF DialWorks
  <2>3. CASE DialFails \/ Wait \/ (\E s \in Sockets : Break(s)) \/ UNCHANGED takVars
    BY <2>3 DEF DialFails, Wait, Break, takVars
  <2>4. CASE Hold
    BY <2>4 DEF Hold, Dropped
  <2> QED
    BY <2>1, <2>2, <2>3, <2>4 DEF Start
<1> QED
  BY <1>3, <1>4

\* A change of the address, or the end: the history begins anew.
LEMMA AllMissed ==
  ASSUME Stop \/ \E a \in Addresses : UpdateConfig(a)
  PROVE  ShowInv'
BY DEF Stop, UpdateConfig, ShowInv

LEMMA LimitShows ==
  ASSUME ShowInv, NEW e \in Drones, LimitEnds(e)
  PROVE  ShowInv'
<1> SUFFICES ASSUME NEW d \in Drones \ gap'
             PROVE  Home' /\ Shows(d)'
  BY DEF ShowInv
<1>1. UNCHANGED <<gap, link, events, address, active, display, pub>> /\ limited' = limited \ {e}
  BY DEF LimitEnds, link
<1>2. Home /\ Shows(d)
  BY <1>1 DEF ShowInv
<1> QED
  BY <1>1, <1>2, ShowsFrame DEF Home, link

\* An event at the end of the channel: it is its drone's last, and of no other drone.
LEMMA QueueGrows ==
  ASSUME events \in Seq(Event), NEW t \in {"update", "lost"}, NEW e \in Drones,
         events' = Append(events, <<t, e>>), NEW d \in Drones
  PROVE  /\ Queued(d)' <=> Queued(d) \/ d = e
         /\ \A i \in 1..Len(events') : events'[i][2] = d /\ LastOf(i)' =>
              \/ d = e /\ events'[i][1] = t
              \/ d # e /\ i \in 1..Len(events) /\ events[i][2] = d /\ LastOf(i)
                 /\ events'[i][1] = events[i][1]
<1>1. /\ Len(events) \in Nat /\ Len(events') = Len(events) + 1
      /\ \A i \in 1..Len(events) : events'[i] = events[i]
      /\ events'[Len(events) + 1] = <<t, e>>
  OBVIOUS
<1>2. events'[Len(events) + 1][1] = t /\ events'[Len(events) + 1][2] = e
  BY <1>1
<1>3. \A i \in 1..Len(events') : i \in 1..Len(events) \/ i = Len(events) + 1
  BY <1>1
<1>4. Queued(d)' <=> Queued(d) \/ d = e
  BY <1>1, <1>2, <1>3 DEF Queued
<1>5. ASSUME NEW i \in 1..Len(events'), events'[i][2] = d, LastOf(i)'
      PROVE  \/ d = e /\ events'[i][1] = t
             \/ d # e /\ i \in 1..Len(events) /\ events[i][2] = d /\ LastOf(i)
                /\ events'[i][1] = events[i][1]
  <2>1. CASE i = Len(events) + 1
    BY <1>2, <1>5, <2>1, Zenon
  <2>2. CASE i \in 1..Len(events)
    <3>1. \A j \in 1..Len(events') : j > i => events'[j][2] # events'[i][2]
      BY <1>5, Zenon DEF LastOf
    <3>2. d # e
      BY <1>1, <1>2, <1>5, <2>2, <3>1
    <3>3. LastOf(i)
      BY <1>1, <2>2, <3>1 DEF LastOf
    <3> QED
      BY <1>1, <1>5, <2>2, <3>2, <3>3
  <2> QED
    BY <1>3, <2>1, <2>2, Zenon
<1> QED
  BY <1>4, <1>5

\* The first event leaves the channel.
LEMMA QueueShrinks ==
  ASSUME events \in Seq(Event), events # <<>>, events' = Tail(events), NEW d \in Drones
  PROVE  /\ Len(events) > 0 /\ 1 \in 1..Len(events) /\ events[1] = Head(events)
         /\ Queued(d) <=> Queued(d)' \/ d = Head(events)[2]
         /\ d = Head(events)[2] /\ ~Queued(d)' => LastOf(1)
         /\ \A i \in 1..Len(events') : events'[i][2] = d /\ LastOf(i)' =>
              /\ i + 1 \in 1..Len(events) /\ events'[i] = events[i + 1] /\ LastOf(i + 1)
<1>1. /\ Len(events) \in Nat /\ Len(events) > 0 /\ Len(events') = Len(events) - 1
      /\ \A i \in 1..Len(events') : events'[i] = events[i + 1]
      /\ events[1] = Head(events)
  OBVIOUS
<1>2. \A i \in 1..Len(events) : i = 1 \/ (i - 1 \in 1..Len(events') /\ events[i] = events'[i - 1])
  BY <1>1
<1>3. \A i \in 1..Len(events') : i + 1 \in 1..Len(events)
  BY <1>1
<1>4. Queued(d) <=> Queued(d)' \/ d = Head(events)[2]
  <2>1. Queued(d) => Queued(d)' \/ d = Head(events)[2]
    BY <1>1, <1>2, Zenon DEF Queued
  <2>2. Queued(d)' => Queued(d)
    BY <1>1, <1>3 DEF Queued
  <2>3. d = Head(events)[2] => Queued(d)
    BY <1>1 DEF Queued
  <2> QED
    BY <2>1, <2>2, <2>3
<1>5. d = Head(events)[2] /\ ~Queued(d)' => LastOf(1)
  BY <1>1, <1>2, SMTT(20) DEF Queued, LastOf
<1>6. ASSUME NEW i \in 1..Len(events'), LastOf(i)'
      PROVE  LastOf(i + 1)
  <2>1. \A j \in 1..Len(events') : j > i => events'[j][2] # events'[i][2]
    BY <1>6 DEF LastOf
  <2>2. events'[i] = events[i + 1]
    BY <1>1
  <2>3. ASSUME NEW j \in 1..Len(events), j > i + 1
        PROVE  events[j][2] # events[i + 1][2]
    <3>1. j - 1 \in 1..Len(events') /\ j - 1 > i /\ events[j] = events'[j - 1]
      BY <1>1, <1>2, <2>3
    <3> QED
      BY <2>1, <2>2, <3>1, Zenon
  <2> QED
    BY <2>3 DEF LastOf
<1> QED
  BY <1>1, <1>3, <1>4, <1>5, <1>6

\* A drone changes: its event is its last, or the channel was full.
LEMMA OfferShows ==
  ASSUME LinkInv, ShowInv, NEW e \in Drones, Update(e) \/ Lose(e)
  PROVE  ShowInv'
<1> SUFFICES ASSUME NEW d \in Drones \ gap'
             PROVE  Home' /\ Shows(d)'
  BY DEF ShowInv
<1>1. PICK t \in {"update", "lost"} : Offer(e, t)
  BY DEF Update, Lose
<1>2. /\ gap \subseteq gap' /\ UNCHANGED <<link, limited, pub, display>>
      /\ active' = IF t = "lost" THEN active \ {e} ELSE active \union {e}
  BY <1>1 DEF Offer
<1>3. Home /\ Shows(d)
  BY <1>2 DEF ShowInv
<1>4. Home'
  BY <1>2, <1>3 DEF Home, link
<1>5. UNCHANGED address /\ Handling(d)' = Handling(d)
  BY <1>2 DEF link, Handling
<1>6. CASE events' = Append(events, <<t, e>>)
  <2>1. events \in Seq(Event)
    BY DEF LinkInv, TakTyped
  <2>2. /\ Queued(d)' <=> Queued(d) \/ d = e
        /\ \A i \in 1..Len(events') : events'[i][2] = d /\ LastOf(i)' =>
             \/ d = e /\ events'[i][1] = t
             \/ d # e /\ i \in 1..Len(events) /\ events[i][2] = d /\ LastOf(i)
                /\ events'[i][1] = events[i][1]
    BY <1>6, <2>1, QueueGrows
  <2>3. d # e => (d \in active' <=> d \in active)
    BY <1>2
  <2>4. d = e => (t = "update" <=> d \in active')
    BY <1>2, Zenon
  <2>5. \A i \in 1..Len(events') :
          events'[i][2] = d /\ LastOf(i)' => (events'[i][1] = "update" <=> d \in active')
    BY <1>3, <2>2, <2>3, <2>4, Zenon DEF Shows
  <2> QED
    BY <1>2, <1>3, <1>4, <1>5, <2>2, <2>3, <2>5 DEF Shows
<1>7. CASE UNCHANGED events /\ d # e
  <2>1. Queued(d)' = Queued(d) /\ \A i \in 1..Len(events) : LastOf(i)' = LastOf(i)
    BY <1>7 DEF Queued, LastOf
  <2>2. d \in active' <=> d \in active
    BY <1>2, <1>7
  <2> QED
    BY <1>2, <1>3, <1>4, <1>5, <1>7, <2>1, <2>2, Zenon DEF Shows
<1> QED
  BY <1>1, <1>6, <1>7 DEF Offer

\* The publisher takes an event: what it is going to send is what the event says.
LEMMA HandleShows ==
  ASSUME LinkInv, ShowInv, HandleEvent
  PROVE  ShowInv'
<1> SUFFICES ASSUME NEW d \in Drones \ gap'
             PROVE  Home' /\ Shows(d)'
  BY DEF ShowInv
<1> DEFINE t == Head(events)[1]
           e == Head(events)[2]
<1>1. /\ gap \subseteq gap' /\ UNCHANGED <<link, active, display>>
      /\ pub = Idle /\ events # <<>> /\ events' = Tail(events)
  BY DEF HandleEvent
<1>2. Home /\ Shows(d)
  BY <1>1 DEF ShowInv
<1>3. Home' /\ UNCHANGED address
  BY <1>1, <1>2 DEF Home, link
<1>4. /\ Len(events) > 0 /\ 1 \in 1..Len(events) /\ events[1] = Head(events)
      /\ Queued(d) <=> Queued(d)' \/ d = e
      /\ d = e /\ ~Queued(d)' => LastOf(1)
      /\ \A i \in 1..Len(events') : events'[i][2] = d /\ LastOf(i)' =>
           /\ i + 1 \in 1..Len(events) /\ events'[i] = events[i + 1] /\ LastOf(i + 1)
  BY <1>1, QueueShrinks DEF LinkInv, TakTyped
<1>5. \A i \in 1..Len(events') :
        events'[i][2] = d /\ LastOf(i)' => (events'[i][1] = "update" <=> d \in active')
  BY <1>1, <1>2, <1>4 DEF Shows
<1>6. ~Handling(d) /\ pub.at = "idle"
  BY <1>1, Zenon DEF Handling, Idle
<1>7. d = e /\ ~Queued(d)' => (t = "update" <=> d \in active)
  BY <1>2, <1>4, Zenon DEF Shows
<1>8. /\ d \in limited => \A a \in Addresses : a = address => <<d, "uav">> \in display[a]
      /\ ~Queued(d) => \A a \in Addresses : a = address =>
           /\ d \in active => <<d, "uav">> \in display[a]
           /\ d \notin active => <<d, "uav">> \notin display[a] /\ <<d, "opr">> \notin display[a]
  BY <1>2, <1>6, Zenon DEF Shows
<1>9. d # e => ~Handling(d)' /\ (d \in limited' => d \in limited)
  <2>1. d # e => UNCHANGED pub \/ \E k \in Todos : pub' = Begin(t, e, k)
    BY TodoFacts, Zenon DEF HandleEvent
  <2>2. d # e => ~Handling(d)'
    BY <1>6, <2>1 DEF Handling, Begin
  <2>3. limited' = limited \/ limited' = limited \union {e}
    BY Zenon DEF HandleEvent
  <2> QED
    BY <2>2, <2>3, Zenon
<1>10. CASE d # e
  BY <1>1, <1>3, <1>4, <1>5, <1>8, <1>9, <1>10, Zenon DEF Shows
<1>11. CASE d = e
  <2>1. conn # NoConn
    BY <1>11, Zenon DEF HandleEvent
  <2>2. CASE t = "update" /\ d \in limited /\ UNCHANGED <<limited, pub>>
    <3>1. ~Handling(d)'
      BY <1>6, <2>2, Zenon DEF Handling
    <3> QED
      BY <1>1, <1>3, <1>5, <1>7, <1>8, <1>11, <2>2, <3>1 DEF Shows
  <2>3. CASE \E k \in {<<"uav">>, <<"uav", "opr">>} : pub' = Begin(t, d, k)
    <3>1. PICK k \in {<<"uav">>, <<"uav", "opr">>} : pub' = Begin(t, d, k)
      BY <2>3
    <3>2. pub'.at = "send" /\ pub'.type = t /\ pub'.drone = d /\ pub'.todo # <<"opr">>
      BY <3>1, TodoFacts DEF Begin
    <3> QED
      BY <1>1, <1>3, <1>5, <1>7, <1>11, <3>2, Zenon DEF Shows, Handling
  <2> QED
    BY <1>11, <2>1, <2>2, <2>3, Zenon DEF HandleEvent
<1> QED
  BY <1>10, <1>11

\* A marker is sent, or the drone is among those that missed something.
LEMMA SendShows ==
  ASSUME LinkInv, ShowInv, SendRead \/ SendWorks \/ SendFails \/ SendSignal
  PROVE  ShowInv'
<1> USE TakAssumption DEF NoConn, None
<1> SUFFICES ASSUME NEW d \in Drones \ gap'
             PROVE  Home' /\ Shows(d)'
  BY DEF ShowInv
<1>1. gap \subseteq gap' /\ UNCHANGED <<events, address, active, loop, dialing>>
  BY DEF SendRead, SendWorks, SendFails, SendSignal, link
<1>2. Home /\ Shows(d)
  BY <1>1 DEF ShowInv
<1>3. /\ PubOK /\ pub.at # "idle" /\ pub.type \in {"update", "lost"} /\ pub.drone \in Drones
      /\ pub.todo \in Todos /\ (pub.type = "lost" => pub.todo # <<"uav">>)
      /\ (pub.at \in {"write", "signal"} => pub.socket \in Sockets)
  BY DEF LinkInv, TakTyped, PubOK, SendRead, SendWorks, SendFails, SendSignal
<1>4. Home'
  <2>1. CASE UNCHANGED open
    BY <1>1, <1>2, <2>1 DEF Home
  <2>2. CASE SendFails
    BY <1>1, <1>2, <1>3, <2>2 DEF Home, SendFails, LinkInv, TakTyped
  <2> QED
    BY <2>1, <2>2 DEF SendRead, SendWorks, SendSignal, link
<1>5. CASE pub.drone # d
  <2>1. ~Handling(d)
    BY <1>5 DEF Handling
  <2>2. ~Handling(d)'
    <3>1. pub' = Idle \/ pub'.drone = pub.drone
      BY <1>3 DEF SendRead, SendWorks, SendFails, SendSignal, Begin, PubOK
    <3> QED
      BY <1>5, <3>1 DEF Handling, Idle
  <2>3. d \in limited' => d \in limited
    BY DEF SendRead, SendWorks, SendFails, SendSignal, Finished
  <2>4. \A a \in Addresses, k \in {"uav", "opr"} :
          <<d, k>> \in display'[a] <=> <<d, k>> \in display[a]
    <3>1. CASE UNCHANGED display
      BY <3>1, Zenon
    <3>2. CASE SendWorks
      <4>1. display \in [Addresses -> SUBSET Markers]
        BY DEF LinkInv, TakTyped
      <4>2. PICK m : m = <<pub.drone, Head(pub.todo)>>
        BY Zenon
      <4>3. \A k \in {"uav", "opr"} : <<d, k>> # m
        BY <1>5, <4>2, SMTT(20)
      <4>4. display' = [display EXCEPT ![open[pub.socket]] =
                          IF pub.type = "lost" THEN @ \ {m} ELSE @ \union {m}]
        BY <3>2, <4>2, Zenon DEF SendWorks
      <4> QED
        BY <4>1, <4>3, <4>4
    <3> QED
      BY <3>1, <3>2 DEF SendRead, SendFails, SendSignal
  <2> QED
    BY <1>1, <1>2, <1>4, <2>1, <2>2, <2>3, <2>4, ShowsFrame
<1>6. CASE pub.drone = d
  <2>1. /\ Handling(d) /\ pub.at # "signal"
        /\ ~Queued(d) => (pub.type = "update" <=> d \in active)
        /\ \A a \in Addresses : a = address /\ pub.todo = <<"opr">> =>
             (pub.type = "update" <=> <<d, "uav">> \in display[a])
        /\ \A i \in 1..Len(events) :
             events[i][2] = d /\ LastOf(i) => (events[i][1] = "update" <=> d \in active)
    BY <1>2, <1>3, <1>6, Zenon DEF Handling, Shows
  <2>2. /\ Queued(d)' = Queued(d)
        /\ \A i \in 1..Len(events') :
             events'[i][2] = d /\ LastOf(i)' => (events'[i][1] = "update" <=> d \in active')
    BY <1>1, <2>1, Zenon DEF Queued, LastOf
  <2>3. CASE SendRead
    <3>1. /\ pub'.at = "write" /\ pub'.type = pub.type /\ pub'.drone = pub.drone
          /\ pub'.todo = pub.todo /\ UNCHANGED display
      BY <1>6, <2>3 DEF SendRead
    <3> QED
      BY <1>1, <1>4, <1>6, <2>1, <2>2, <3>1, Zenon DEF Shows, Handling
  <2>4. CASE SendWorks
    <3>1. open[pub.socket] = address /\ address \in Addresses
      BY <1>2, <1>3, <2>4, Zenon DEF SendWorks, Home, LinkInv, TakTyped
    <3>2. display \in [Addresses -> SUBSET Markers]
      BY DEF LinkInv, TakTyped
    <3>3. CASE pub.todo = <<"uav", "opr">>
      <4>1. pub' = Begin(pub.type, d, <<"opr">>)
        BY <1>6, <2>4, <3>3, TodoFacts, Zenon DEF SendWorks, Todos
      <4>2. display' = [display EXCEPT ![address] =
              IF pub.type = "lost" THEN @ \ {<<d, "uav">>} ELSE @ \union {<<d, "uav">>}]
        BY <1>6, <2>4, <3>1, <3>3, TodoFacts DEF SendWorks
      <4>3. pub.type = "update" <=> <<d, "uav">> \in display'[address]
        BY <1>3, <3>1, <3>2, <4>2
      <4>4. pub'.at = "send" /\ pub'.type = pub.type /\ pub'.drone = d
        BY <4>1 DEF Begin
      <4> QED
        BY <1>1, <1>4, <2>1, <2>2, <4>3, <4>4, Zenon DEF Shows, Handling
    <3>4. CASE pub.todo # <<"uav", "opr">>
      <4>1. pub' = Idle /\ limited' = Finished(pub)
        BY <1>3, <2>4, <3>4, TodoFacts, Zenon DEF SendWorks
      <4>2. ~Handling(d)'
        BY <4>1, Zenon DEF Handling, Idle
      <4>3. CASE pub.type = "update"
        <5>1. PICK m : m = <<d, Head(pub.todo)>>
          BY Zenon
        <5>2. display' = [display EXCEPT ![address] = @ \union {m}]
          BY <1>6, <2>4, <3>1, <4>3, <5>1, Zenon DEF SendWorks
        <5>3. <<d, "uav">> \in display'[address]
          <6>1. CASE pub.todo = <<"uav">>
            BY <3>1, <3>2, <5>1, <5>2, <6>1, TodoFacts, Zenon
          <6>2. CASE pub.todo = <<"opr">>
            BY <2>1, <3>1, <3>2, <4>3, <5>2, <6>2, Zenon
          <6> QED
            BY <1>3, <3>4, <6>1, <6>2, Zenon DEF Todos
        <5> QED
          BY <1>1, <1>4, <2>1, <2>2, <4>2, <4>3, <5>3 DEF Shows
      <4>4. CASE pub.type = "lost"
        <5>1. pub.todo = <<"opr">>
          BY <1>3, <3>4, <4>4, Zenon DEF Todos
        <5>2. display' = [display EXCEPT ![address] = @ \ {<<d, "opr">>}]
          BY <1>6, <2>4, <3>1, <4>4, <5>1, TodoFacts, Zenon DEF SendWorks
        <5>3. <<d, "uav">> \notin display'[address] /\ <<d, "opr">> \notin display'[address]
          BY <2>1, <3>1, <3>2, <4>4, <5>1, <5>2
        <5>4. d \notin limited'
          BY <1>6, <4>1, <4>4 DEF Finished
        <5> QED
          BY <1>1, <1>4, <2>1, <2>2, <4>2, <4>4, <5>3, <5>4, Zenon DEF Shows
      <4> QED
        BY <1>3, <4>3, <4>4, Zenon
    <3> QED
      BY <3>3, <3>4, Zenon
  <2>5. ~SendFails /\ ~SendSignal
    BY <1>6, <2>1 DEF SendFails, SendSignal
  <2> QED
    BY <2>3, <2>4, <2>5, Zenon
<1> QED
  BY <1>5, <1>6

-----------------------------------------------------------------------------
LEMMA TakInitially ==
  ASSUME TakInit
  PROVE  TakInv
<1>1. LinkInv
  BY TakAssumption DEF TakInit, LinkInv, TakTyped, PubOK, NoneLeft, Idle, NoConn, None, Event
<1>2. ShowInv
  <2>1. events = <<>> /\ Len(events) = 0 /\ limited = {} /\ active = {} /\ pub.at = "idle"
    BY DEF TakInit, Idle
  <2>2. Home
    BY DEF TakInit, Home, None
  <2>3. ASSUME NEW d \in Drones
        PROVE  Shows(d)
    <3>1. ~Handling(d)
      BY <2>1 DEF Handling
    <3>2. \A a \in Addresses : display[a] = {}
      BY DEF TakInit
    <3> QED
      BY <2>1, <3>1, <3>2 DEF Shows
  <2> QED
    BY <2>2, <2>3 DEF ShowInv
<1> QED
  BY <1>1, <1>2, Zenon DEF TakInv

LEMMA TakKeeps ==
  ASSUME TakInv, [TakNext]_takVars
  PROVE  TakInv'
<1>1. LinkInv /\ ShowInv
  BY DEF TakInv
<1>2. LinkInv'
  BY <1>1, LinkKeeps
<1>3. ShowInv'
  BY <1>1, QuietShows, AllMissed, OfferShows, LimitShows, HandleShows, SendShows
     DEF TakNext, Publish
<1> QED
  BY <1>2, <1>3 DEF TakInv

\* When the events are handled, a drone that missed none is on the server's display
\* exactly when it is not lost, for every number of drones, servers, connections and
\* changes and every capacity of the publisher's channel.
THEOREM DisplayIsTrue == TakSpec => []DisplayTrue
<1>1. ASSUME TakInv
      PROVE  DisplayTrue
  <2> SUFFICES ASSUME events = <<>>, pub = Idle, conn # NoConn, NEW d \in Drones \ gap,
                      NEW a \in Addresses, a = open[conn]
               PROVE  /\ d \in active => <<d, "uav">> \in display[a]
                      /\ d \notin active =>
                           {<<d, "uav">>, <<d, "opr">>} \intersect display[a] = {}
    BY DEF DisplayTrue
  <2>1. Home /\ Shows(d) /\ LinkInv
    BY <1>1 DEF TakInv, ShowInv
  <2>2. a = address
    BY <2>1, TakAssumption DEF Home, LinkInv, TakTyped, None
  <2>3. ~Handling(d) /\ ~Queued(d)
    <3>1. pub.at = "idle" /\ Len(events) = 0
      BY DEF Idle
    <3> QED
      BY <3>1 DEF Handling, Queued
  <2> QED
    BY <2>1, <2>2, <2>3 DEF Shows
<1> QED
  BY <1>1, TakInitially, TakKeeps, PTL DEF TakSpec

LEMMA NoConnectionIsLeft == TakSpec => []NoneLeft
<1>1. TakInv => NoneLeft
  BY DEF TakInv, LinkInv
<1> QED
  BY <1>1, TakInitially, TakKeeps, PTL DEF TakSpec

-----------------------------------------------------------------------------
\* Client.connect, Send and close, Start and RefreshSubscriptions: no connection to a TAK
\* server and no subscription stays open that the node can no longer close, however the
\* two links run beside each other.
THEOREM NothingIsLeaked == TakSpec /\ HearingSpec => []NothingLeaks
<1>1. NoneLeft /\ NoneOrphaned => NothingLeaks
  BY DEF NothingLeaks
<1> QED
  BY <1>1, NoConnectionIsLeft, NoneIsOrphaned, PTL
=============================================================================
