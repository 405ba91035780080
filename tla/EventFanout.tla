---------------------------- MODULE EventFanout ----------------------------
(***************************************************************************)
(* How a change of the drone registry reaches the dashboards.  The state   *)
(* manager broadcasts events into the API server's bounded channel and     *)
(* skips one that does not fit.  An event carries a pointer to the drone,  *)
(* not a copy: what a client is sent is what the drone holds when the      *)
(* event is marshalled.  One goroutine (collectEvents) writes drone_new    *)
(* and drone_lost at once, puts the rest into a batch and feeds the SSE    *)
(* channels; another (flushBatchedEvents) writes the batch; a third, per   *)
(* client, writes the initial state.  Marshalling, the snapshot of the     *)
(* client list and each write are separate steps.                          *)
(***************************************************************************)
EXTENDS Naturals, Sequences

CONSTANTS
  Drones,      \* identifiers
  Clients,     \* WebSocket connections
  Readers,     \* SSE connections
  ChannelCap,  \* capacity of the server's event channel (2000)
  SSECap,      \* capacity of an SSE client's channel (100)
  MaxObjects,  \* bound on the times a drone is created
  MaxVersion   \* bound on the changes of one drone object

ASSUME FanoutAssumption == MaxObjects \in Nat

VARIABLES
  current,  \* drone -> number of the object the registry holds, 0 for none
  version,  \* object -> number of changes made to it, 0 before it exists
  lost,     \* objects whose status is "lost"
  held,     \* the pointer BroadcastDroneUpdate looked up, or NoObject
  channel,  \* the server's event channel
  collector, \* collectEvents: its step and what it works on
  batch,    \* wsBatcher.events: the objects to send
  flusher,  \* flushBatchedEvents: its step and what it works on
  client,   \* WebSocket client -> its step and the initial state to write
  seen,     \* WebSocket client -> object -> newest version it was sent
  sse,      \* SSE reader -> its channel
  read,     \* SSE reader -> object -> version of the last event it read
  missed    \* history: objects of which an event was skipped or displaced

fanoutVars == <<current, version, lost, held, channel, collector, batch, flusher,
          client, seen, sse, read, missed>>
registry == <<current, version, lost>>

Objects == Drones \X (1..MaxObjects)
NoObject == <<>>
Immediate == {"drone_new", "drone_lost"}
Idle == [at |-> "idle"]
Off == [at |-> "off"]
Nothing == [o \in Objects |-> 0]

Live(d) == <<d, current[d]>>
Present == {d \in Drones : current[d] # 0}

Registered_AfterInitial == {c \in Clients : client[c].at = "up"}

\* The clients in wsClients: handleWebSocket adds one before it reads what to send.
Registered == {c \in Clients : client[c].at # "off"}

\* json.Marshal of some drones: what they hold now.
Marshal(objects) == [o \in objects |-> version[o]]

\* conn.WriteMessage: versions only count once, the newest a client was sent.
Written(c, message) ==
  [seen EXCEPT ![c] = [o \in Objects |->
     IF o \in DOMAIN message /\ message[o] > @[o] THEN message[o] ELSE @[o]]]

-----------------------------------------------------------------------------
(* The state manager.                                                      *)

broadcast(type, o) ==
  IF Len(channel) < ChannelCap
  THEN /\ channel' = Append(channel, [type |-> type, object |-> o])
       /\ UNCHANGED missed
  ELSE /\ missed' = missed \union {o}
       /\ UNCHANGED channel

Changed(o, type) ==
  /\ version[o] < MaxVersion
  /\ version' = [version EXCEPT ![o] = @ + 1]
  /\ broadcast(type, o)
  /\ UNCHANGED <<held, collector, batch, flusher, client, seen, sse, read>>

\* UpdateDrone with an identifier the registry does not hold.
UpdateDroneNew(d) ==
  /\ d \notin Present
  /\ \E n \in 1..MaxObjects :
       /\ version[<<d, n>>] = 0
       /\ \A m \in 1..(n - 1) : version[<<d, m>>] > 0
       /\ current' = [current EXCEPT ![d] = n]
       /\ Changed(<<d, n>>, "drone_new")
  /\ UNCHANGED lost

UpdateDrone(d) ==
  /\ d \in Present
  /\ lost' = lost \ {Live(d)}
  /\ Changed(Live(d), "drone_update")
  /\ UNCHANGED current

\* cleanup: an active drone is not seen for the lost threshold.
CleanupLost(d) ==
  /\ d \in Present /\ Live(d) \notin lost
  /\ lost' = lost \union {Live(d)}
  /\ Changed(Live(d), "drone_lost")
  /\ UNCHANGED current

\* cleanup evicts a drone, or an operator deletes it: no event is sent.
Remove(d) ==
  /\ d \in Present
  /\ current' = [current EXCEPT ![d] = 0]
  /\ UNCHANGED <<version, lost, held, channel, collector, batch, flusher, client,
                 seen, sse, read, missed>>

\* BroadcastDroneUpdate, after a range ring has changed, takes the pointer under the
\* shard's lock ...
BroadcastLook(d) ==
  /\ held = NoObject /\ d \in Present /\ version[Live(d)] < MaxVersion
  /\ version' = [version EXCEPT ![Live(d)] = @ + 1]
  /\ held' = Live(d)
  /\ UNCHANGED <<current, lost, channel, collector, batch, flusher, client, seen, sse,
                 read, missed>>

\* ... and sends it without: the registry may hold another object by then.
BroadcastSend ==
  /\ held # NoObject
  /\ IF Len(channel) < ChannelCap
     THEN /\ channel' = Append(channel, [type |-> "drone_update", object |-> held])
          /\ missed' = missed \union ({Live(d) : d \in Present \cap {held[1]}} \ {held})
     ELSE /\ missed' = missed \union {held}
          /\ UNCHANGED channel
  /\ held' = NoObject
  /\ UNCHANGED <<registry, collector, batch, flusher, client, seen, sse, read>>

-----------------------------------------------------------------------------
(* collectEvents.                                                          *)

CollectTake ==
  /\ collector = Idle /\ channel # <<>>
  /\ channel' = Tail(channel)
  /\ LET o == Head(channel).object IN
     IF Head(channel).type \in Immediate
     THEN /\ collector' = [at |-> "clients", object |-> o, message |-> Marshal({o})]
          /\ UNCHANGED batch
     ELSE /\ batch' = Append(batch, o)
          /\ collector' = [at |-> "sse", object |-> o]
  /\ UNCHANGED <<registry, held, flusher, client, seen, sse, read, missed>>

\* sendImmediate copies the client list after it marshalled the event.
CollectClients ==
  /\ collector.at = "clients"
  /\ collector' = [at |-> "write", object |-> collector.object,
                   message |-> collector.message, to |-> Registered]
  /\ UNCHANGED <<registry, held, channel, batch, flusher, client, seen, sse, read,
                 missed>>

CollectWrite(c) ==
  /\ collector.at = "write" /\ c \in collector.to
  /\ collector' = [collector EXCEPT !.to = @ \ {c}]
  /\ seen' = Written(c, collector.message)
  /\ UNCHANGED <<registry, held, channel, batch, flusher, client, sse, read, missed>>

Push_Overwrites(q, m) == IF Len(q) < SSECap THEN Append(q, m) ELSE [q EXCEPT ![1] = m]

\* broadcastSSE marshals the drone again; a full channel loses the event.
Push(q, m) == IF Len(q) < SSECap THEN Append(q, m) ELSE q

CollectSSE ==
  /\ \/ collector.at = "sse"
     \/ collector.at = "write" /\ collector.to = {}
  /\ LET o == collector.object IN
     sse' = [r \in Readers |-> Push(sse[r], [object |-> o, version |-> version[o]])]
  /\ collector' = Idle
  /\ UNCHANGED <<registry, held, channel, batch, flusher, client, seen, read, missed>>

\* handleSSE writes what its channel holds, in order.
handleSSE(r) ==
  /\ sse[r] # <<>>
  /\ read' = [read EXCEPT ![r][Head(sse[r]).object] = Head(sse[r]).version]
  /\ sse' = [sse EXCEPT ![r] = Tail(@)]
  /\ UNCHANGED <<registry, held, channel, collector, batch, flusher, client, seen, missed>>

-----------------------------------------------------------------------------
(* flushBatchedEvents.                                                     *)

\* The events of one drone are replaced by the last of them.
Deduped(objects) ==
  {objects[i] : i \in {j \in DOMAIN objects :
     \A k \in DOMAIN objects : k > j => objects[k][1] # objects[j][1]}}

FlushTake ==
  /\ flusher = Idle /\ batch # <<>>
  /\ flusher' = [at |-> "marshal", objects |-> Deduped(batch)]
  /\ batch' = <<>>
  /\ UNCHANGED <<registry, held, channel, collector, client, seen, sse, read, missed>>

FlushMarshal ==
  /\ flusher.at = "marshal"
  /\ flusher' = [at |-> "clients", message |-> Marshal(flusher.objects)]
  /\ UNCHANGED <<registry, held, channel, collector, batch, client, seen, sse, read,
                 missed>>

FlushClients ==
  /\ flusher.at = "clients"
  /\ flusher' = [at |-> "write", message |-> flusher.message, to |-> Registered]
  /\ UNCHANGED <<registry, held, channel, collector, batch, client, seen, sse, read,
                 missed>>

FlushWrite(c) ==
  /\ flusher.at = "write" /\ c \in flusher.to
  /\ flusher' = [flusher EXCEPT !.to = @ \ {c}]
  /\ seen' = Written(c, flusher.message)
  /\ UNCHANGED <<registry, held, channel, collector, batch, client, sse, read, missed>>

FlushDone ==
  /\ flusher.at = "write" /\ flusher.to = {}
  /\ flusher' = Idle
  /\ UNCHANGED <<registry, held, channel, collector, batch, client, seen, sse, read,
                 missed>>

-----------------------------------------------------------------------------
(* WebSocket clients: handleWebSocket registers the connection before it   *)
(* reads the state it sends first.                                         *)

handleWebSocket(c) ==
  /\ client[c] = Off
  /\ client' = [client EXCEPT ![c] = [at |-> "read"]]
  /\ UNCHANGED <<registry, held, channel, collector, batch, flusher, seen, sse, read,
                 missed>>

InitialRead(c) ==
  /\ client[c].at = "read"
  /\ client' = [client EXCEPT ![c] =
       [at |-> "write", message |-> Marshal({Live(d) : d \in Present})]]
  /\ UNCHANGED <<registry, held, channel, collector, batch, flusher, seen, sse, read,
                 missed>>

InitialWrite(c) ==
  /\ client[c].at = "write"
  /\ client' = [client EXCEPT ![c] = [at |-> "up"]]
  /\ seen' = Written(c, client[c].message)
  /\ UNCHANGED <<registry, held, channel, collector, batch, flusher, sse, read, missed>>

\* wsReadLoop fails: the connection leaves the map and writes to it fail.
Without(writer, c) == IF writer.at = "write" THEN [writer EXCEPT !.to = @ \ {c}] ELSE writer

wsReadLoop(c) ==
  /\ client[c].at = "up"
  /\ client' = [client EXCEPT ![c] = Off]
  /\ seen' = [seen EXCEPT ![c] = Nothing]
  /\ collector' = Without(collector, c)
  /\ flusher' = Without(flusher, c)
  /\ UNCHANGED <<registry, held, channel, batch, sse, read, missed>>

FanoutInit ==
  /\ current = [d \in Drones |-> 0]
  /\ version = Nothing
  /\ lost = {}
  /\ held = NoObject
  /\ channel = <<>>
  /\ collector = Idle
  /\ batch = <<>>
  /\ flusher = Idle
  /\ client = [c \in Clients |-> Off]
  /\ seen = [c \in Clients |-> Nothing]
  /\ sse = [r \in Readers |-> <<>>]
  /\ read = [r \in Readers |-> Nothing]
  /\ missed = {}

FanoutNext ==
  \/ \E d \in Drones :
       UpdateDroneNew(d) \/ UpdateDrone(d) \/ CleanupLost(d) \/ Remove(d) \/ BroadcastLook(d)
  \/ BroadcastSend
  \/ CollectTake \/ CollectClients \/ CollectSSE
  \/ FlushTake \/ FlushMarshal \/ FlushClients \/ FlushDone
  \/ \E c \in Clients :
       \/ CollectWrite(c) \/ FlushWrite(c)
       \/ handleWebSocket(c) \/ InitialRead(c) \/ InitialWrite(c) \/ wsReadLoop(c)
  \/ \E r \in Readers : handleSSE(r)

FanoutSpec == FanoutInit /\ [][FanoutNext]_fanoutVars

-----------------------------------------------------------------------------
\* Once every goroutine is done, a connected dashboard has been sent the newest
\* state of every drone the registry holds, whatever order the event channel, the
\* batch and the initial state were written in.  Only an event skipped at a full
\* channel, or displaced by one for a removed drone of the same name, is missing.
Drained == held = NoObject /\ channel = <<>> /\ collector = Idle /\ batch = <<>> /\ flusher = Idle

DrainedMeansSeen ==
  Drained => \A c \in Clients, d \in Present :
    client[c].at = "up" =>
      seen[c][Live(d)] = version[Live(d)] \/ Live(d) \in missed

\* An SSE client never reads an older state of a drone after a newer one: one
\* goroutine marshals for every SSE channel, and a full channel loses the newest.
SSEForward ==
  [][\A r \in Readers, o \in Objects : read'[r][o] >= read[r][o]]_fanoutVars
=============================================================================
