------------------------------ MODULE TapBuffer ------------------------------
(***************************************************************************)
(* The reliable publisher of a TAP sensor (tap/src/publish/buffer.rs): a   *)
(* channel into buffer_worker, which publishes detections to NATS at once  *)
(* while it believes itself connected and nothing is pending, and keeps    *)
(* them in a bounded buffer otherwise.  A ticker flushes the buffer, with  *)
(* a backoff for detections whose publish failed.  Only one heartbeat is   *)
(* kept.                                                                   *)
(*                                                                         *)
(* The worker is one task; each of its publishes is one action, because    *)
(* between two of them the connection, the senders and the end of the      *)
(* process can move.  NATS is external: a publish works or fails, whatever *)
(* the worker believes about the connection, which it polls.               *)
(*                                                                         *)
(* Detections and heartbeats are numbered in the order they are sent.      *)
(***************************************************************************)
EXTENDS Integers, Sequences

CONSTANTS
  ChannelSize,    \* capacity of the mpsc channel
  MaxSize,        \* BufferConfig.max_size
  MaxRetries,     \* BufferConfig.max_retries
  FlushLimit,     \* publishes per tick, 100 in the code
  MaxDetections,  \* bound: detections sent
  MaxHeartbeats,  \* bound: heartbeats sent
  MaxFailures,    \* bound: publishes that fail
  MaxOutages,     \* bound: times the connection goes down
  MayStop         \* is the TAP shut down?

ASSUME TapBufferAssumption ==
  /\ ChannelSize \in Nat \ {0} /\ MaxSize \in Nat \ {0}
  /\ MaxRetries \in Nat /\ FlushLimit \in Nat \ {0}
  /\ MaxDetections \in Nat /\ MaxHeartbeats \in Nat
  /\ MaxFailures \in Nat /\ MaxOutages \in Nat /\ MayStop \in BOOLEAN

VARIABLES
  channel,    \* messages on their way to the worker
  pending,    \* DetectionBuffer.pending: number, retry_count, backoff over?
  heartbeat,  \* DetectionBuffer.latest_heartbeat, 0 for None
  connected,  \* DetectionBuffer.is_connected
  up,         \* the state of the NATS client
  pc,         \* of buffer_worker: "loop", "flush", "collect", "drain" or "done"
  flushed,    \* publishes of this tick
  fate,       \* detection -> where it is or what became of it
  tries,      \* detection -> publishes that failed
  sent,       \* detections published, in order
  beats,      \* heartbeats published, in order
  made,       \* detections and heartbeats sent so far
  failures, outages, stopping

vars == <<channel, pending, heartbeat, connected, up, pc, flushed, fate, tries,
          sent, beats, made, failures, outages, stopping>>

Detections == 1 .. MaxDetections
Message == [kind : {"detection", "heartbeat", "ack", "shutdown"}, n : Nat]
Buffered == [n : Detections, retries : Nat, ready : BOOLEAN]

Init ==
  /\ channel = << >> /\ pending = << >> /\ heartbeat = 0
  /\ connected = FALSE /\ up \in BOOLEAN
  /\ pc = "loop" /\ flushed = 0
  /\ fate = [n \in Detections |-> "unmade"]
  /\ tries = [n \in Detections |-> 0]
  /\ sent = << >> /\ beats = << >>
  /\ made = [detections |-> 0, heartbeats |-> 0, acks |-> 0]
  /\ failures = 0 /\ outages = 0 /\ stopping = FALSE
-----------------------------------------------------------------------------
(***************************************************************************)
(* The senders and the connection.                                         *)
(***************************************************************************)
Send(kind, n) ==
  /\ pc # "done"
  /\ Len(channel) < ChannelSize
  /\ channel' = Append(channel, [kind |-> kind, n |-> n])
  /\ UNCHANGED <<pending, heartbeat, connected, up, pc, flushed, tries, sent,
                 beats, failures, outages>>

PublishDetection ==
  /\ made.detections < MaxDetections
  /\ Send("detection", made.detections + 1)
  /\ made' = [made EXCEPT !.detections = @ + 1]
  /\ fate' = [fate EXCEPT ![made.detections + 1] = "live"]
  /\ UNCHANGED stopping

PublishHeartbeat ==
  /\ made.heartbeats < MaxHeartbeats
  /\ Send("heartbeat", made.heartbeats + 1)
  /\ made' = [made EXCEPT !.heartbeats = @ + 1]
  /\ UNCHANGED <<fate, stopping>>

\* One acknowledgment is enough: the worker keeps nothing of it.
PublishAck ==
  /\ made.acks = 0
  /\ Send("ack", 0)
  /\ made' = [made EXCEPT !.acks = 1]
  /\ UNCHANGED <<fate, stopping>>

\* BufferedPublisher::shutdown; other tasks may still send after it.
Shutdown ==
  /\ MayStop /\ ~stopping
  /\ Send("shutdown", 0)
  /\ stopping' = TRUE
  /\ UNCHANGED <<made, fate>>

GoDown ==
  /\ up /\ outages < MaxOutages
  /\ up' = FALSE /\ outages' = outages + 1
  /\ UNCHANGED <<channel, pending, heartbeat, connected, pc, flushed, fate, tries,
                 sent, beats, made, failures, stopping>>

ComeUp ==
  /\ ~up /\ up' = TRUE
  /\ UNCHANGED <<channel, pending, heartbeat, connected, pc, flushed, fate, tries,
                 sent, beats, made, failures, outages, stopping>>

\* The delay of the k-th pending detection is over.
BackoffEnds(k) ==
  /\ k \in DOMAIN pending /\ ~pending[k].ready
  /\ pending' = [pending EXCEPT ![k].ready = TRUE]
  /\ UNCHANGED <<channel, heartbeat, connected, up, pc, flushed, fate, tries,
                 sent, beats, made, failures, outages, stopping>>
-----------------------------------------------------------------------------
(***************************************************************************)
(* The operations of DetectionBuffer.                                      *)
(***************************************************************************)
\* VecDeque::remove, at position k.
remove(s, k) == [i \in 1 .. Len(s) - 1 |-> IF i < k THEN s[i] ELSE s[i + 1]]

\* A bug: the oldest detection is counted as dropped but stays.
push_detection_Keeps(buf, fates, n) ==
  LET full == Len(buf) >= MaxSize
  IN  /\ pending' = Append(IF full THEN remove(buf, Len(buf)) ELSE buf,
                           [n |-> n, retries |-> 0, ready |-> TRUE])
      /\ fate' = IF full THEN [fates EXCEPT ![Head(buf).n] = "overflow"] ELSE fates

\* A full buffer loses its front.
push_detection(buf, fates, n) ==
  LET full == Len(buf) >= MaxSize
  IN  /\ pending' = Append(IF full THEN Tail(buf) ELSE buf,
                           [n |-> n, retries |-> 0, ready |-> TRUE])
      /\ fate' = IF full THEN [fates EXCEPT ![Head(buf).n] = "overflow"] ELSE fates

\* The first detection whose backoff is over.
IsReady(k) ==
  /\ k \in DOMAIN pending /\ pending[k].ready
  /\ \A l \in 1 .. k - 1 : ~pending[l].ready

NoneReady == \A k \in DOMAIN pending : ~pending[k].ready

\* The detection popped from position k goes to the front with a backoff, or
\* is given up.
requeue(k) ==
  LET d == pending[k]
      rest == remove(pending, k)
  IN  IF d.retries + 1 >= MaxRetries
        THEN pending' = rest /\ fate' = [fate EXCEPT ![d.n] = "failed"]
        ELSE /\ pending' = <<[d EXCEPT !.retries = @ + 1, !.ready = FALSE]>> \o rest
             /\ UNCHANGED fate

\* client.publish fails.
PublishFails == failures < MaxFailures /\ failures' = failures + 1

PublishWorks == UNCHANGED failures
-----------------------------------------------------------------------------
(***************************************************************************)
(* buffer_worker.                                                          *)
(***************************************************************************)
\* A bug: the poll notices a loss of the connection but not its return.
PollConnection_LossOnly ==
  /\ pc = "loop" /\ connected /\ ~up
  /\ connected' = FALSE
  /\ UNCHANGED <<channel, pending, heartbeat, up, pc, flushed, fate, tries,
                 sent, beats, made, failures, outages, stopping>>

\* Every 100 ms: compare the client's state with the buffer's.
PollConnection ==
  /\ pc = "loop" /\ connected # up
  /\ connected' = up
  /\ UNCHANGED <<channel, pending, heartbeat, up, pc, flushed, fate, tries,
                 sent, beats, made, failures, outages, stopping>>

Receive(kind) ==
  /\ channel # << >> /\ Head(channel).kind = kind
  /\ channel' = Tail(channel)

Published(n) ==
  /\ sent' = Append(sent, n)
  /\ fate' = [fate EXCEPT ![n] = "sent"]

Failed(n) == tries' = [tries EXCEPT ![n] = @ + 1]

\* A bug: a connected worker publishes at once although others are pending.
MayPublishNow_Always == connected

\* Publish without buffering?
MayPublishNow == connected /\ pending = << >>

ReceiveDetection ==
  LET n == Head(channel).n
  IN  /\ pc = "loop"
      /\ Receive("detection")
      /\ \/ /\ MayPublishNow /\ PublishWorks
            /\ Published(n) /\ UNCHANGED <<pending, tries>>
         \/ /\ MayPublishNow /\ PublishFails
            /\ Failed(n) /\ push_detection(pending, fate, n) /\ UNCHANGED sent
         \/ /\ ~MayPublishNow
            /\ push_detection(pending, fate, n) /\ UNCHANGED <<sent, tries, failures>>
      /\ UNCHANGED <<heartbeat, connected, up, pc, flushed, beats, made, outages, stopping>>

\* Publish the heartbeat or keep it in place of an older one.
ReceiveHeartbeat ==
  LET n == Head(channel).n
  IN  /\ pc = "loop"
      /\ Receive("heartbeat")
      /\ \/ connected /\ PublishWorks /\ beats' = Append(beats, n) /\ UNCHANGED heartbeat
         \/ connected /\ PublishFails /\ heartbeat' = n /\ UNCHANGED beats
         \/ ~connected /\ heartbeat' = n /\ UNCHANGED <<beats, failures>>
      /\ UNCHANGED <<pending, connected, up, pc, flushed, fate, tries, sent, made,
                     outages, stopping>>

\* Acknowledgments are published or lost.
ReceiveAck ==
  /\ pc = "loop"
  /\ Receive("ack")
  /\ PublishWorks \/ (connected /\ PublishFails)
  /\ UNCHANGED <<pending, heartbeat, connected, up, pc, flushed, fate, tries,
                 sent, beats, made, outages, stopping>>

\* set_heartbeat again after a failed publish.
KeptHeartbeat == heartbeat

\* The ticker: the kept heartbeat first, then the pending detections.
Tick ==
  /\ pc = "loop" /\ connected
  /\ pc' = "flush" /\ flushed' = 0
  /\ IF heartbeat = 0
       THEN UNCHANGED <<heartbeat, beats, failures>>
       ELSE \/ PublishWorks /\ beats' = Append(beats, heartbeat) /\ heartbeat' = 0
            \/ PublishFails /\ heartbeat' = KeptHeartbeat /\ UNCHANGED beats
  /\ UNCHANGED <<channel, pending, connected, up, fate, tries, sent, made, outages, stopping>>

FlushOne(k) ==
  LET n == pending[k].n
  IN  /\ pc = "flush" /\ flushed < FlushLimit
      /\ IsReady(k)
      /\ \/ /\ PublishWorks /\ Published(n) /\ UNCHANGED <<pc, tries>>
            /\ pending' = remove(pending, k) /\ flushed' = flushed + 1
         \/ /\ PublishFails /\ Failed(n) /\ requeue(k)
            /\ pc' = "loop" /\ UNCHANGED <<sent, flushed>>
      /\ UNCHANGED <<channel, heartbeat, connected, up, beats, made, outages, stopping>>

\* Nothing more to flush; the client's own flush changes nothing here.
EndFlush ==
  /\ pc = "flush"
  /\ flushed = FlushLimit \/ NoneReady
  /\ pc' = "loop"
  /\ UNCHANGED <<channel, pending, heartbeat, connected, up, flushed, fate, tries,
                 sent, beats, made, failures, outages, stopping>>

\* What the worker still had is lost.
Abandon ==
  /\ pc' = "done"
  /\ channel' = << >> /\ pending' = << >>
  /\ fate' = [n \in Detections |-> IF fate[n] = "live" THEN "abandoned" ELSE fate[n]]

\* The loop ends; a worker that is not connected gives everything up.
ReceiveShutdown ==
  /\ pc = "loop"
  /\ channel # << >> /\ Head(channel).kind = "shutdown"
  /\ \/ /\ connected
        /\ pc' = "collect" /\ channel' = Tail(channel) /\ UNCHANGED <<pending, fate>>
     \/ /\ ~connected
        /\ Abandon
  /\ UNCHANGED <<heartbeat, connected, up, flushed, tries, sent, beats, made,
                 failures, outages, stopping>>

\* The messages left in the channel: detections are buffered, others ignored.
Collect ==
  /\ pc = "collect" /\ channel # << >>
  /\ channel' = Tail(channel)
  /\ IF Head(channel).kind = "detection"
       THEN push_detection(pending, fate, Head(channel).n)
       ELSE UNCHANGED <<pending, fate>>
  /\ UNCHANGED <<heartbeat, connected, up, pc, flushed, tries, sent, beats, made,
                 failures, outages, stopping>>

EndCollect ==
  /\ pc = "collect" /\ channel = << >>
  /\ pc' = "drain"
  /\ UNCHANGED <<channel, pending, heartbeat, connected, up, flushed, fate, tries,
                 sent, beats, made, failures, outages, stopping>>

\* Publish what drain_all returned, whatever its backoff, up to an error.
DrainOne ==
  /\ pc = "drain" /\ pending # << >>
  /\ \/ /\ PublishWorks /\ Published(Head(pending).n)
        /\ pending' = Tail(pending) /\ UNCHANGED <<channel, pc, tries>>
     \/ PublishFails /\ Failed(Head(pending).n) /\ Abandon /\ UNCHANGED sent
  /\ UNCHANGED <<heartbeat, connected, up, flushed, beats, made, outages, stopping>>

EndDrain ==
  /\ pc = "drain" /\ pending = << >>
  /\ Abandon
  /\ UNCHANGED <<heartbeat, connected, up, flushed, tries, sent, beats, made,
                 failures, outages, stopping>>

\* main waits for the shutdown message to be sent, not for the worker.
ProcessEnds ==
  /\ stopping /\ pc # "done"
  /\ Abandon
  /\ UNCHANGED <<heartbeat, connected, up, flushed, tries, sent, beats, made,
                 failures, outages, stopping>>
-----------------------------------------------------------------------------
\* The branch of the select that reads the channel.
ReceiveMessage == ReceiveDetection \/ ReceiveHeartbeat \/ ReceiveAck \/ ReceiveShutdown

Worker ==
  \/ PollConnection \/ ReceiveMessage
  \/ Tick \/ (\E k \in 1 .. MaxSize : FlushOne(k)) \/ EndFlush
  \/ Collect \/ EndCollect \/ DrainOne \/ EndDrain

Next ==
  \/ PublishDetection \/ PublishHeartbeat \/ PublishAck \/ Shutdown
  \/ GoDown \/ ComeUp \/ (\E k \in 1 .. MaxSize : BackoffEnds(k))
  \/ Worker \/ ProcessEnds

Spec == Init /\ [][Next]_vars

\* The client reconnects, delays pass, and the select of the worker chooses
\* among its ready branches at random, so none of them is passed over for ever.
FairSpec ==
  /\ Spec
  /\ WF_vars(ComeUp)
  /\ \A k \in 1 .. MaxSize : WF_vars(BackoffEnds(k))
  /\ SF_vars(PollConnection) /\ SF_vars(Tick) /\ SF_vars(ReceiveMessage)
  /\ WF_vars(Worker /\ pc # "loop")
-----------------------------------------------------------------------------
InChannel == {k \in DOMAIN channel : channel[k].kind = "detection"}

\* Every detection is in one place, or was published once, or is counted as
\* lost to overflow or, after max_retries failed flushes, to the retries
\* (push_detection, requeue).
Conserved ==
  /\ \A n \in Detections :
       fate[n] = "live" <=> \/ \E k \in InChannel : channel[k].n = n
                            \/ \E k \in DOMAIN pending : pending[k].n = n
  /\ \A n \in Detections : fate[n] = "sent" <=> \E k \in DOMAIN sent : sent[k] = n
  /\ \A k, l \in DOMAIN sent : sent[k] = sent[l] => k = l
  /\ \A k, l \in DOMAIN pending : pending[k].n = pending[l].n => k = l
  /\ \A k \in InChannel, l \in DOMAIN pending : channel[k].n # pending[l].n
  /\ \A n \in Detections : fate[n] = "failed" => tries[n] >= MaxRetries

\* As long as no publish fails, detections are published in the order they
\* were made, through any outage: what is pending is never overtaken.
InOrderUnlessFailed ==
  failures = 0 => \A k, l \in DOMAIN sent : k < l => sent[k] < sent[l]

\* With a connection that comes back, every detection is published or counted, and a
\* heartbeat is not forgotten: it, or a later one, is published unless the TAP stops
\* (buffer_worker polls the connection, its ticker empties the buffer).
Settled ==
  /\ \A n \in Detections : fate[n] = "live" ~> fate[n] # "live"
  /\ \A n \in 1 .. MaxHeartbeats :
       made.heartbeats >= n ~> (pc = "done" \/ \E k \in DOMAIN beats : beats[k] >= n)
=============================================================================
