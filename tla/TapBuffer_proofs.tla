-------------------------- MODULE TapBuffer_proofs --------------------------
(***************************************************************************)
(* No detection is lost without being counted, doubled or, as long as no   *)
(* publish fails, overtaken in a TAP's buffer, for any sizes, numbers of   *)
(* detections, failures and outages.                                       *)
(*                                                                         *)
(* What a step takes from the front of the channel is newer than whatever  *)
(* it puts it behind (Ordered); a detection popped from the middle of the  *)
(* buffer had waited for a backoff, so something had failed (FIFO); and    *)
(* its retry count never runs ahead of the publishes that failed           *)
(* (Retried).                                                              *)
(***************************************************************************)
EXTENDS TapBuffer, TLAPS

Fates == {"unmade", "live", "sent", "overflow", "failed", "abandoned"}

TapTyped ==
  /\ channel \in Seq(Message) /\ pending \in Seq(Buffered) /\ sent \in Seq(Detections)
  /\ fate \in [Detections -> Fates] /\ tries \in [Detections -> Nat]
  /\ made = [detections |-> made.detections, heartbeats |-> made.heartbeats,
             acks |-> made.acks]
  /\ made.detections \in Nat /\ made.heartbeats \in Nat /\ failures \in Nat

\* The detections in the channel are the newest, in order.
Ordered ==
  /\ \A k \in InChannel : channel[k].n \in Detections /\ channel[k].n <= made.detections
  /\ \A k, l \in InChannel : k < l => channel[k].n < channel[l].n
  /\ \A k \in InChannel, l \in DOMAIN pending : pending[l].n < channel[k].n
  /\ \A k \in InChannel, l \in DOMAIN sent : sent[l] < channel[k].n
  /\ \A n \in Detections : fate[n] = "unmade" <=> n > made.detections

Retried == \A l \in DOMAIN pending : pending[l].retries <= tries[pending[l].n]

\* Without a failure nothing waits for a backoff, and the buffer is in order.
FIFO ==
  failures = 0 =>
    /\ \A k \in DOMAIN pending : pending[k].ready
    /\ \A k, l \in DOMAIN pending : k < l => pending[k].n < pending[l].n
    /\ \A k \in DOMAIN sent, l \in DOMAIN pending : sent[k] < pending[l].n
    /\ \A k, l \in DOMAIN sent : k < l => sent[k] < sent[l]

TapInv == TapTyped /\ Ordered /\ Retried /\ FIFO /\ Conserved

-----------------------------------------------------------------------------
(* Sequences.                                                              *)

LEMMA TailOf ==
  ASSUME NEW S, NEW s \in Seq(S), s # << >>
  PROVE  /\ Tail(s) \in Seq(S) /\ Len(s) \in Nat /\ Len(s) > 0 /\ Len(Tail(s)) = Len(s) - 1
         /\ DOMAIN s = 1..Len(s) /\ DOMAIN Tail(s) = 1..(Len(s) - 1)
         /\ s[1] = Head(s) /\ s[1] \in S
         /\ \A i \in 1..(Len(s) - 1) : Tail(s)[i] = s[i + 1]
OBVIOUS

LEMMA AppendOf ==
  ASSUME NEW S, NEW s \in Seq(S), NEW x \in S
  PROVE  /\ Append(s, x) \in Seq(S) /\ Len(s) \in Nat
         /\ DOMAIN s = 1..Len(s) /\ DOMAIN Append(s, x) = 1..(Len(s) + 1)
         /\ Append(s, x)[Len(s) + 1] = x
         /\ \A i \in 1..Len(s) : Append(s, x)[i] = s[i]
OBVIOUS

LEMMA ConsOf ==
  ASSUME NEW S, NEW s \in Seq(S), NEW x \in S
  PROVE  /\ <<x>> \o s \in Seq(S) /\ Len(s) \in Nat
         /\ DOMAIN s = 1..Len(s) /\ DOMAIN (<<x>> \o s) = 1..(Len(s) + 1)
         /\ (<<x>> \o s)[1] = x
         /\ \A i \in 2..(Len(s) + 1) : (<<x>> \o s)[i] = s[i - 1]
<1>1. <<x>> \in Seq(S) /\ Len(<<x>>) = 1 /\ <<x>>[1] = x
  OBVIOUS
<1> QED
  BY <1>1

LEMMA RemoveOf ==
  ASSUME NEW S, NEW s \in Seq(S), NEW k \in DOMAIN s
  PROVE  /\ remove(s, k) \in Seq(S) /\ Len(s) \in Nat /\ Len(s) > 0 /\ k \in 1..Len(s)
         /\ DOMAIN s = 1..Len(s) /\ DOMAIN remove(s, k) = 1..(Len(s) - 1)
         /\ \A i \in 1..(Len(s) - 1) : remove(s, k)[i] = IF i < k THEN s[i] ELSE s[i + 1]
<1>1. Len(s) \in Nat /\ DOMAIN s = 1..Len(s) /\ k \in 1..Len(s) /\ Len(s) - 1 \in Nat
  OBVIOUS
<1>2. \A i \in 1..(Len(s) - 1) : (IF i < k THEN s[i] ELSE s[i + 1]) \in S
  BY <1>1
<1>3. remove(s, k) \in [1..(Len(s) - 1) -> S]
  BY <1>2 DEF remove
<1>4. remove(s, k) \in Seq(S)
  BY <1>1, <1>3
<1> QED
  BY <1>1, <1>3, <1>4 DEF remove

\* The numbers in the buffer and among the published.
LEMMA Numbers ==
  ASSUME TapTyped
  PROVE  /\ \A l \in DOMAIN pending : /\ pending[l] \in Buffered /\ pending[l].n \in Detections
                                      /\ pending[l].n \in Nat /\ pending[l].retries \in Nat
         /\ \A l \in DOMAIN sent : sent[l] \in Detections /\ sent[l] \in Nat
<1>1. \A l \in DOMAIN pending : pending[l] \in Buffered
  BY DEF TapTyped
<1>2. \A l \in DOMAIN sent : sent[l] \in Detections
  BY DEF TapTyped
<1>3. Detections \subseteq Nat
  BY TapBufferAssumption DEF Detections
<1> QED
  BY <1>1, <1>2, <1>3, Zenon DEF Buffered

\* The entry of a detection that failed again, and of one whose delay is over.
LEMMA Retry ==
  ASSUME NEW d \in Buffered, NEW m \in Nat
  PROVE  /\ [d EXCEPT !.retries = m, !.ready = FALSE] \in Buffered
         /\ [d EXCEPT !.retries = m, !.ready = FALSE].n = d.n
         /\ [d EXCEPT !.retries = m, !.ready = FALSE].retries = m
<1>1. [d EXCEPT !.retries = m, !.ready = FALSE] \in Buffered
  BY Zenon DEF Buffered
<1>2. /\ [d EXCEPT !.retries = m, !.ready = FALSE].n = d.n
      /\ [d EXCEPT !.retries = m, !.ready = FALSE].retries = m
  BY DEF Buffered
<1> QED
  BY <1>1, <1>2

LEMMA Readied ==
  ASSUME NEW d \in Buffered
  PROVE  /\ [d EXCEPT !.ready = TRUE] \in Buffered
         /\ [d EXCEPT !.ready = TRUE].n = d.n
         /\ [d EXCEPT !.ready = TRUE].retries = d.retries
<1>1. [d EXCEPT !.ready = TRUE] \in Buffered
  BY Zenon DEF Buffered
<1>2. [d EXCEPT !.ready = TRUE].n = d.n /\ [d EXCEPT !.ready = TRUE].retries = d.retries
  BY DEF Buffered
<1> QED
  BY <1>1, <1>2

LEMMA ReplaceOf ==
  ASSUME NEW S, NEW s \in Seq(S), NEW k \in DOMAIN s, NEW x \in S
  PROVE  /\ [s EXCEPT ![k] = x] \in Seq(S) /\ DOMAIN [s EXCEPT ![k] = x] = DOMAIN s
         /\ \A i \in DOMAIN s : [s EXCEPT ![k] = x][i] = IF i = k THEN x ELSE s[i]
<1>1. [s EXCEPT ![k] = x] \in Seq(S)
  OBVIOUS
<1>2. /\ DOMAIN [s EXCEPT ![k] = x] = DOMAIN s
      /\ \A i \in DOMAIN s : [s EXCEPT ![k] = x][i] = IF i = k THEN x ELSE s[i]
  OBVIOUS
<1> QED
  BY <1>1, <1>2

-----------------------------------------------------------------------------
\* A buffer q that is pending without detection n.
Without(q, n) ==
  /\ q \in Seq(Buffered)
  /\ \A j \in DOMAIN pending : pending[j].n # n => \E i \in DOMAIN q : q[i].n = pending[j].n
  /\ \A i \in DOMAIN q : q[i].n # n /\ \E j \in DOMAIN pending : q[i] = pending[j]
  /\ \A i, h \in DOMAIN q : i < h =>
       \E j, l \in DOMAIN pending : j < l /\ q[i] = pending[j] /\ q[h] = pending[l]

LEMMA RemovedIs ==
  ASSUME TapInv, NEW k \in DOMAIN pending
  PROVE  Without(remove(pending, k), pending[k].n)
<1> DEFINE q == remove(pending, k)
<1>1. /\ q \in Seq(Buffered) /\ Len(pending) \in Nat /\ Len(pending) > 0 /\ k \in 1..Len(pending)
      /\ DOMAIN pending = 1..Len(pending) /\ DOMAIN q = 1..(Len(pending) - 1)
      /\ \A i \in 1..(Len(pending) - 1) : q[i] = IF i < k THEN pending[i] ELSE pending[i + 1]
  BY RemoveOf DEF TapInv, TapTyped
<1> HIDE DEF q
<1>2. \A j, l \in DOMAIN pending : pending[j].n = pending[l].n => j = l
  BY DEF TapInv, Conserved
<1> DEFINE at(i) == IF i < k THEN i ELSE i + 1
<1>3. \A i \in DOMAIN q : at(i) \in DOMAIN pending /\ at(i) # k /\ q[i] = pending[at(i)]
  BY <1>1
<1>4. \A i, h \in DOMAIN q : i < h => at(i) < at(h)
  BY <1>1
<1>5. ASSUME NEW j \in DOMAIN pending, pending[j].n # pending[k].n
      PROVE  \E i \in DOMAIN q : q[i].n = pending[j].n
  <2>1. CASE j < k
    BY <1>1, <2>1
  <2>2. CASE j > k
    <3>1. j - 1 \in DOMAIN q /\ at(j - 1) = j
      BY <1>1, <2>2
    <3> QED
      BY <1>3, <3>1
  <2> QED
    BY <1>1, <1>5, <2>1, <2>2
<1> HIDE DEF at
<1>6. \A i \in DOMAIN q : q[i].n # pending[k].n /\ \E j \in DOMAIN pending : q[i] = pending[j]
  BY <1>2, <1>3
<1>7. \A i, h \in DOMAIN q : i < h =>
       \E j, l \in DOMAIN pending : j < l /\ q[i] = pending[j] /\ q[h] = pending[l]
  BY <1>3, <1>4
<1>8. Without(q, pending[k].n)
  BY <1>1, <1>5, <1>6, <1>7 DEF Without
<1> QED
  BY <1>8 DEF q

LEMMA TailIs ==
  ASSUME TapInv, pending # << >>
  PROVE  /\ 1 \in DOMAIN pending /\ pending[1] = Head(pending)
         /\ Tail(pending) = remove(pending, 1) /\ Without(Tail(pending), Head(pending).n)
<1>1. pending \in Seq(Buffered)
  BY DEF TapInv, TapTyped
<1>2. 1 \in DOMAIN pending /\ pending[1] = Head(pending)
  BY <1>1, TailOf
<1>3. Tail(pending) = remove(pending, 1)
  <2>1. /\ remove(pending, 1) \in Seq(Buffered) /\ Tail(pending) \in Seq(Buffered)
        /\ Len(pending) \in Nat
        /\ DOMAIN remove(pending, 1) = 1..(Len(pending) - 1)
        /\ DOMAIN Tail(pending) = 1..(Len(pending) - 1)
        /\ \A i \in 1..(Len(pending) - 1) : Tail(pending)[i] = pending[i + 1]
        /\ \A i \in 1..(Len(pending) - 1) :
             remove(pending, 1)[i] = IF i < 1 THEN pending[i] ELSE pending[i + 1]
    BY <1>1, <1>2, TailOf, RemoveOf
  <2>2. \A i \in 1..(Len(pending) - 1) : remove(pending, 1)[i] = Tail(pending)[i]
    BY <2>1
  <2> QED
    BY <2>1, <2>2
<1> QED
  BY <1>2, <1>3, RemovedIs, Zenon

\* A step leaves the detections of the channel but n, no detection's number when it is 0.
ChannelWithout(n) ==
  /\ channel' \in Seq(Message)
  /\ \A j \in InChannel : channel[j].n # n => \E i \in InChannel' : channel'[i].n = channel[j].n
  /\ \A i \in InChannel' : channel'[i].n # n /\ \E j \in InChannel : channel'[i].n = channel[j].n
  /\ \A i, h \in InChannel' : i < h =>
       \E j, l \in InChannel :
         j < l /\ channel'[i].n = channel[j].n /\ channel'[h].n = channel[l].n

LEMMA ChannelKept ==
  ASSUME TapInv, UNCHANGED channel
  PROVE  ChannelWithout(0)
BY DEF TapInv, TapTyped, Ordered, ChannelWithout, InChannel, Detections

LEMMA ChannelSent ==
  ASSUME TapInv, NEW m \in Message, m.kind # "detection", channel' = Append(channel, m)
  PROVE  ChannelWithout(0)
<1>1. /\ channel' \in Seq(Message) /\ Len(channel) \in Nat
      /\ DOMAIN channel = 1..Len(channel) /\ DOMAIN channel' = 1..(Len(channel) + 1)
      /\ channel'[Len(channel) + 1] = m
      /\ \A i \in 1..Len(channel) : channel'[i] = channel[i]
  BY AppendOf DEF TapInv, TapTyped
<1>2. InChannel' = InChannel /\ \A i \in InChannel : channel'[i] = channel[i]
  BY <1>1 DEF InChannel
<1>3. \A i \in InChannel : channel[i].n # 0
  BY DEF TapInv, Ordered, Detections
<1> QED
  BY <1>1, <1>2, <1>3, Zenon DEF ChannelWithout

LEMMA ChannelTaken ==
  ASSUME TapInv, channel # << >>, channel' = Tail(channel)
  PROVE  /\ Head(channel).kind = "detection" =>
              1 \in InChannel /\ channel[1] = Head(channel) /\ ChannelWithout(Head(channel).n)
         /\ Head(channel).kind # "detection" => ChannelWithout(0)
<1>1. /\ channel' \in Seq(Message) /\ Len(channel) \in Nat /\ Len(channel) > 0
      /\ DOMAIN channel = 1..Len(channel) /\ DOMAIN channel' = 1..(Len(channel) - 1)
      /\ channel[1] = Head(channel)
      /\ \A i \in 1..(Len(channel) - 1) : channel'[i] = channel[i + 1]
  BY TailOf DEF TapInv, TapTyped
<1>2. \A i \in InChannel' : i \in Nat /\ i + 1 \in InChannel /\ i + 1 # 1 /\ channel'[i] = channel[i + 1]
  BY <1>1 DEF InChannel
<1>3. \A j \in InChannel : j = 1 \/ (j - 1 \in InChannel' /\ channel'[j - 1] = channel[j])
  BY <1>1 DEF InChannel
<1>4. \A i \in InChannel : channel[i].n # 0
  BY DEF TapInv, Ordered, Detections
<1>5. \A k, l \in InChannel : k < l => channel[k].n < channel[l].n
  BY DEF TapInv, Ordered
<1>6. \A i, h \in InChannel' : i < h =>
        \E j, l \in InChannel :
          j < l /\ channel'[i].n = channel[j].n /\ channel'[h].n = channel[l].n
  <2> SUFFICES ASSUME NEW i \in InChannel', NEW h \in InChannel', i < h
               PROVE  \E j, l \in InChannel :
                        j < l /\ channel'[i].n = channel[j].n /\ channel'[h].n = channel[l].n
    BY Zenon
  <2>1. i + 1 < h + 1
    BY <1>2
  <2> QED
    BY <1>2, <2>1, Zenon
<1>7. CASE Head(channel).kind = "detection"
  <2>1. 1 \in InChannel
    BY <1>1, <1>7 DEF InChannel
  <2>2. \A j \in InChannel : j # 1 => channel[j].n # channel[1].n
    <3> SUFFICES ASSUME NEW j \in InChannel, j # 1 PROVE channel[j].n # channel[1].n
      OBVIOUS
    <3>1. 1 < j
      BY <1>1 DEF InChannel
    <3>2. channel[1].n < channel[j].n /\ channel[1].n \in Nat /\ channel[j].n \in Nat
      BY <1>5, <2>1, <3>1 DEF TapInv, Ordered, Detections
    <3> QED
      BY <3>2
  <2>3. \A j \in InChannel : channel[j].n # channel[1].n =>
          \E i \in InChannel' : channel'[i].n = channel[j].n
    BY <1>3, Zenon
  <2>4. \A i \in InChannel' :
          channel'[i].n # channel[1].n /\ \E j \in InChannel : channel'[i].n = channel[j].n
    BY <1>2, <2>2, Zenon
  <2>5. ChannelWithout(channel[1].n)
    BY <1>1, <1>6, <2>3, <2>4, Zenon DEF ChannelWithout
  <2> QED
    BY <1>1, <1>7, <2>1, <2>5
<1>8. CASE Head(channel).kind # "detection"
  <2>1. 1 \notin InChannel
    BY <1>1, <1>8 DEF InChannel
  <2>2. \A j \in InChannel : \E i \in InChannel' : channel'[i].n = channel[j].n
    BY <1>3, <2>1, Zenon
  <2>3. \A i \in InChannel' :
          channel'[i].n # 0 /\ \E j \in InChannel : channel'[i].n = channel[j].n
    BY <1>2, <1>4, Zenon
  <2>4. ChannelWithout(0)
    BY <1>1, <1>6, <2>2, <2>3, Zenon DEF ChannelWithout
  <2> QED
    BY <1>8, <2>4
<1> QED
  BY <1>7, <1>8

\* A step that touches no detection.
LEMMA QuietKeeps ==
  ASSUME TapInv, ChannelWithout(0), UNCHANGED <<pending, sent, fate, tries>>,
         made' = [detections |-> made.detections, heartbeats |-> made'.heartbeats,
                  acks |-> made'.acks],
         made'.heartbeats \in Nat, failures' \in Nat, failures' >= failures
  PROVE  TapInv'
<1> USE DEF TapInv
<1>1. \A i \in InChannel : channel[i].n # 0
  BY DEF Ordered, Detections
<1>2. /\ \A i \in InChannel' : \E j \in InChannel : channel'[i].n = channel[j].n
      /\ \A j \in InChannel : \E i \in InChannel' : channel'[i].n = channel[j].n
  BY <1>1 DEF ChannelWithout
<1>3. TapTyped' /\ made'.detections = made.detections
  BY DEF TapTyped, ChannelWithout
<1>4. Ordered'
  BY <1>2, <1>3 DEF Ordered, ChannelWithout
<1>5. Retried'
  BY DEF Retried
<1>6. FIFO'
  BY DEF FIFO, TapTyped
<1>7. Conserved'
  BY <1>2 DEF Conserved
<1> QED
  BY <1>3, <1>4, <1>5, <1>6, <1>7

\* A new detection is newer than all others.
LEMMA PublishDetectionKeeps ==
  ASSUME TapInv, PublishDetection
  PROVE  TapInv'
<1> USE TapBufferAssumption DEF TapInv
<1> DEFINE n == made.detections + 1
<1>1. /\ n \in Detections /\ made.detections \in Nat /\ made' = [made EXCEPT !.detections = n]
      /\ channel' = Append(channel, [kind |-> "detection", n |-> n])
      /\ fate' = [fate EXCEPT ![n] = "live"]
      /\ UNCHANGED <<pending, sent, tries, failures>>
  <2>1. made.detections \in Nat /\ made.detections < MaxDetections
    BY DEF PublishDetection, TapTyped
  <2>2. n \in Detections
    BY <2>1 DEF Detections
  <2> QED
    BY <2>1, <2>2 DEF PublishDetection, Send
<1>2. /\ channel' \in Seq(Message) /\ Len(channel) \in Nat
      /\ DOMAIN channel = 1..Len(channel) /\ DOMAIN channel' = 1..(Len(channel) + 1)
      /\ channel'[Len(channel) + 1] = [kind |-> "detection", n |-> n]
      /\ \A i \in 1..Len(channel) : channel'[i] = channel[i]
  <2>1. [kind |-> "detection", n |-> n] \in Message
    BY <1>1 DEF Message
  <2> QED
    BY <1>1, <2>1, AppendOf DEF TapTyped
<1>3. /\ InChannel' = InChannel \union {Len(channel) + 1} /\ channel'[Len(channel) + 1].n = n
      /\ \A i \in InChannel : channel'[i] = channel[i] /\ i < Len(channel) + 1
  BY <1>2 DEF InChannel
<1>4. /\ made'.detections = n /\ fate'[n] = "live" /\ fate[n] = "unmade"
      /\ \A m \in Detections : m # n => fate'[m] = fate[m]
  BY <1>1 DEF TapTyped, Ordered
<1>5. TapTyped'
  <2>1. fate' \in [Detections -> Fates]
    BY <1>1 DEF TapTyped, Fates
  <2>2. /\ made' = [detections |-> made'.detections, heartbeats |-> made'.heartbeats,
                    acks |-> made'.acks]
        /\ made'.detections \in Nat /\ made'.heartbeats \in Nat
    <3>1. made' = [detections |-> n, heartbeats |-> made.heartbeats, acks |-> made.acks]
      <4>1. made = [detections |-> made.detections, heartbeats |-> made.heartbeats,
                    acks |-> made.acks]
        BY DEF TapTyped
      <4> QED
        BY <1>1, <4>1, SMTT(20)
    <3>2. n \in Nat /\ made.heartbeats \in Nat
      BY <1>1, SMTT(20) DEF TapTyped
    <3> HIDE DEF n, TapInv
    <3> QED
      BY <3>1, <3>2
  <2> QED
    BY <1>1, <1>2, <2>1, <2>2, Zenon DEF TapTyped
<1> HIDE DEF n
<1>6. /\ \A l \in DOMAIN pending : pending[l].n \in Detections /\ pending[l].n < n
      /\ \A l \in DOMAIN sent : sent[l] \in Detections /\ sent[l] < n
  <2>1. /\ \A l \in DOMAIN pending : pending[l].n \in Detections /\ pending[l].n \in Nat
        /\ \A l \in DOMAIN sent : sent[l] \in Detections /\ sent[l] \in Nat
    BY Numbers
  <2>2. /\ \A l \in DOMAIN pending : fate[pending[l].n] # "unmade"
        /\ \A l \in DOMAIN sent : fate[sent[l]] # "unmade"
    BY <2>1 DEF Conserved
  <2> QED
    <3>1. \A m \in Detections : m \in Nat /\ (fate[m] # "unmade" => m < n)
      BY <1>1, SMTT(30) DEF Ordered, Detections, n
    <3> QED
      BY <2>1, <2>2, <3>1
<1>7. \A k \in InChannel :
        channel[k].n \in Detections /\ channel[k].n \in Nat /\ channel[k].n < n
  BY <1>1, SMTT(30) DEF Ordered, Detections, n
<1>8. Ordered'
  <2>1. \A k \in InChannel' : channel'[k].n \in Detections /\ channel'[k].n <= n
    <3>1. n \in Nat /\ n <= n
      BY <1>1 DEF n
    <3>2. \A m \in Nat : m < n => m <= n
      BY <1>1 DEF n
    <3> QED
      BY <1>1, <1>3, <1>7, <3>1, <3>2, Zenon
  <2>2. \A k, l \in InChannel' : k < l => channel'[k].n < channel'[l].n
    BY <1>2, <1>3, <1>7 DEF Ordered, InChannel
  <2>3. /\ \A k \in InChannel', l \in DOMAIN pending : pending[l].n < channel'[k].n
        /\ \A k \in InChannel', l \in DOMAIN sent : sent[l] < channel'[k].n
    BY <1>3, <1>6 DEF Ordered
  <2>4. \A m \in Detections : fate'[m] = "unmade" <=> m > n
    BY <1>1, <1>4, SMTT(30) DEF Ordered, Detections, n
  <2> QED
    <3>1. pending' = pending /\ sent' = sent /\ made'.detections = n
      BY <1>1, <1>4
    <3> QED
      BY <2>1, <2>2, <2>3, <2>4, <3>1, Zenon DEF Ordered
<1>9. Retried' /\ FIFO'
  BY <1>1 DEF Retried, FIFO
<1>10. Conserved'
  <2>1. \A m \in Detections :
          fate'[m] = "live" <=> \/ \E k \in InChannel' : channel'[k].n = m
                                \/ \E k \in DOMAIN pending : pending[k].n = m
    BY <1>3, <1>4 DEF Conserved
  <2>2. /\ \A m \in Detections : fate'[m] = "sent" <=> \E k \in DOMAIN sent : sent[k] = m
        /\ \A m \in Detections : fate'[m] = "failed" => tries[m] >= MaxRetries
    BY <1>4 DEF Conserved
  <2>3. \A k \in InChannel', l \in DOMAIN pending : channel'[k].n # pending[l].n
    <3>1. \A l \in DOMAIN pending : pending[l].n # n
      <4>1. n \in Nat
        BY <1>1 DEF n
      <4> QED
        BY <1>6, <4>1, Numbers
    <3> QED
      BY <1>3, <3>1 DEF Conserved
  <2>4. /\ \A k, l \in DOMAIN sent : sent[k] = sent[l] => k = l
        /\ \A k, l \in DOMAIN pending : pending[k].n = pending[l].n => k = l
    BY DEF Conserved
  <2>5. UNCHANGED <<pending, sent, tries>>
    BY <1>1
  <2> QED
    BY <2>1, <2>2, <2>3, <2>4, <2>5 DEF Conserved
<1> QED
  BY <1>5, <1>8, <1>9, <1>10

\* A detection from the channel is pushed; the oldest makes room.
LEMMA PushKeeps ==
  ASSUME TapInv, NEW n, 1 \in InChannel, n = channel[1].n, ChannelWithout(n),
         push_detection(pending, fate, n), UNCHANGED <<sent, made>>,
         tries' \in [Detections -> Nat], \A m \in Detections : tries'[m] >= tries[m],
         failures' \in Nat, failures' >= failures
  PROVE  TapInv'
<1> USE DEF TapInv
<1>1. /\ n \in Detections /\ n \in Nat /\ n <= made.detections /\ fate[n] = "live"
      /\ \A k \in DOMAIN pending : pending[k].n < n
      /\ \A k \in DOMAIN sent : sent[k] < n
  BY TapBufferAssumption DEF Ordered, Conserved, Detections
<1>2. \A k \in InChannel : channel[k].n # n => n < channel[k].n
  <2> SUFFICES ASSUME NEW k \in InChannel, channel[k].n # n PROVE n < channel[k].n
    OBVIOUS
  <2>1. 1 < k
    BY DEF InChannel, TapTyped
  <2> QED
    BY <2>1 DEF Ordered
<1>3. PICK base, gone :
        /\ base \in Seq(Buffered) /\ pending' = Append(base, [n |-> n, retries |-> 0, ready |-> TRUE])
        /\ \/ base = pending /\ gone = 0 /\ fate' = fate
           \/ /\ Without(base, gone) /\ gone \in Detections /\ fate' = [fate EXCEPT ![gone] = "overflow"]
              /\ \E k \in DOMAIN pending : pending[k].n = gone
  <2>1. CASE Len(pending) >= MaxSize
    <3>1. pending # << >>
      BY <2>1, TapBufferAssumption
    <3>2. /\ 1 \in DOMAIN pending /\ pending[1].n = Head(pending).n
          /\ Without(Tail(pending), Head(pending).n) /\ Head(pending).n \in Detections
      BY <3>1, TailIs, Numbers
    <3>3. Tail(pending) \in Seq(Buffered)
      BY <3>2 DEF Without
    <3>4. /\ pending' = Append(Tail(pending), [n |-> n, retries |-> 0, ready |-> TRUE])
          /\ fate' = [fate EXCEPT ![Head(pending).n] = "overflow"]
      BY <2>1 DEF push_detection
    <3> QED
      BY <3>2, <3>3, <3>4, Zenon
  <2>2. CASE ~(Len(pending) >= MaxSize)
    <3>1. /\ pending' = Append(pending, [n |-> n, retries |-> 0, ready |-> TRUE])
          /\ fate' = fate
      BY <2>2 DEF push_detection
    <3> QED
      BY <3>1, Zenon DEF TapTyped
  <2> QED
    BY <2>1, <2>2, Zenon
<1> DEFINE new == [n |-> n, retries |-> 0, ready |-> TRUE]
           z == Len(base) + 1
<1>4. new \in Buffered /\ new.n = n /\ new.retries = 0 /\ new.ready = TRUE
  BY <1>1 DEF Buffered
<1>5. /\ pending' \in Seq(Buffered) /\ Len(base) \in Nat /\ DOMAIN base = 1..Len(base)
      /\ DOMAIN pending' = 1..z /\ pending'[z] = new
      /\ \A i \in 1..Len(base) : pending'[i] = base[i]
  BY <1>3, <1>4, AppendOf
<1>6. /\ DOMAIN pending' = DOMAIN base \union {z} /\ pending'[z].n = n /\ pending'[z].retries = 0
      /\ pending'[z].ready = TRUE
      /\ \A i \in DOMAIN base : pending'[i] = base[i] /\ i < z /\ ~(z < i)
  BY <1>4, <1>5
<1> HIDE DEF new, z
\* What is in base was in pending, in that order.
<1>7. /\ \A i \in DOMAIN base : \E j \in DOMAIN pending : base[i] = pending[j]
      /\ \A i, h \in DOMAIN base : i < h =>
           \E j, l \in DOMAIN pending : j < l /\ base[i] = pending[j] /\ base[h] = pending[l]
      /\ \A i \in DOMAIN base : base[i].n # gone
      /\ \A j \in DOMAIN pending : pending[j].n # gone =>
           \E i \in DOMAIN base : base[i].n = pending[j].n
  <2>1. CASE base = pending /\ gone = 0
    <3>1. \A i \in DOMAIN pending : pending[i].n # 0
      BY Numbers, TapBufferAssumption DEF Detections
    <3> QED
      BY <2>1, <3>1
  <2>2. CASE Without(base, gone)
    BY <2>2 DEF Without
  <2> QED
    BY <1>3, <2>1, <2>2
<1>8. /\ fate' \in [Detections -> Fates]
      /\ \A m \in Detections : m # gone => fate'[m] = fate[m]
      /\ gone \in Detections => fate'[gone] = "overflow" /\ fate[gone] = "live" /\ gone < n
  <2>1. CASE fate' = fate /\ gone = 0
    BY <2>1, TapBufferAssumption DEF TapTyped, Detections
  <2>2. CASE gone \in Detections /\ fate' = [fate EXCEPT ![gone] = "overflow"]
             /\ \E k \in DOMAIN pending : pending[k].n = gone
    <3>1. fate \in [Detections -> Fates] /\ "overflow" \in Fates
      BY DEF TapTyped, Fates
    <3>2. fate[gone] = "live" /\ gone < n
      BY <1>1, <2>2 DEF Conserved
    <3> QED
      BY <2>2, <3>1, <3>2
  <2> QED
    BY <1>3, <2>1, <2>2
<1>9. TapTyped'
  BY <1>5, <1>8 DEF TapTyped, ChannelWithout
<1>10. /\ \A i \in InChannel' : channel'[i].n # n /\ \E j \in InChannel : channel'[i].n = channel[j].n
       /\ \A i, h \in InChannel' : i < h =>
            \E j, l \in InChannel :
              j < l /\ channel'[i].n = channel[j].n /\ channel'[h].n = channel[l].n
       /\ \A j \in InChannel : channel[j].n # n => \E i \in InChannel' : channel'[i].n = channel[j].n
  BY DEF ChannelWithout
<1>11. Ordered'
  <2>1. \A k \in InChannel' : channel'[k].n \in Detections /\ channel'[k].n <= made.detections
    BY <1>10 DEF Ordered
  <2>2. \A k, l \in InChannel' : k < l => channel'[k].n < channel'[l].n
    BY <1>10 DEF Ordered
  <2>3. \A k \in InChannel', l \in DOMAIN pending' : pending'[l].n < channel'[k].n
    <3> SUFFICES ASSUME NEW k \in InChannel', NEW l \in DOMAIN pending'
                 PROVE  pending'[l].n < channel'[k].n
      OBVIOUS
    <3>1. CASE l \in DOMAIN base
      BY <1>6, <1>7, <1>10, <3>1 DEF Ordered
    <3>2. CASE l = z
      BY <1>2, <1>6, <1>10, <3>2, SMTT(30)
    <3> QED
      BY <1>6, <3>1, <3>2
  <2>4. \A k \in InChannel', l \in DOMAIN sent : sent[l] < channel'[k].n
    BY <1>10 DEF Ordered
  <2>5. \A m \in Detections : fate'[m] = "unmade" <=> m > made.detections
    BY <1>8 DEF Ordered
  <2> QED
    BY <2>1, <2>2, <2>3, <2>4, <2>5, Zenon DEF Ordered
<1>12. Retried'
  <2> SUFFICES ASSUME NEW l \in DOMAIN pending'
               PROVE  pending'[l].retries <= tries'[pending'[l].n]
    BY DEF Retried
  <2>1. CASE l \in DOMAIN base
    <3>1. PICK j \in DOMAIN pending : pending'[l] = pending[j]
      BY <1>6, <1>7, <2>1
    <3>2. /\ pending[j].retries \in Nat /\ pending[j].n \in Detections
          /\ pending[j].retries <= tries[pending[j].n]
      BY Numbers DEF Retried
    <3>3. tries[pending[j].n] \in Nat /\ tries'[pending[j].n] \in Nat
          /\ tries'[pending[j].n] >= tries[pending[j].n]
      BY <3>2 DEF TapTyped
    <3> QED
      BY <3>1, <3>2, <3>3
  <2>2. CASE l = z
    <3>1. tries'[n] \in Nat /\ pending'[l].n = n /\ pending'[l].retries = 0
      BY <1>1, <1>6, <2>2
    <3> QED
      BY <3>1
  <2> QED
    BY <1>6, <2>1, <2>2
<1>13. FIFO'
  <2> SUFFICES ASSUME failures' = 0
               PROVE  /\ \A k \in DOMAIN pending' : pending'[k].ready
                      /\ \A k, l \in DOMAIN pending' : k < l => pending'[k].n < pending'[l].n
                      /\ \A k \in DOMAIN sent, l \in DOMAIN pending' : sent[k] < pending'[l].n
                      /\ \A k, l \in DOMAIN sent : k < l => sent[k] < sent[l]
    BY DEF FIFO
  <2>1. failures = 0
    BY DEF TapTyped
  <2>2. /\ \A k \in DOMAIN pending : pending[k].ready
        /\ \A k, l \in DOMAIN pending : k < l => pending[k].n < pending[l].n
        /\ \A k \in DOMAIN sent, l \in DOMAIN pending : sent[k] < pending[l].n
        /\ \A k, l \in DOMAIN sent : k < l => sent[k] < sent[l]
    BY <2>1 DEF FIFO
  <2>3. \A k \in DOMAIN pending' : pending'[k].ready
    BY <1>6, <1>7, <2>2
  <2>4. \A k, l \in DOMAIN pending' : k < l => pending'[k].n < pending'[l].n
    <3> SUFFICES ASSUME NEW k \in DOMAIN pending', NEW l \in DOMAIN pending', k < l
                 PROVE  pending'[k].n < pending'[l].n
      OBVIOUS
    <3>1. k \in DOMAIN base
      BY <1>5, <1>6 DEF z
    <3>2. CASE l \in DOMAIN base
      BY <1>6, <1>7, <2>2, <3>1, <3>2
    <3>3. CASE l = z
      BY <1>1, <1>6, <1>7, <3>1, <3>3
    <3> QED
      BY <1>6, <3>2, <3>3
  <2>5. \A k \in DOMAIN sent, l \in DOMAIN pending' : sent[k] < pending'[l].n
    BY <1>1, <1>6, <1>7, <2>2, SMTT(30)
  <2> QED
    BY <2>2, <2>3, <2>4, <2>5
<1>14. Conserved'
  <2>1. ASSUME NEW m \in Detections
        PROVE  fate'[m] = "live" <=> \/ \E k \in InChannel' : channel'[k].n = m
                                     \/ \E k \in DOMAIN pending' : pending'[k].n = m
    <3>1. fate[m] = "live" <=> \/ \E k \in InChannel : channel[k].n = m
                               \/ \E k \in DOMAIN pending : pending[k].n = m
      BY DEF Conserved
    <3>2. CASE m = gone
      <4>1. fate'[m] = "overflow" /\ m < n /\ m \in Nat
        BY <1>8, <3>2, TapBufferAssumption DEF Detections
      <4>2. \A k \in InChannel : channel[k].n # m
        <5>1. m # 0
          BY TapBufferAssumption DEF Detections
        <5>2. PICK j \in DOMAIN pending : pending[j].n = m
          BY <1>3, <3>2, <5>1
        <5> QED
          BY <5>2 DEF Conserved
      <4>3. \A k \in DOMAIN pending' : pending'[k].n # m
        BY <1>1, <1>6, <1>7, <3>2, <4>1
      <4> QED
        BY <1>10, <4>1, <4>2, <4>3
    <3>3. CASE m # gone
      <4>1. (\E k \in InChannel' : channel'[k].n = m) <=> m # n /\ \E k \in InChannel : channel[k].n = m
        BY <1>10, SMTT(30)
      <4>2. (\E k \in DOMAIN pending' : pending'[k].n = m)
              <=> m = n \/ \E k \in DOMAIN pending : pending[k].n = m
        BY <1>6, <1>7, <3>3
      <4> QED
        BY <1>1, <1>8, <3>1, <3>3, <4>1, <4>2
    <3> QED
      BY <3>2, <3>3
  <2>2. \A m \in Detections : fate'[m] = "sent" <=> \E k \in DOMAIN sent : sent[k] = m
    BY <1>8 DEF Conserved
  <2>3. \A k, l \in DOMAIN sent : sent[k] = sent[l] => k = l
    BY DEF Conserved
  <2>4. \A k, l \in DOMAIN pending' : pending'[k].n = pending'[l].n => k = l
    <3>1. \A k, l \in DOMAIN base : k < l => base[k].n # base[l].n
      <4>1. \A j, l \in DOMAIN pending : j < l => pending[j].n # pending[l].n
        BY DEF Conserved, TapTyped
      <4> QED
        BY <1>7, <4>1
    <3>2. \A k, l \in DOMAIN base : base[k].n = base[l].n => k = l
      BY <1>5, <3>1
    <3>3. \A k \in DOMAIN base : base[k].n # n
      BY <1>1, <1>7, Numbers, SMTT(30)
    <3> QED
      BY <1>6, <3>2, <3>3
  <2>5. \A k \in InChannel', l \in DOMAIN pending' : channel'[k].n # pending'[l].n
    BY <1>6, <1>7, <1>10 DEF Conserved
  <2>6. \A m \in Detections : fate'[m] = "failed" => tries'[m] >= MaxRetries
    <3> SUFFICES ASSUME NEW m \in Detections, fate'[m] = "failed" PROVE tries'[m] >= MaxRetries
      BY Zenon
    <3>1. fate[m] = "failed" /\ tries[m] >= MaxRetries
      BY <1>8 DEF Conserved
    <3>2. tries'[m] >= tries[m] /\ tries[m] \in Nat /\ tries'[m] \in Nat
      BY DEF TapTyped
    <3> QED
      BY <3>1, <3>2, TapBufferAssumption
  <2> QED
    BY <2>1, <2>2, <2>3, <2>4, <2>5, <2>6 DEF Conserved
<1> QED
  BY <1>9, <1>11, <1>12, <1>13, <1>14

\* A detection is published; without a failure it was the oldest.
LEMMA SentKeeps ==
  ASSUME TapInv, NEW n \in Detections, fate[n] = "live", ChannelWithout(n), Without(pending', n),
         sent' = Append(sent, n), fate' = [fate EXCEPT ![n] = "sent"],
         UNCHANGED <<tries, made, failures>>, \A k \in InChannel' : n < channel'[k].n,
         failures = 0 => /\ \A k \in DOMAIN sent : sent[k] < n
                         /\ \A k \in DOMAIN pending' : n < pending'[k].n
  PROVE  TapInv'
<1> USE DEF TapInv
<1> DEFINE z == Len(sent) + 1
<1>1. /\ sent' \in Seq(Detections) /\ Len(sent) \in Nat /\ DOMAIN sent = 1..Len(sent)
      /\ DOMAIN sent' = 1..z /\ sent'[z] = n /\ \A i \in 1..Len(sent) : sent'[i] = sent[i]
  BY AppendOf DEF TapTyped
<1>2. /\ DOMAIN sent' = DOMAIN sent \union {z} /\ ~(z < z)
      /\ \A i \in DOMAIN sent : sent'[i] = sent[i] /\ i < z /\ ~(z < i)
  BY <1>1
<1> HIDE DEF z
<1>3. /\ fate' \in [Detections -> Fates] /\ fate'[n] = "sent"
      /\ \A m \in Detections : m # n => fate'[m] = fate[m]
  BY DEF TapTyped, Fates
<1>4. TapTyped'
  BY <1>1, <1>3, Zenon DEF TapTyped, ChannelWithout, Without
<1>5. /\ \A i \in InChannel' : channel'[i].n # n /\ \E j \in InChannel : channel'[i].n = channel[j].n
      /\ \A i, h \in InChannel' : i < h =>
           \E j, l \in InChannel :
             j < l /\ channel'[i].n = channel[j].n /\ channel'[h].n = channel[l].n
      /\ \A j \in InChannel : channel[j].n # n => \E i \in InChannel' : channel'[i].n = channel[j].n
  BY DEF ChannelWithout
<1>6. /\ \A i \in DOMAIN pending' : pending'[i].n # n /\ \E j \in DOMAIN pending : pending'[i] = pending[j]
      /\ \A i, h \in DOMAIN pending' : i < h =>
           \E j, l \in DOMAIN pending : j < l /\ pending'[i] = pending[j] /\ pending'[h] = pending[l]
      /\ \A j \in DOMAIN pending : pending[j].n # n =>
           \E i \in DOMAIN pending' : pending'[i].n = pending[j].n
  BY Zenon DEF Without
<1>7. Ordered'
  <2>1. \A k \in InChannel' : channel'[k].n \in Detections /\ channel'[k].n <= made.detections
    BY <1>5, ZenonT(40) DEF Ordered
  <2>2. \A k, l \in InChannel' : k < l => channel'[k].n < channel'[l].n
    BY <1>5 DEF Ordered
  <2>3. \A k \in InChannel', l \in DOMAIN pending' : pending'[l].n < channel'[k].n
    BY <1>5, <1>6, SMTT(30) DEF Ordered
  <2>4. \A k \in InChannel', l \in DOMAIN sent' : sent'[l] < channel'[k].n
    BY <1>1, <1>2, <1>5, SMTT(30) DEF Ordered
  <2>5. \A m \in Detections : fate'[m] = "unmade" <=> m > made.detections
    BY <1>3 DEF Ordered
  <2> QED
    BY <2>1, <2>2, <2>3, <2>4, <2>5, Zenon DEF Ordered
<1>8. Retried'
  BY <1>6 DEF Retried
<1>9. FIFO'
  <2> SUFFICES ASSUME failures = 0
               PROVE  /\ \A k \in DOMAIN pending' : pending'[k].ready
                      /\ \A k, l \in DOMAIN pending' : k < l => pending'[k].n < pending'[l].n
                      /\ \A k \in DOMAIN sent', l \in DOMAIN pending' : sent'[k] < pending'[l].n
                      /\ \A k, l \in DOMAIN sent' : k < l => sent'[k] < sent'[l]
    BY DEF FIFO
  <2>1. /\ \A k \in DOMAIN pending : pending[k].ready
        /\ \A k, l \in DOMAIN pending : k < l => pending[k].n < pending[l].n
        /\ \A k \in DOMAIN sent, l \in DOMAIN pending : sent[k] < pending[l].n
        /\ \A k, l \in DOMAIN sent : k < l => sent[k] < sent[l]
    BY DEF FIFO
  <2>2. \A k \in DOMAIN pending' : pending'[k].ready
    BY <1>6, <2>1
  <2>3. \A k, l \in DOMAIN pending' : k < l => pending'[k].n < pending'[l].n
    BY <1>6, <2>1, SMTT(30)
  <2>4. \A k \in DOMAIN sent', l \in DOMAIN pending' : sent'[k] < pending'[l].n
    BY <1>1, <1>2, <1>6, <2>1
  <2>5. \A k, l \in DOMAIN sent' : k < l => sent'[k] < sent'[l]
    BY <1>1, <1>2, <2>1
  <2> QED
    BY <2>2, <2>3, <2>4, <2>5, Zenon
<1>10. Conserved'
  <2>1. ASSUME NEW m \in Detections
        PROVE  fate'[m] = "live" <=> \/ \E k \in InChannel' : channel'[k].n = m
                                     \/ \E k \in DOMAIN pending' : pending'[k].n = m
    BY <1>3, <1>5, <1>6, SMTT(30) DEF Conserved
  <2>2. \A m \in Detections : fate'[m] = "sent" <=> \E k \in DOMAIN sent' : sent'[k] = m
    BY <1>1, <1>2, <1>3, SMTT(30) DEF Conserved
  <2>3. \A k, l \in DOMAIN sent' : sent'[k] = sent'[l] => k = l
    <3>1. \A k \in DOMAIN sent : sent[k] # n
      BY DEF Conserved
    <3> QED
      BY <1>1, <1>2, <3>1 DEF Conserved
  <2>4. \A k, l \in DOMAIN pending' : pending'[k].n = pending'[l].n => k = l
    <3>1. \A j, l \in DOMAIN pending : j < l => pending[j].n # pending[l].n
      BY DEF Conserved, TapTyped
    <3>2. \A k, l \in DOMAIN pending' : k < l => pending'[k].n # pending'[l].n
      BY <1>6, <3>1
    <3>3. pending' \in Seq(Buffered)
      BY DEF Without
    <3>4. \A k, l \in DOMAIN pending' : k = l \/ k < l \/ l < k
      BY <3>3, SMTT(30)
    <3> QED
      BY <3>2, <3>4
  <2>5. \A k \in InChannel', l \in DOMAIN pending' : channel'[k].n # pending'[l].n
    BY <1>5, <1>6, SMTT(30) DEF Conserved
  <2>6. \A m \in Detections : fate'[m] = "failed" => tries'[m] >= MaxRetries
    BY <1>3 DEF Conserved
  <2> QED
    BY <2>1, <2>2, <2>3, <2>4, <2>5, <2>6, Zenon DEF Conserved
<1> QED
  BY <1>4, <1>7, <1>8, <1>9, <1>10

\* What the worker had is lost, and counted as such.
LEMMA AbandonKeeps ==
  ASSUME TapInv, Abandon, UNCHANGED <<sent, made>>,
         tries' \in [Detections -> Nat], \A m \in Detections : tries'[m] >= tries[m],
         failures' \in Nat, failures' >= failures
  PROVE  TapInv'
<1> USE DEF TapInv
<1>1. /\ channel' = << >> /\ pending' = << >>
      /\ fate' = [m \in Detections |-> IF fate[m] = "live" THEN "abandoned" ELSE fate[m]]
  BY DEF Abandon
<1>2. DOMAIN channel' = {} /\ DOMAIN pending' = {} /\ InChannel' = {}
  BY <1>1 DEF InChannel
<1>3. \A m \in Detections : fate'[m] = IF fate[m] = "live" THEN "abandoned" ELSE fate[m]
  BY <1>1
<1>4. TapTyped'
  BY <1>1 DEF TapTyped, Fates
<1>5. Ordered' /\ Retried'
  BY <1>2, <1>3 DEF Ordered, Retried
<1>6. FIFO'
  BY <1>2, SMTT(30) DEF FIFO, TapTyped
<1>7. Conserved'
  <2>1. \A m \in Detections : fate'[m] = "failed" => tries'[m] >= MaxRetries
    <3> SUFFICES ASSUME NEW m \in Detections, fate'[m] = "failed" PROVE tries'[m] >= MaxRetries
      OBVIOUS
    <3>1. tries[m] >= MaxRetries
      BY <1>3 DEF Conserved
    <3>2. tries'[m] >= tries[m] /\ tries[m] \in Nat /\ tries'[m] \in Nat
      BY Zenon DEF TapTyped
    <3> QED
      BY <3>1, <3>2, TapBufferAssumption
  <2> QED
    BY <1>2, <1>3, <2>1 DEF Conserved
<1> QED
  BY <1>4, <1>5, <1>6, <1>7

\* A failed flush: the detection is given up after enough of them, or waits in front.
LEMMA RequeueKeeps ==
  ASSUME TapInv, NEW k \in DOMAIN pending, requeue(k), Failed(pending[k].n),
         UNCHANGED <<channel, sent, made>>, failures' = failures + 1
  PROVE  TapInv'
<1> USE DEF TapInv
<1> DEFINE n == pending[k].n
           r == pending[k].retries
           q == remove(pending, k)
<1>1. n \in Detections /\ r \in Nat /\ r <= tries[n] /\ fate[n] = "live" /\ pending[k] \in Buffered
  BY Numbers DEF Retried, Conserved
<1>2. Without(q, n)
  BY RemovedIs, SMTT(30)
<1>3. /\ q \in Seq(Buffered)
      /\ \A i \in DOMAIN q : q[i].n # n /\ \E j \in DOMAIN pending : q[i] = pending[j]
      /\ \A i, h \in DOMAIN q : i < h =>
           \E j, l \in DOMAIN pending : j < l /\ q[i] = pending[j] /\ q[h] = pending[l]
      /\ \A j \in DOMAIN pending : pending[j].n # n => \E i \in DOMAIN q : q[i].n = pending[j].n
  BY <1>2 DEF Without
<1>4. /\ tries' \in [Detections -> Nat] /\ tries'[n] = tries[n] + 1 /\ tries[n] \in Nat
      /\ \A m \in Detections : tries'[m] >= tries[m] /\ tries[m] \in Nat
  <2>1. tries \in [Detections -> Nat] /\ tries' = [tries EXCEPT ![n] = tries[n] + 1]
    BY DEF TapTyped, Failed
  <2>2. \A m \in Detections : tries[m] \in Nat /\ tries[m] + 1 >= tries[m] /\ tries[m] >= tries[m]
    BY <2>1
  <2> HIDE DEF n, r, q
  <2> QED
    BY <1>1, <2>1, <2>2
<1>5. FIFO' /\ failures' \in Nat
  BY DEF FIFO, TapTyped
<1>6. InChannel' = InChannel
  BY DEF InChannel
<1>7. \A i, h \in DOMAIN q : q[i].n = q[h].n => i = h
  <2>1. \A j, l \in DOMAIN pending : j < l => pending[j].n # pending[l].n
    BY SMTT(30) DEF Conserved, TapTyped
  <2>2. \A i, h \in DOMAIN q : i < h => q[i].n # q[h].n
    BY <1>3, <2>1, SMTT(30)
  <2>3. \A i, h \in DOMAIN q : i = h \/ i < h \/ h < i
    BY <1>3, SMTT(30)
  <2> QED
    BY <2>2, <2>3
<1>8. \A i \in DOMAIN q : q[i].retries <= tries'[q[i].n]
  <2> SUFFICES ASSUME NEW i \in DOMAIN q PROVE q[i].retries <= tries'[q[i].n]
    BY Zenon
  <2>1. PICK j \in DOMAIN pending : q[i] = pending[j]
    BY <1>3, Zenon
  <2>2. /\ pending[j].retries \in Nat /\ pending[j].n \in Detections
        /\ pending[j].retries <= tries[pending[j].n]
    BY Numbers, Zenon DEF Retried
  <2>3. /\ tries[pending[j].n] \in Nat /\ tries'[pending[j].n] \in Nat
        /\ tries'[pending[j].n] >= tries[pending[j].n]
    BY <1>4, <2>2, Zenon
  <2> QED
    BY <2>1, <2>2, <2>3
<1>9. \A m \in Detections : fate[m] = "failed" => tries'[m] >= MaxRetries
  <2> SUFFICES ASSUME NEW m \in Detections, fate[m] = "failed" PROVE tries'[m] >= MaxRetries
    OBVIOUS
  <2>1. tries[m] >= MaxRetries
    BY DEF Conserved
  <2>2. tries'[m] >= tries[m] /\ tries[m] \in Nat /\ tries'[m] \in Nat
    BY <1>4
  <2> QED
    BY <2>1, <2>2, TapBufferAssumption, SMTT(20)
<1>10. CASE r + 1 >= MaxRetries
  <2>1. pending' = q /\ fate' = [fate EXCEPT ![n] = "failed"]
    BY <1>10 DEF requeue
  <2>2. /\ fate' \in [Detections -> Fates] /\ fate'[n] = "failed"
        /\ \A m \in Detections : m # n => fate'[m] = fate[m]
    BY <1>1, <2>1, Zenon DEF TapTyped, Fates
  <2>3. tries'[n] >= MaxRetries
    BY <1>1, <1>4, <1>10, TapBufferAssumption
  <2> HIDE DEF n, q, r
  <2>4. TapTyped'
    BY <1>3, <1>4, <1>5, <2>1, <2>2, ZenonT(40) DEF TapTyped
  <2>5. Ordered'
    <3>1. \A i \in InChannel, l \in DOMAIN q : q[l].n < channel[i].n
      BY <1>3, Zenon DEF Ordered
    <3>2. \A m \in Detections : fate'[m] = "unmade" <=> m > made.detections
      BY <1>1, <2>2 DEF Ordered
    <3> QED
      BY <1>6, <2>1, <3>1, <3>2, Zenon DEF Ordered
  <2>6. Retried'
    BY <1>8, <2>1, Zenon DEF Retried
  <2>7. Conserved'
    <3>1. \A m \in Detections :
            fate'[m] = "live" <=> \/ \E i \in InChannel : channel[i].n = m
                                  \/ \E i \in DOMAIN q : q[i].n = m
      <4> SUFFICES ASSUME NEW m \in Detections
                   PROVE  fate'[m] = "live" <=> \/ \E i \in InChannel : channel[i].n = m
                                                \/ \E i \in DOMAIN q : q[i].n = m
        BY Zenon
      <4>1. CASE m = n
        <5>1. \A i \in InChannel : channel[i].n # n
          BY ZenonT(40) DEF Conserved, n
        <5> QED
          BY <1>3, <2>2, <4>1, <5>1, Zenon
      <4>2. CASE m # n
        BY <1>3, <2>2, <4>2, SMTT(30) DEF Conserved
      <4> QED
        BY <4>1, <4>2
    <3>2. \A m \in Detections : fate'[m] = "sent" <=> \E i \in DOMAIN sent : sent[i] = m
      BY <1>1, <2>2 DEF Conserved
    <3>3. \A m \in Detections : fate'[m] = "failed" => tries'[m] >= MaxRetries
      BY <1>9, <2>2, <2>3, ZenonT(40)
    <3>4. \A i \in InChannel, l \in DOMAIN q : channel[i].n # q[l].n
      BY <1>3 DEF Conserved
    <3>5. \A i, l \in DOMAIN sent : sent[i] = sent[l] => i = l
      BY DEF Conserved
    <3> QED
      BY <1>6, <1>7, <2>1, <3>1, <3>2, <3>3, <3>4, <3>5 DEF Conserved
  <2> QED
    BY <1>5, <2>4, <2>5, <2>6, <2>7
<1>11. CASE ~(r + 1 >= MaxRetries)
  <2> DEFINE x == [pending[k] EXCEPT !.retries = r + 1, !.ready = FALSE]
  <2>1. pending' = <<x>> \o q /\ fate' = fate
    BY <1>11 DEF requeue
  <2>2. x \in Buffered /\ x.n = n /\ x.retries = r + 1
    <3>1. r + 1 \in Nat
      BY <1>1, SMTT(30)
    <3> QED
      BY <1>1, <3>1, Retry, Zenon
  <2> HIDE DEF x
  <2>3. /\ pending' \in Seq(Buffered) /\ Len(q) \in Nat /\ DOMAIN q = 1..Len(q)
        /\ DOMAIN pending' = 1..(Len(q) + 1) /\ pending'[1] = x
        /\ \A i \in 2..(Len(q) + 1) : pending'[i] = q[i - 1]
    BY <1>3, <2>1, <2>2, ConsOf
  <2> HIDE DEF n, q, r
  <2>4. /\ \A i \in DOMAIN pending' : i = 1 \/ (i - 1 \in DOMAIN q /\ pending'[i] = q[i - 1])
        /\ \A i \in DOMAIN q : i + 1 \in DOMAIN pending' /\ pending'[i + 1] = q[i]
        /\ 1 \in DOMAIN pending' /\ pending'[1].n = n /\ pending'[1].retries = r + 1
    BY <2>2, <2>3
  <2>5. \A m : (\E i \in DOMAIN pending' : pending'[i].n = m)
                 <=> \E j \in DOMAIN pending : pending[j].n = m
    <3>1. k \in DOMAIN pending /\ pending[k].n = n
      BY DEF n
    <3> QED
      BY <1>3, <2>4, <3>1
  <2>6. TapTyped'
    BY <1>4, <1>5, <2>1, <2>3, Zenon DEF TapTyped
  <2>7. \A i \in InChannel, l \in DOMAIN pending' :
          channel[i].n # pending'[l].n /\ pending'[l].n < channel[i].n
    BY <2>5 DEF Conserved, Ordered
  <2>8. Ordered'
    BY <1>6, <2>1, <2>7, ZenonT(40) DEF Ordered
  <2>9. Retried'
    BY <1>1, <1>4, <1>8, <2>4 DEF Retried
  <2>10. \A i, l \in DOMAIN pending' : pending'[i].n = pending'[l].n => i = l
    <3> SUFFICES ASSUME NEW i \in DOMAIN pending', NEW l \in DOMAIN pending',
                        pending'[i].n = pending'[l].n
                 PROVE  i = l
      OBVIOUS
    <3>1. CASE i # 1 /\ l # 1
      <4>1. i - 1 = l - 1
        BY <1>7, <2>4, <3>1
      <4> QED
        BY <2>3, <4>1
    <3>2. CASE i = 1 \/ l = 1
      BY <1>3, <2>4, <3>2, SMTT(20)
    <3> QED
      BY <3>1, <3>2
  <2>11. Conserved'
    <3>1. \A m \in Detections :
            fate[m] = "live" <=> \/ \E i \in InChannel : channel[i].n = m
                                 \/ \E i \in DOMAIN pending' : pending'[i].n = m
      BY <2>5, Zenon DEF Conserved
    <3>2. /\ \A m \in Detections : fate[m] = "sent" <=> \E i \in DOMAIN sent : sent[i] = m
          /\ \A i, l \in DOMAIN sent : sent[i] = sent[l] => i = l
      BY Zenon DEF Conserved
    <3>3. fate' = fate /\ UNCHANGED <<channel, sent>>
      BY <2>1
    <3> QED
      BY <1>6, <1>9, <2>7, <2>10, <3>1, <3>2, <3>3 DEF Conserved
  <2> QED
    BY <1>5, <2>6, <2>8, <2>9, <2>11
<1> QED
  BY <1>10, <1>11, Zenon

\* A delay ends: a failure was behind it.
LEMMA BackoffKeeps ==
  ASSUME TapInv, NEW k, BackoffEnds(k)
  PROVE  TapInv'
<1> USE DEF TapInv
<1>1. /\ k \in DOMAIN pending /\ ~pending[k].ready
      /\ pending' = [pending EXCEPT ![k] = [pending[k] EXCEPT !.ready = TRUE]]
      /\ UNCHANGED <<channel, fate, tries, sent, made, failures>>
  BY DEF BackoffEnds
<1>2. failures # 0
  BY <1>1 DEF FIFO
<1>3. pending[k] \in Buffered /\ pending \in Seq(Buffered)
  BY <1>1, Numbers DEF TapTyped
<1> DEFINE x == [pending[k] EXCEPT !.ready = TRUE]
<1>4. x \in Buffered /\ x.n = pending[k].n /\ x.retries = pending[k].retries
  BY <1>3, Readied, Zenon
<1>5. pending' = [pending EXCEPT ![k] = x]
  BY <1>1
<1> HIDE DEF x
<1>6. /\ pending' \in Seq(Buffered) /\ DOMAIN pending' = DOMAIN pending
      /\ \A i \in DOMAIN pending : pending'[i] = IF i = k THEN x ELSE pending[i]
  <2>1. /\ [pending EXCEPT ![k] = x] \in Seq(Buffered)
        /\ DOMAIN [pending EXCEPT ![k] = x] = DOMAIN pending
        /\ \A i \in DOMAIN pending :
             [pending EXCEPT ![k] = x][i] = IF i = k THEN x ELSE pending[i]
    BY <1>1, <1>3, <1>4, ReplaceOf, Zenon
  <2> QED
    BY <1>5, <2>1, Zenon
<1>7. \A i \in DOMAIN pending :
        pending'[i].n = pending[i].n /\ pending'[i].retries = pending[i].retries
  BY <1>4, <1>6
<1>8. InChannel' = InChannel
  BY <1>1 DEF InChannel
<1>9. TapTyped' /\ FIFO'
  BY <1>1, <1>2, <1>6 DEF TapTyped, FIFO
<1>10. Ordered'
  BY <1>1, <1>6, <1>7, <1>8 DEF Ordered
<1>11. Retried'
  BY <1>1, <1>6, <1>7 DEF Retried
<1>12. Conserved'
  BY <1>1, <1>6, <1>7, <1>8, SMTT(20) DEF Conserved
<1> QED
  BY <1>9, <1>10, <1>11, <1>12

-----------------------------------------------------------------------------
LEMMA TapInitially ==
  ASSUME Init
  PROVE  TapInv
<1>1. /\ channel = << >> /\ pending = << >> /\ sent = << >> /\ failures = 0
      /\ fate = [n \in Detections |-> "unmade"] /\ tries = [n \in Detections |-> 0]
      /\ made = [detections |-> 0, heartbeats |-> 0, acks |-> 0]
  BY DEF Init
<1>2. DOMAIN channel = {} /\ DOMAIN pending = {} /\ DOMAIN sent = {} /\ InChannel = {}
  BY <1>1 DEF InChannel
<1>3. TapTyped
  BY <1>1 DEF TapTyped, Fates
<1>4. Ordered
  BY <1>1, <1>2, TapBufferAssumption DEF Ordered, Detections
<1>5. Retried /\ FIFO
  BY <1>2, Zenon DEF Retried, FIFO
<1>6. Conserved
  BY <1>1, <1>2 DEF Conserved
<1> QED
  BY <1>3, <1>4, <1>5, <1>6 DEF TapInv

\* The senders, the connection and the worker's steps without a detection.
LEMMA OthersKeep ==
  ASSUME TapInv,
         \/ PublishHeartbeat \/ PublishAck \/ Shutdown \/ GoDown \/ ComeUp \/ PollConnection
         \/ ReceiveHeartbeat \/ ReceiveAck \/ Tick \/ EndFlush \/ EndCollect \/ UNCHANGED vars
  PROVE  TapInv'
<1>1. /\ UNCHANGED <<pending, sent, fate, tries>>
      /\ failures' = failures \/ failures' = failures + 1
  BY DEF PublishHeartbeat, PublishAck, Shutdown, Send, GoDown, ComeUp, PollConnection,
         ReceiveHeartbeat, ReceiveAck, Tick, EndFlush, EndCollect, vars, PublishWorks,
         PublishFails
<1>2. failures' \in Nat /\ failures' >= failures
  BY <1>1 DEF TapInv, TapTyped
<1>3. /\ made' = [detections |-> made.detections, heartbeats |-> made'.heartbeats,
                  acks |-> made'.acks]
      /\ made'.heartbeats \in Nat
  <2>1. /\ made.heartbeats \in Nat
        /\ made = [detections |-> made.detections, heartbeats |-> made.heartbeats,
                   acks |-> made.acks]
    BY DEF TapInv, TapTyped
  <2>2. \/ made' = made \/ made' = [made EXCEPT !.heartbeats = made.heartbeats + 1]
        \/ made' = [made EXCEPT !.acks = 1]
    BY SMTT(30) DEF PublishHeartbeat, PublishAck, Shutdown, Send, GoDown, ComeUp, PollConnection,
           ReceiveHeartbeat, ReceiveAck, Tick, EndFlush, EndCollect, vars
  <2> QED
    BY <2>1, <2>2
<1>4. ChannelWithout(0)
  <2>1. CASE UNCHANGED channel
    BY <2>1, ChannelKept
  <2>2. CASE PublishHeartbeat \/ PublishAck \/ Shutdown
    <3>1. PICK kind \in {"heartbeat", "ack", "shutdown"}, n \in Nat :
             channel' = Append(channel, [kind |-> kind, n |-> n])
      <4>1. CASE PublishHeartbeat
        <5>1. made.heartbeats + 1 \in Nat
          BY DEF TapInv, TapTyped
        <5>2. channel' = Append(channel, [kind |-> "heartbeat", n |-> made.heartbeats + 1])
          BY <4>1 DEF PublishHeartbeat, Send
        <5> QED
          BY <5>1, <5>2, Zenon
      <4>2. CASE PublishAck \/ Shutdown
        BY <4>2 DEF PublishAck, Shutdown, Send
      <4> QED
        BY <2>2, <4>1, <4>2, Zenon
    <3>2. [kind |-> kind, n |-> n] \in Message /\ [kind |-> kind, n |-> n].kind # "detection"
      BY DEF Message
    <3> QED
      BY <3>1, <3>2, ChannelSent
  <2>3. CASE ReceiveHeartbeat \/ ReceiveAck
    <3>1. channel # << >> /\ channel' = Tail(channel) /\ Head(channel).kind # "detection"
      BY <2>3, Zenon DEF ReceiveHeartbeat, ReceiveAck, Receive
    <3> QED
      BY <3>1, ChannelTaken
  <2> QED
    BY <2>1, <2>2, <2>3 DEF GoDown, ComeUp, PollConnection, Tick, EndFlush, EndCollect, vars
<1> QED
  BY <1>1, <1>2, <1>3, <1>4, QuietKeeps

\* The worker reads a detection.
LEMMA ReceiveDetectionKeeps ==
  ASSUME TapInv, ReceiveDetection
  PROVE  TapInv'
<1> DEFINE n == Head(channel).n
<1>1. /\ 1 \in InChannel /\ channel[1] = Head(channel) /\ ChannelWithout(n)
      /\ UNCHANGED made /\ failures \in Nat /\ tries \in [Detections -> Nat]
  BY ChannelTaken, Zenon DEF ReceiveDetection, Receive, TapInv, TapTyped
<1>2. /\ n \in Detections /\ n \in Nat /\ fate[n] = "live"
      /\ \A k \in DOMAIN sent : sent[k] < n
  BY <1>1, TapBufferAssumption DEF TapInv, Ordered, Conserved, Detections
<1>3. CASE MayPublishNow /\ PublishWorks /\ Published(n) /\ UNCHANGED <<pending, tries>>
  <2>1. pending = << >> /\ pending' = << >> /\ DOMAIN pending = {} /\ DOMAIN pending' = {}
    BY <1>3 DEF MayPublishNow
  <2>2. Without(pending', n)
    BY <2>1, SMTT(20) DEF Without
  <2>3. \A k \in InChannel' : n < channel'[k].n
    <3> SUFFICES ASSUME NEW k \in InChannel' PROVE n < channel'[k].n
      OBVIOUS
    <3>1. PICK j \in InChannel : channel'[k].n = channel[j].n /\ channel[j].n # n
      BY <1>1 DEF ChannelWithout
    <3>2. 1 < j
      BY <1>1, <3>1 DEF InChannel, TapInv, TapTyped
    <3> QED
      BY <1>1, <3>1, <3>2 DEF TapInv, Ordered
  <2> HIDE DEF n
  <2> QED
    BY <1>1, <1>2, <1>3, <2>1, <2>2, <2>3, SentKeeps, Zenon DEF Published, PublishWorks
<1>4. CASE push_detection(pending, fate, n) /\ UNCHANGED sent
           /\ \/ PublishFails /\ Failed(n)
              \/ UNCHANGED <<tries, failures>>
  <2>1. failures' \in Nat /\ failures' >= failures
    BY <1>1, <1>4, SMTT(30) DEF PublishFails
  <2>2. tries' \in [Detections -> Nat] /\ \A m \in Detections : tries'[m] >= tries[m]
    BY <1>1, <1>2, <1>4 DEF Failed
  <2> HIDE DEF n
  <2>3. n = channel[1].n
    BY <1>1, Zenon DEF n
  <2> QED
    BY <1>1, <1>4, <2>1, <2>2, <2>3, PushKeeps
<1> QED
  BY <1>3, <1>4, Zenon DEF ReceiveDetection

\* The worker publishes a pending detection, the first that may be.
LEMMA SendPendingKeeps ==
  ASSUME TapInv, NEW k \in DOMAIN pending, failures = 0 => k = 1,
         PublishWorks, Published(pending[k].n), pending' = remove(pending, k),
         UNCHANGED <<channel, tries, made>>
  PROVE  TapInv'
<1> DEFINE n == pending[k].n
<1>1. n \in Detections /\ n \in Nat /\ fate[n] = "live"
  BY Numbers DEF TapInv, Conserved
<1>2. Without(pending', n)
  BY RemovedIs, SMTT(20)
<1>3. \A i \in InChannel : n < channel[i].n /\ channel[i].n # n
  BY DEF TapInv, Ordered, Conserved
<1>4. ChannelWithout(n)
  BY <1>3, ChannelKept, Zenon DEF ChannelWithout, InChannel
<1>5. \A i \in InChannel' : n < channel'[i].n
  BY <1>3, Zenon DEF InChannel
<1>6. ASSUME failures = 0
      PROVE  /\ \A i \in DOMAIN sent : sent[i] < n
             /\ \A i \in DOMAIN pending' : n < pending'[i].n
  <2>1. /\ k = 1
        /\ \A i \in DOMAIN sent, l \in DOMAIN pending : sent[i] < pending[l].n
        /\ \A i, l \in DOMAIN pending : i < l => pending[i].n < pending[l].n
    BY <1>6 DEF TapInv, FIFO
  <2>2. \A j \in DOMAIN pending : j # 1 => 1 < j
    BY SMTT(30) DEF TapInv, TapTyped
  <2>3. \A j \in DOMAIN pending : pending[j].n # n => n < pending[j].n
    BY <2>1, <2>2, Zenon
  <2> HIDE DEF n
  <2>4. \A i \in DOMAIN pending' : n < pending'[i].n
    BY <1>2, <2>3 DEF Without
  <2> QED
    BY <2>1, <2>4, Zenon DEF n
<1> HIDE DEF n
<1>7. sent' = Append(sent, n) /\ fate' = [fate EXCEPT ![n] = "sent"] /\ UNCHANGED failures
  BY DEF n, Published, PublishWorks
<1> QED
  BY <1>1, <1>2, <1>4, <1>5, <1>6, <1>7, SentKeeps, ZenonT(40)

LEMMA FlushKeeps ==
  ASSUME TapInv, NEW k, FlushOne(k)
  PROVE  TapInv'
<1>1. k \in DOMAIN pending /\ pending[k].ready /\ \A l \in 1..(k - 1) : ~pending[l].ready
  BY DEF FlushOne, IsReady
<1>2. failures = 0 => k = 1
  <2> SUFFICES ASSUME failures = 0, k # 1 PROVE FALSE
    OBVIOUS
  <2>1. 1 \in 1..(k - 1) /\ 1 \in DOMAIN pending
    BY <1>1, SMTT(30) DEF TapInv, TapTyped
  <2> QED
    BY <1>1, <2>1 DEF TapInv, FIFO
<1>3. CASE PublishWorks /\ Published(pending[k].n) /\ UNCHANGED tries
           /\ pending' = remove(pending, k)
  BY <1>1, <1>2, <1>3, SendPendingKeeps DEF FlushOne
<1>4. CASE PublishFails /\ Failed(pending[k].n) /\ requeue(k) /\ UNCHANGED sent
  BY <1>1, <1>4, RequeueKeeps, Zenon DEF FlushOne, PublishFails
<1> QED
  BY <1>3, <1>4 DEF FlushOne

\* The end of the TAP.
LEMMA EndingKeeps ==
  ASSUME TapInv, ReceiveShutdown \/ Collect \/ DrainOne \/ EndDrain \/ ProcessEnds
  PROVE  TapInv'
<1>1. /\ failures \in Nat /\ tries \in [Detections -> Nat] /\ UNCHANGED made
      /\ made = [detections |-> made.detections, heartbeats |-> made.heartbeats,
                 acks |-> made.acks] /\ made.heartbeats \in Nat
      /\ \A m \in Detections : tries[m] >= tries[m]
  BY DEF TapInv, TapTyped, ReceiveShutdown, Collect, DrainOne, EndDrain, ProcessEnds
<1>2. failures >= failures
  BY <1>1
<1>3. CASE Abandon /\ UNCHANGED <<sent, tries, failures>>
  BY <1>1, <1>2, <1>3, AbandonKeeps
<1>4. CASE ReceiveShutdown /\ ~Abandon
  <2>1. /\ channel # << >> /\ Head(channel).kind # "detection" /\ channel' = Tail(channel)
        /\ UNCHANGED <<pending, fate, sent, tries, failures>>
    BY <1>4 DEF ReceiveShutdown
  <2>2. ChannelWithout(0)
    BY <2>1, ChannelTaken
  <2> QED
    BY <1>1, <1>2, <2>1, <2>2, QuietKeeps
<1>5. CASE Collect
  <2>1. channel # << >> /\ channel' = Tail(channel) /\ UNCHANGED <<sent, tries, failures>>
    BY <1>5 DEF Collect
  <2>2. CASE Head(channel).kind = "detection"
    <3>1. push_detection(pending, fate, Head(channel).n)
      BY <1>5, <2>2 DEF Collect
    <3>2. 1 \in InChannel /\ channel[1] = Head(channel) /\ ChannelWithout(Head(channel).n)
      BY <2>1, <2>2, ChannelTaken
    <3>3. Head(channel).n = channel[1].n
      BY <3>2
    <3> QED
      BY <1>1, <1>2, <2>1, <3>1, <3>2, <3>3, PushKeeps, SMTT(30)
  <2>3. CASE Head(channel).kind # "detection"
    <3>1. UNCHANGED <<pending, fate>>
      BY <1>5, <2>3 DEF Collect
    <3>2. ChannelWithout(0)
      BY <2>1, <2>3, ChannelTaken
    <3> QED
      BY <1>1, <1>2, <2>1, <3>1, <3>2, QuietKeeps, Zenon
  <2> QED
    BY <2>2, <2>3, SMTT(30)
<1>6. CASE DrainOne
  <2>1. pending # << >>
    BY <1>6 DEF DrainOne
  <2>2. 1 \in DOMAIN pending /\ pending[1] = Head(pending) /\ Tail(pending) = remove(pending, 1)
    BY <2>1, TailIs
  <2>3. CASE PublishWorks /\ Published(Head(pending).n) /\ pending' = Tail(pending)
             /\ UNCHANGED <<channel, tries>>
    BY <1>1, <2>2, <2>3, SendPendingKeeps
  <2>4. CASE PublishFails /\ Failed(Head(pending).n) /\ Abandon /\ UNCHANGED sent
    <3>1. failures' \in Nat /\ failures' >= failures
      BY <1>1, <2>4 DEF PublishFails
    <3>2. Head(pending).n \in Detections
      BY <2>2, Numbers DEF TapInv
    <3>3. tries' \in [Detections -> Nat] /\ \A m \in Detections : tries'[m] >= tries[m]
      BY <1>1, <2>4, <3>2 DEF Failed
    <3> QED
      BY <1>1, <2>4, <3>1, <3>3, AbandonKeeps
  <2> QED
    BY <1>6, <2>3, <2>4, SMTT(30) DEF DrainOne
<1> QED
  BY <1>3, <1>4, <1>5, <1>6, SMTT(30) DEF ReceiveShutdown, EndDrain, ProcessEnds

LEMMA TapKeeps == TapInv /\ [Next]_vars => TapInv'
BY OthersKeep, PublishDetectionKeeps, BackoffKeeps, ReceiveDetectionKeeps, FlushKeeps,
   EndingKeeps DEF Next, Worker, ReceiveMessage

\* push_detection, requeue and buffer_worker (buffer.rs): every detection is in one place,
\* or was published once, or is counted as lost, for any sizes, failures and outages.
THEOREM DetectionsAreConserved == Spec => []Conserved
<1>1. TapInv => Conserved
  BY SMTT(30) DEF TapInv
<1> QED
  BY <1>1, TapInitially, TapKeeps, PTL DEF Spec

\* buffer_worker: as long as no publish fails, detections are published in the order they
\* were made, through any outage and whatever the buffer's size.
THEOREM DetectionsAreInOrder == Spec => []InOrderUnlessFailed
<1>1. TapInv => InOrderUnlessFailed
  BY DEF TapInv, FIFO, InOrderUnlessFailed
<1> QED
  BY <1>1, TapInitially, TapKeeps, PTL DEF Spec
=============================================================================
