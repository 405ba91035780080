--------------------------- MODULE DetectionStore ---------------------------
(***************************************************************************)
(* From a handled detection to the database: the bounded dbQueue of the    *)
(* receiver (internal/receiver/nats.go), its worker pool, and              *)
(* SaveDetectionBatch with its fallback (internal/storage/store.go).       *)
(*                                                                         *)
(* Every handled detection becomes a job.  log[n] is the n-th job; queue,  *)
(* handlers and workers hold job numbers.  A worker takes a job, drains up *)
(* to MaxBatch of them, plans the batch (the 30 s rate limit on rows       *)
(* without a position is consulted and updated while the batch is built),  *)
(* sends it, and on an error saves the jobs one by one and then retries    *)
(* the whole batch.                                                        *)
(*                                                                         *)
(* PostgreSQL is external: a batch is one transaction that commits or not, *)
(* and its reply can be lost after the commit; a single statement works or *)
(* fails.  The module implements TrackStore: what the pipeline does to     *)
(* INSERT jobs is no more than writing, repeating and losing them.         *)
(***************************************************************************)
EXTENDS Integers, Sequences

CONSTANTS
  Ids, Controllers, CounterReadMayFail, MaxTrack,   \* as in TrackStore
  Handlers,     \* goroutines that handle detections
  Workers,      \* dbWorkerCount
  QueueSize,    \* dbQueueSize
  MaxBatch,     \* maxBatchSize
  MaxRetries,   \* dbMaxRetries
  Events,       \* which of AllEvents happen
  MaxJobs,      \* bound: jobs offered
  MaxStarts     \* bound: starts of the process

\* What the surroundings can do: a suspect detection, a batch that fails or
\* whose reply is lost, a failing single statement, the end of the 30 s window,
\* a drone leaving memory, a row expiring, and a shutdown.
AllEvents == {"suspect", "batch", "reply", "statement", "window", "forget", "expire", "close"}

ASSUME DetectionStoreAssumption ==
  /\ Events \subseteq AllEvents
  /\ QueueSize \in Nat \ {0} /\ MaxBatch \in Nat \ {0}
  /\ MaxRetries \in Nat /\ MaxJobs \in Nat /\ MaxStarts \in Nat

VARIABLES
  phase, mem, next, rows, issued,   \* as in TrackStore
  stage,     \* of Receiver.Close: "open", "cancelled", "closed" or "panic"
  log,       \* every job ever offered
  queue,     \* dbQueue
  handler,   \* what each handler is doing
  worker,    \* what each worker is doing
  recent,    \* identifiers with detLastInsert less than 30 s ago
  recorded,  \* job -> rows in the detections table
  outcome,   \* job -> how it was counted, "open" while it is under way
  starts     \* how often the process was started

pipeline == <<log, queue, handler, worker, recorded, outcome>>
vars == <<phase, mem, next, rows, issued, stage, recent, starts, pipeline>>

None == -1
NoJob == 0
JobNumber == 1 .. MaxJobs
IdleHandler == [pc |-> "idle", id |-> None, n |-> NoJob]
IdleWorker == [pc |-> "idle", batch |-> << >>, plan |-> {}, k |-> 0, attempt |-> 0]

\* The jobs that are somewhere in the pipeline.
InQueue == {queue[k] : k \in DOMAIN queue}
InBatch(w) == {worker[w].batch[k] : k \in DOMAIN worker[w].batch}
InHandler(h) == {handler[h].n} \ {NoJob}
Pending ==
  InQueue \cup (UNION {InBatch(w) : w \in Workers}) \cup (UNION {InHandler(h) : h \in Handlers})

\* The INSERT jobs among them, as TrackStore sees them.
PendingInserts ==
  {[id |-> log[n].id, track |-> log[n].track] : n \in {p \in Pending : log[p].new}}

TS == INSTANCE TrackStore WITH jobs <- PendingInserts

Init ==
  /\ phase = "down" /\ stage = "open"
  /\ mem = [i \in Ids |-> None] /\ next = 0
  /\ rows = [i \in Ids |-> None] /\ issued = {}
  /\ log = << >> /\ queue = << >>
  /\ handler = [h \in Handlers |-> IdleHandler]
  /\ worker = [w \in Workers |-> IdleWorker]
  /\ recent = {}
  /\ recorded = [n \in JobNumber |-> 0]
  /\ outcome = [n \in JobNumber |-> "none"]
  /\ starts = 0
-----------------------------------------------------------------------------
(***************************************************************************)
(* The handlers: handleDetection and handleSuspectDetection.               *)
(***************************************************************************)
\* The handler has a job in hand and will offer it to the queue.
Offer(h, i, new, track, pos) ==
  /\ Len(log) < MaxJobs
  /\ log' = Append(log, [id |-> i, new |-> new, track |-> track, pos |-> pos])
  /\ outcome' = [outcome EXCEPT ![Len(log) + 1] = "open"]
  /\ handler' = [handler EXCEPT ![h] = [pc |-> "queue", id |-> i, n |-> Len(log) + 1]]
  /\ UNCHANGED <<phase, rows, stage, recent, starts, queue, worker, recorded>>

\* UpdateDrone creates drone i, with a number unless it is a controller.
Create(h, i, pos) ==
  /\ mem[i] = None
  /\ IF i \in Controllers
       THEN mem' = [mem EXCEPT ![i] = 0] /\ UNCHANGED <<next, issued>>
       ELSE TS!Assign(i)
  /\ Offer(h, i, TRUE, mem'[i], pos)

HandleDetection(h, i, pos) ==
  /\ phase = "running"
  /\ handler[h].pc = "idle"
  /\ \/ Create(h, i, pos)
     \/ mem[i] # None /\ Offer(h, i, FALSE, 0, pos) /\ UNCHANGED <<mem, next, issued>>

\* handleSuspectDetection finds no drone for the MAC and goes on to check it
\* against the false positives, a query to Redis or PostgreSQL.
LookupSuspect(h, i) ==
  /\ "suspect" \in Events
  /\ phase = "running"
  /\ handler[h].pc = "idle"
  /\ mem[i] = None
  /\ i \notin Controllers
  /\ Len(log) < MaxJobs
  /\ handler' = [handler EXCEPT ![h] = [pc |-> "suspect", id |-> i, n |-> NoJob]]
  /\ UNCHANGED <<phase, mem, next, rows, issued, stage, recent, starts,
                 log, queue, worker, recorded, outcome>>

\* It is no false positive.  The job is always an INSERT; a drone that
\* appeared meanwhile takes the detection, which then carries no number.
HandleSuspect(h) ==
  LET i == handler[h].id
  IN  /\ handler[h].pc = "suspect"
      /\ \/ Create(h, i, FALSE)
         \/ mem[i] # None /\ Offer(h, i, TRUE, 0, FALSE) /\ UNCHANGED <<mem, next, issued>>

RejectSuspect(h) ==
  /\ handler[h].pc = "suspect"
  /\ handler' = [handler EXCEPT ![h] = IdleHandler]
  /\ UNCHANGED <<phase, mem, next, rows, issued, stage, recent, starts,
                 log, queue, worker, recorded, outcome>>

\* A bug: a job the queue has no room for is not counted as dropped.
Enqueue_Uncounted(h) ==
  /\ handler[h].pc = "queue"
  /\ stage \in {"open", "cancelled"}
  /\ IF Len(queue) < QueueSize
       THEN queue' = Append(queue, handler[h].n)
       ELSE UNCHANGED queue
  /\ handler' = [handler EXCEPT ![h] = IdleHandler]
  /\ UNCHANGED <<phase, mem, next, rows, issued, stage, recent, starts,
                 log, worker, recorded, outcome>>

\* The non-blocking send: a full queue drops the job and counts it.
Enqueue(h) ==
  /\ handler[h].pc = "queue"
  /\ stage \in {"open", "cancelled"}
  /\ IF Len(queue) < QueueSize
       THEN queue' = Append(queue, handler[h].n) /\ UNCHANGED outcome
       ELSE UNCHANGED queue /\ outcome' = [outcome EXCEPT ![handler[h].n] = "dropped"]
  /\ handler' = [handler EXCEPT ![h] = IdleHandler]
  /\ UNCHANGED <<phase, mem, next, rows, issued, stage, recent, starts,
                 log, worker, recorded>>
-----------------------------------------------------------------------------
(***************************************************************************)
(* The workers: dbWorker, SaveDetectionBatch and SaveDetection.            *)
(***************************************************************************)
Batch(w) == worker[w].batch

Job(w, k) == log[Batch(w)[k]]

\* The blocking receive of the first job.
Take(w) ==
  /\ worker[w].pc = "idle"
  /\ queue # << >>
  /\ worker' = [worker EXCEPT ![w].pc = "drain", ![w].batch = <<Head(queue)>>]
  /\ queue' = Tail(queue)
  /\ UNCHANGED <<phase, mem, next, rows, issued, stage, recent, starts,
                 log, handler, recorded, outcome>>

\* The same select when the context is cancelled: the worker ends, whatever
\* the queue holds.
StopWorker(w) ==
  /\ worker[w].pc = "idle"
  /\ stage \in {"cancelled", "closed"}
  /\ worker' = [worker EXCEPT ![w].pc = "exit"]
  /\ UNCHANGED <<phase, mem, next, rows, issued, stage, recent, starts,
                 log, queue, handler, recorded, outcome>>

Drain(w) ==
  /\ worker[w].pc = "drain"
  /\ Len(Batch(w)) < MaxBatch
  /\ queue # << >>
  /\ worker' = [worker EXCEPT ![w].batch = Append(@, Head(queue))]
  /\ queue' = Tail(queue)
  /\ UNCHANGED <<phase, mem, next, rows, issued, stage, recent, starts,
                 log, handler, recorded, outcome>>

\* A bug: without the drain timer a worker waits for a full batch.
EndDrain_Full(w) ==
  /\ worker[w].pc = "drain"
  /\ Len(Batch(w)) = MaxBatch
  /\ worker' = [worker EXCEPT ![w].pc = "plan"]
  /\ UNCHANGED <<phase, mem, next, rows, issued, stage, recent, starts,
                 log, queue, handler, recorded, outcome>>

\* The batch is full, the drain timer fired, or the queue is closed.
EndDrain(w) ==
  /\ worker[w].pc = "drain"
  /\ worker' = [worker EXCEPT ![w].pc = "plan"]
  /\ UNCHANGED <<phase, mem, next, rows, issued, stage, recent, starts,
                 log, queue, handler, recorded, outcome>>

\* A bug: the rate limit ignores whether the detection has a position.
Throttled_Any(w, k) ==
  \/ Job(w, k).id \in recent
  \/ \E l \in 1 .. k - 1 : Job(w, l).id = Job(w, k).id

\* skipDetection: no position, and a row less than 30 s ago, possibly planned
\* by an earlier job of the same batch.
Throttled(w, k) ==
  /\ ~Job(w, k).pos
  /\ \/ Job(w, k).id \in recent
     \/ \E l \in 1 .. k - 1 : Job(w, l).id = Job(w, k).id

\* SaveDetectionBatch builds the batch; detLastInsert is updated at once.
Plan(w) ==
  /\ worker[w].pc = "plan"
  /\ worker' = [worker EXCEPT ![w].pc = "send",
                  ![w].plan = {Batch(w)[k] : k \in {l \in DOMAIN Batch(w) : ~Throttled(w, l)}}]
  /\ recent' = recent \cup {Job(w, k).id : k \in DOMAIN Batch(w)}
  /\ UNCHANGED <<phase, mem, next, rows, issued, stage, starts,
                 log, queue, handler, recorded, outcome>>

\* A bug: UPDATE writes the job's track_number too, which is zero.
Upserted_Updates(w, K) ==
  [i \in Ids |->
     LET writes == {k \in K : Job(w, k).id = i /\ (Job(w, k).new \/ rows[i] # None)}
     IN  IF writes = {} THEN rows[i]
         ELSE Job(w, CHOOSE k \in writes : \A l \in writes : l <= k).track]

\* The table after the upserts of the INSERT jobs at the positions K.  UPDATE
\* jobs leave track_number alone and create no row.
Upserted(w, K) ==
  [i \in Ids |->
     LET inserts == {k \in K : Job(w, k).new /\ Job(w, k).id = i}
     IN  IF inserts = {} THEN rows[i]
         ELSE Job(w, CHOOSE k \in inserts : \A l \in inserts : l <= k).track]

Record(N) == [n \in JobNumber |-> recorded[n] + IF n \in N THEN 1 ELSE 0]

Count(w, how) ==
  outcome' = [n \in JobNumber |-> IF n \in InBatch(w) THEN how ELSE outcome[n]]

\* The transaction commits and every result is read.
SendBatch(w) ==
  /\ worker[w].pc = "send"
  /\ rows' = Upserted(w, DOMAIN Batch(w))
  /\ recorded' = Record(worker[w].plan)
  /\ Count(w, "saved")
  /\ worker' = [worker EXCEPT ![w] = IdleWorker]
  /\ UNCHANGED <<phase, mem, next, issued, stage, recent, starts, log, queue, handler>>

\* A result is an error: the transaction was rolled back, or it committed and
\* the reply was lost.
SendBatchFails(w) ==
  /\ worker[w].pc = "send"
  /\ \/ "batch" \in Events /\ UNCHANGED <<rows, recorded>>
     \/ "reply" \in Events /\ rows' = Upserted(w, DOMAIN Batch(w)) /\ recorded' = Record(worker[w].plan)
  /\ worker' = [worker EXCEPT ![w].pc = "fallback", ![w].k = 1]
  /\ UNCHANGED <<phase, mem, next, issued, stage, recent, starts,
                 log, queue, handler, outcome>>

\* SaveDetection of the next job of the failed batch.  A failed INSERT ends
\* it; a failed UPDATE is ignored.  A row that fails to be inserted has used
\* up the rate limit.
Fallback(w) ==
  LET k == worker[w].k
      n == Batch(w)[k]
      i == log[n].id
  IN  /\ worker[w].pc = "fallback"
      /\ k <= Len(Batch(w))
      /\ \/ "statement" \in Events /\ log[n].new /\ UNCHANGED <<rows, recorded, recent>>
         \/ /\ rows' = Upserted(w, {k})
            /\ IF ~log[n].pos /\ i \in recent
                 THEN UNCHANGED <<recent, recorded>>
                 ELSE /\ recent' = recent \cup {i}
                      /\ \/ recorded' = Record({n})
                         \/ "statement" \in Events /\ UNCHANGED recorded
      /\ worker' = [worker EXCEPT ![w].k = k + 1]
      /\ UNCHANGED <<phase, mem, next, issued, stage, starts,
                     log, queue, handler, outcome>>

MayRetry(w) == worker[w].attempt < MaxRetries

\* The batch's error is returned even when the fallback saved every job.
Retry(w) ==
  /\ worker[w].pc = "fallback"
  /\ worker[w].k > Len(Batch(w))
  /\ MayRetry(w)
  /\ worker' = [worker EXCEPT ![w].pc = "plan", ![w].k = 0, ![w].plan = {},
                              ![w].attempt = @ + 1]
  /\ UNCHANGED <<phase, mem, next, rows, issued, stage, recent, starts,
                 log, queue, handler, recorded, outcome>>

GiveUp(w) ==
  /\ worker[w].pc = "fallback"
  /\ worker[w].k > Len(Batch(w))
  /\ ~MayRetry(w)
  /\ Count(w, "failed")
  /\ worker' = [worker EXCEPT ![w] = IdleWorker]
  /\ UNCHANGED <<phase, mem, next, rows, issued, stage, recent, starts,
                 log, queue, handler, recorded>>

\* 30 s pass since the last row of drone i.
WindowEnds(i) ==
  /\ "window" \in Events
  /\ i \in recent
  /\ recent' = recent \ {i}
  /\ UNCHANGED <<phase, mem, next, rows, issued, stage, starts, pipeline>>
-----------------------------------------------------------------------------
(***************************************************************************)
(* The process around the pipeline.                                        *)
(***************************************************************************)
\* Receiver.Close: cancel the workers' context, then close the queue.  The
\* 500 ms given to the NATS drain may pass with handlers still at work.
Cancel ==
  /\ "close" \in Events
  /\ phase = "running"
  /\ stage = "open"
  /\ stage' = "cancelled"
  /\ UNCHANGED <<phase, mem, next, rows, issued, recent, starts, pipeline>>

CloseQueue ==
  /\ stage = "cancelled"
  /\ phase = "running"
  /\ stage' = "closed"
  /\ UNCHANGED <<phase, mem, next, rows, issued, recent, starts, pipeline>>

\* The process is gone, with everything in memory.
Down(st) ==
  /\ stage' = st
  /\ queue' = << >>
  /\ handler' = [h \in Handlers |-> IdleHandler]
  /\ worker' = [w \in Workers |-> IdleWorker]
  /\ recent' = {}
  /\ outcome' = [n \in JobNumber |-> IF n \in Pending THEN "lost" ELSE outcome[n]]
  /\ UNCHANGED <<log, recorded, starts>>
  /\ TS!Crash

\* A crash, or the end of main after Close has waited for the workers or 5 s.
Crash == stage # "closed" /\ Down("open")

Exit == stage = "closed" /\ Down("open")

\* A handler that is still running sends on the closed queue: a panic.
SendOnClosed(h) ==
  /\ handler[h].pc = "queue"
  /\ stage = "closed"
  /\ Down("panic")

\* A start: as in TrackStore, with an idle pipeline.
Start ==
  /\ starts < MaxStarts
  /\ starts' = starts + 1
  /\ stage' = "open"
  /\ UNCHANGED <<recent, pipeline>>
  /\ \E L \in SUBSET Ids, m \in 0 .. MaxTrack : TS!Boot(L, m)

Backfill(i) == UNCHANGED <<stage, recent, starts, pipeline>> /\ TS!Backfill(i)

Serve == UNCHANGED <<stage, recent, starts, pipeline>> /\ TS!Serve

\* Cleanup or an operator removes the drone from memory.
Forget(i) == "forget" \in Events /\ UNCHANGED <<stage, recent, starts, pipeline>> /\ TS!Forget(i)

\* The retention job deletes a row of long ago.
Expire(i) == "expire" \in Events /\ UNCHANGED <<stage, recent, starts, pipeline>> /\ TS!Expire(i)
-----------------------------------------------------------------------------
Handle(h) ==
  \/ \E i \in Ids, pos \in BOOLEAN : HandleDetection(h, i, pos)
  \/ \E i \in Ids : LookupSuspect(h, i)
  \/ HandleSuspect(h)
  \/ RejectSuspect(h)
  \/ Enqueue(h)
  \/ SendOnClosed(h)

Save(w) ==
  \/ Take(w) \/ StopWorker(w) \/ Drain(w) \/ EndDrain(w) \/ Plan(w)
  \/ SendBatch(w) \/ SendBatchFails(w) \/ Fallback(w) \/ Retry(w) \/ GiveUp(w)

Next ==
  \/ \E h \in Handlers : Handle(h)
  \/ \E w \in Workers : Save(w)
  \/ \E i \in Ids : WindowEnds(i) \/ Backfill(i) \/ Forget(i) \/ Expire(i)
  \/ Cancel \/ CloseQueue \/ Crash \/ Exit \/ Start \/ Serve

Spec == Init /\ [][Next]_vars

\* Workers and the handlers that hold a job are goroutines the scheduler runs;
\* Close goes on by itself and ends the process.
FairSpec ==
  /\ Spec
  /\ \A w \in Workers : WF_vars(Save(w))
  /\ \A h \in Handlers : WF_vars(Enqueue(h))
  /\ WF_vars(CloseQueue \/ Exit)
-----------------------------------------------------------------------------
\* Every job is counted once: it is open exactly while it is in one place, in
\* a handler, the queue or one batch, and afterwards it is saved, failed,
\* dropped (DBSaveSuccess, DBSaveErrors, DBQueueDrops) or died with the process.
Accounted ==
  /\ \A n \in JobNumber : outcome[n] = "open" <=> n \in Pending
  /\ \A k, l \in DOMAIN queue : queue[k] = queue[l] => k = l
  /\ \A w \in Workers : InBatch(w) \cap InQueue = {}
  /\ \A w, v \in Workers : w # v => InBatch(w) \cap InBatch(v) = {}
  /\ \A h \in Handlers, w \in Workers : InHandler(h) \cap (InQueue \cup InBatch(w)) = {}

\* A detection with a position that is counted as saved has its row: the rate
\* limit, the retries and the fallback never lose one, and repeat it boundedly: a
\* try writes it at most twice, in a batch whose reply is lost and in the fallback.
PositionRecorded ==
  /\ \A n \in DOMAIN log : outcome[n] = "saved" /\ log[n].pos => recorded[n] >= 1
  /\ \A n \in JobNumber : recorded[n] <= 2 * (MaxRetries + 1)

\* The pipeline does to the track numbers what TrackStore allows.
ImplementsTrackStore == TS!Spec

\* Every job leaves the pipeline: dbWorker waits for a full batch no longer than
\* its drain timer, and retries a bounded number of times.
JobsSettle ==
  \A n \in JobNumber : outcome[n] = "open" ~> outcome[n] # "open"
=============================================================================
