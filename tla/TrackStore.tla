----------------------------- MODULE TrackStore -----------------------------
(***************************************************************************)
(* Track numbers across restarts of the node: what memory, the pending     *)
(* database jobs and the drones table hold, and what a start reads back.   *)
(*                                                                         *)
(* The state manager hands out numbers from a counter in memory            *)
(* (assignTrackNumber).  The number reaches the drones table only with the *)
(* INSERT job of the detection that created the drone, and that job can be *)
(* dropped, fail, be retried, or die with the process.  On a start, main   *)
(* reloads the recent rows (LoadDrones), sets the counter to the largest   *)
(* stored number (GetMaxTrackNumber) and numbers the reloaded drones that  *)
(* have none (BackfillTrackNumbers).                                       *)
(*                                                                         *)
(* The queue and the workers between memory and the table are the subject  *)
(* of DetectionStore, which implements this module: here the pending jobs  *)
(* are a set that is written in any order, any number of times, or lost.   *)
(***************************************************************************)
EXTENDS Integers

CONSTANTS
  Ids,                \* drone identifiers
  Controllers,        \* the identifiers of controllers, which get no number
  CounterReadMayFail, \* can GetMaxTrackNumber fail on a start?
  MaxTrack            \* bound: track numbers handed out

ASSUME TrackStoreAssumption ==
  /\ Controllers \subseteq Ids
  /\ CounterReadMayFail \in BOOLEAN
  /\ MaxTrack \in Nat

VARIABLES
  phase,   \* of the process: "down", "backfill" or "running"
  mem,     \* identifier -> track number of the drone in memory, or None
  next,    \* StateManager.nextTrackNum
  jobs,    \* INSERT jobs queued or being saved
  rows,    \* the drones table: identifier -> track_number, or None
  issued   \* history: every <<identifier, number>> ever handed out

vars == <<phase, mem, next, jobs, rows, issued>>

\* No drone in memory, or no row.  0 is a drone without a number.
None == -1

TrackNumber == 0 .. MaxTrack

Job == [id : Ids, track : TrackNumber]

\* The type of the state.
TypeOK ==
  /\ phase \in {"down", "backfill", "running"}
  /\ mem \in [Ids -> TrackNumber \cup {None}]
  /\ next \in TrackNumber
  /\ jobs \subseteq Job
  /\ rows \in [Ids -> TrackNumber \cup {None}]
  /\ issued \subseteq Ids \X TrackNumber

\* A first start on an empty database.
Init ==
  /\ phase = "down"
  /\ mem = [i \in Ids |-> None]
  /\ next = 0
  /\ jobs = {}
  /\ rows = [i \in Ids |-> None]
  /\ issued = {}
-----------------------------------------------------------------------------
\* assignTrackNumber, from the counter.
Assign(i) ==
  /\ next < MaxTrack
  /\ next' = next + 1
  /\ mem' = [mem EXCEPT ![i] = next + 1]
  /\ issued' = issued \cup {<<i, next + 1>>}

\* A detection creates drone i: its INSERT job carries the new number.
Track(i) ==
  /\ phase = "running"
  /\ mem[i] = None
  /\ IF i \in Controllers
       THEN /\ mem' = [mem EXCEPT ![i] = 0]
            /\ UNCHANGED <<next, issued>>
       ELSE Assign(i)
  /\ jobs' = jobs \cup {[id |-> i, track |-> mem'[i]]}
  /\ UNCHANGED <<phase, rows>>

\* The suspect path found no drone for the MAC, but UpdateDrone then merged
\* the detection into one: handleSuspectDetection queues an INSERT under the
\* WIFI- identifier all the same, for a drone that was given no number.
TrackMerged(i) ==
  /\ phase = "running"
  /\ jobs' = jobs \cup {[id |-> i, track |-> 0]}
  /\ UNCHANGED <<phase, mem, next, rows, issued>>

\* INSERT ... ON CONFLICT (identifier) DO UPDATE, for at most one job an id:
\* track_number = COALESCE(EXCLUDED.track_number, drones.track_number), and
\* EXCLUDED.track_number is an int that is never NULL.
Upsert(S) ==
  [i \in Ids |-> IF \E j \in S : j.id = i
                   THEN (CHOOSE j \in S : j.id = i).track
                   ELSE rows[i]]

OnePerId(S) == \A j, k \in S : j.id = k.id => j = k

\* Some jobs are written, some leave the pipeline (saved, dropped, given up).
Save(S, D) ==
  /\ phase = "running"
  /\ OnePerId(S)
  /\ rows' = Upsert(S)
  /\ jobs' = jobs \ D
  /\ UNCHANGED <<phase, mem, next, issued>>

\* The drone leaves memory: evicted by cleanup or deleted through the API.
Forget(i) ==
  /\ phase = "running"
  /\ mem[i] # None
  /\ mem' = [mem EXCEPT ![i] = None]
  /\ UNCHANGED <<phase, next, jobs, rows, issued>>

\* CleanupOldDrones: a row not written for 30 days is deleted.
Expire(i) ==
  /\ phase = "running"
  /\ rows[i] # None
  /\ \A j \in jobs : j.id # i
  /\ rows' = [rows EXCEPT ![i] = None]
  /\ UNCHANGED <<phase, mem, next, jobs, issued>>
-----------------------------------------------------------------------------
\* The process ends, by a crash or by the shutdown path: memory is gone.
Crash ==
  /\ phase # "down"
  /\ phase' = "down"
  /\ mem' = [i \in Ids |-> None]
  /\ next' = 0
  /\ jobs' = {}
  /\ UNCHANGED <<rows, issued>>

\* SELECT COALESCE(MAX(track_number), 0) FROM drones.
IsMaxTrackNumber(m) ==
  /\ \A i \in Ids : rows[i] <= m
  /\ m = 0 \/ \E i \in Ids : rows[i] = m

\* A bug: the counter is restored from the reloaded drones only.
RestoredCounter_Loaded(L, m) ==
  /\ \A i \in L : rows[i] <= m
  /\ m = 0 \/ \E i \in L : rows[i] = m

\* The counter after GetMaxTrackNumber; an error leaves it at zero.
RestoredCounter(L, m) ==
  \/ IsMaxTrackNumber(m)
  \/ CounterReadMayFail /\ m = 0

\* LoadDrones and HydrateDrones, then SetNextTrackNum.  L are the drones
\* with last_seen inside the history window, none when the query fails.
Boot(L, m) ==
  /\ phase = "down"
  /\ \A i \in L : rows[i] # None
  /\ RestoredCounter(L, m)
  /\ phase' = "backfill"
  /\ mem' = [i \in Ids |-> IF i \in L THEN rows[i] ELSE None]
  /\ next' = m
  /\ UNCHANGED <<jobs, rows, issued>>

\* A bug: the number that is stored is taken before the counter moves.
Stored_Before(i) == next

\* The number saver.UpdateTrackNumber is given: the drone's new one.
Stored(i) == mem'[i]

\* BackfillTrackNumbers, one drone: the stored number may fail to be written
\* (the error is ignored).
Backfill(i) ==
  /\ phase = "backfill"
  /\ mem[i] = 0
  /\ i \notin Controllers
  /\ Assign(i)
  /\ rows' \in {rows, [rows EXCEPT ![i] = Stored(i)]}
  /\ UNCHANGED <<phase, jobs>>

\* Everything is numbered; the receiver subscribes.
Serve ==
  /\ phase = "backfill"
  /\ \A i \in Ids \ Controllers : mem[i] # 0
  /\ phase' = "running"
  /\ UNCHANGED <<mem, next, jobs, rows, issued>>
-----------------------------------------------------------------------------
Next ==
  \/ \E i \in Ids : Track(i) \/ TrackMerged(i) \/ Forget(i) \/ Expire(i)
                      \/ Backfill(i)
  \/ \E S, D \in SUBSET jobs : Save(S, D)
  \/ Crash
  \/ \E L \in SUBSET Ids, m \in TrackNumber : Boot(L, m)
  \/ Serve

Spec == Init /\ [][Next]_vars
-----------------------------------------------------------------------------
\* i holds number t in memory, in a pending job or in its row.
Holds(i, t) ==
  \/ mem[i] = t
  \/ rows[i] = t
  \/ [id |-> i, track |-> t] \in jobs

\* No two drones hold one number, counting what a restart could bring back:
\* the drones in memory, the numbers on their way to the database, and the
\* rows, reloaded or not (SetNextTrackNum, ON CONFLICT, Backfill).
OneHolder ==
  \A i, j \in Ids, t \in TrackNumber \ {0} :
    Holds(i, t) /\ Holds(j, t) => i = j

\* The counter is ahead of every number in memory, in a job or in a row as
\* soon as main has restored it.
CounterAhead ==
  phase # "down" =>
    \A i \in Ids, t \in TrackNumber : Holds(i, t) => t <= next

\* "a monotonically increasing track number that persists across service
\* restarts via the database" (docs/whitepaper.md): a number never names two
\* drones, whenever it was handed out.
NumberNamesOneDrone ==
  \A p, q \in issued : p[2] = q[2] => p[1] = q[1]
=============================================================================
