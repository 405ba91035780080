------------------------------ MODULE TapWatch ------------------------------
(***************************************************************************)
(* How the node keeps hearing its TAPs: the NATS subscriptions Start makes *)
(* and RefreshSubscriptions replaces, the watchdog that refreshes them     *)
(* when heartbeats stop, the resume detector of main that does the same,   *)
(* and the status of a TAP.  NATS is external: it may stop routing to a    *)
(* subscription without an error, and subscribing may fail.                *)
(***************************************************************************)
EXTENDS Naturals, Sequences

CONSTANTS
  Gens,          \* numbers that tell subscriptions of one kind apart
  SilenceTicks,  \* watchdog ticks until silence counts (90 s / 30 s)
  MaxRefresh,    \* refreshes in a row before a pause (3)
  MaxLapses      \* bound on failures, lost routes and resumes

VARIABLES
  starting,  \* Receiver.Start: its step, and the subscription it has not entered yet
  valid,     \* subscriptions NATS knows
  stale,     \* those it no longer routes to
  subs,      \* Receiver.subs
  fresh,     \* heartbeats were counted since the watchdog last looked
  watch,     \* the watchdog's hadTaps, silence, consecRefreshFails and step
  tap,       \* the TAP's status, "unknown" before its first heartbeat
  faults

hearingVars == <<starting, valid, stale, subs, fresh, watch, tap, faults>>

Subjects == <<"detections", "heartbeats", "acks">>
NoSub == <<>>
Fault == faults < MaxLapses /\ faults' = faults + 1

Unused(kind) == {g \in Gens : <<kind, g>> \notin valid \union subs \union {starting.sub}}
NewSub(kind) == <<kind, CHOOSE g \in Unused(kind) : \A h \in Unused(kind) : g <= h>>
Hears(kind) == \E s \in valid \ stale : s[1] = kind

-----------------------------------------------------------------------------
\* Start: three subscriptions, each entered into subs under the lock afterwards.
Subscribe ==
  /\ starting.at = "subscribe"
  /\ \/ LET s == NewSub(Subjects[starting.n]) IN
        /\ valid' = valid \union {s} /\ stale' = stale \ {s}
        /\ starting' = [starting EXCEPT !.at = "enter", !.sub = s]
        /\ UNCHANGED faults
     \/ /\ Fault
        /\ starting' = [starting EXCEPT !.at = "failed"]
        /\ UNCHANGED <<valid, stale>>
  /\ UNCHANGED <<subs, fresh, watch, tap>>

Enter ==
  /\ starting.at = "enter"
  /\ subs' = subs \union {starting.sub}
  /\ starting' = [at |-> IF starting.n = 3 THEN "started" ELSE "subscribe",
                  n |-> starting.n + 1, sub |-> NoSub]
  /\ UNCHANGED <<valid, stale, fresh, watch, tap, faults>>

Cleaned_None(made) == made

\* What is left of the subscriptions a failed refresh has made.
Cleaned(made) == {}

\* RefreshSubscriptions, under subsMu: everything in subs is unsubscribed, then the
\* three are made again; an error leaves subs as it was.
RefreshSubscriptions ==
  \/ LET new == {NewSub(Subjects[i]) : i \in 1..3} IN
     /\ valid' = (valid \ subs) \union new
     /\ stale' = stale \ new
     /\ subs' = new
     /\ UNCHANGED faults
  \/ /\ Fault
     /\ \E n \in 0..2 : LET made == {NewSub(Subjects[i]) : i \in 1..n} IN
          /\ valid' = (valid \ subs) \union Cleaned(made)
          /\ stale' = stale \ made
     /\ UNCHANGED subs

\* main's suspend watchdog: the clock jumped.
Resume ==
  /\ faults < MaxLapses
  /\ RefreshSubscriptions
  /\ UNCHANGED <<starting, fresh, watch, tap>>

\* The connection survives a suspend, its routes do not.
LoseRoutes ==
  /\ Fault
  /\ stale' = valid
  /\ UNCHANGED <<starting, valid, subs, fresh, watch, tap>>

-----------------------------------------------------------------------------
UpdateTap == tap' = "online"

handleHeartbeat ==
  /\ Hears("heartbeats")
  /\ fresh' = TRUE
  /\ UpdateTap
  /\ UNCHANGED <<starting, valid, stale, subs, watch, faults>>

\* cleanup: the TAP was not heard for the offline threshold.
CleanupTaps ==
  /\ tap = "online" /\ ~fresh
  /\ tap' = "offline"
  /\ UNCHANGED <<starting, valid, stale, subs, fresh, watch, faults>>

\* The watchdog's ticker: heartbeats flow, there never were any, silence is short,
\* refresh, or pause after too many refreshes.
TickFlowing ==
  /\ starting.at = "started" /\ watch.at = "ticking" /\ fresh
  /\ watch' = [watch EXCEPT !.hadTaps = TRUE, !.silence = 0, !.fails = 0]
  /\ fresh' = FALSE
  /\ UNCHANGED <<starting, valid, stale, subs, tap, faults>>

Silent == starting.at = "started" /\ watch.at = "ticking" /\ ~fresh /\ watch.hadTaps

TickSilent ==
  /\ Silent /\ watch.silence + 1 < SilenceTicks
  /\ watch' = [watch EXCEPT !.silence = @ + 1]
  /\ UNCHANGED <<starting, valid, stale, subs, fresh, tap, faults>>

TickRefresh ==
  /\ Silent /\ watch.silence + 1 >= SilenceTicks /\ watch.fails < MaxRefresh
  /\ RefreshSubscriptions
  /\ watch' = [watch EXCEPT !.silence = 0, !.fails = @ + 1]
  /\ fresh' = FALSE
  /\ UNCHANGED <<starting, tap>>

TickPause ==
  /\ Silent /\ watch.silence + 1 >= SilenceTicks /\ watch.fails >= MaxRefresh
  /\ watch' = [watch EXCEPT !.at = "paused"]
  /\ UNCHANGED <<starting, valid, stale, subs, fresh, tap, faults>>

Rested_NoReset == [watch EXCEPT !.at = "ticking", !.silence = 0]

\* After the pause the count begins again.
Rested == [watch EXCEPT !.at = "ticking", !.silence = 0, !.fails = 0]

PauseEnds ==
  /\ watch.at = "paused"
  /\ watch' = Rested
  /\ UNCHANGED <<starting, valid, stale, subs, fresh, tap, faults>>

HearingInit ==
  /\ starting = [at |-> "subscribe", n |-> 1, sub |-> NoSub]
  /\ valid = {} /\ stale = {} /\ subs = {}
  /\ fresh = FALSE
  /\ watch = [at |-> "ticking", hadTaps |-> FALSE, silence |-> 0, fails |-> 0]
  /\ tap = "unknown"
  /\ faults = 0

Watchdog == TickFlowing \/ TickSilent \/ TickRefresh \/ TickPause \/ PauseEnds

HearingNext ==
  \/ Subscribe \/ Enter \/ Resume \/ LoseRoutes
  \/ handleHeartbeat \/ CleanupTaps \/ Watchdog

\* The ticker ticks, and a TAP sends a heartbeat every few seconds.
HearingFairness == WF_hearingVars(Watchdog) /\ WF_hearingVars(handleHeartbeat)

HearingSpec == HearingInit /\ [][HearingNext]_hearingVars /\ HearingFairness

-----------------------------------------------------------------------------
\* Every subscription NATS delivers to is one the node can still unsubscribe, through
\* a failed refresh and one that runs in the middle of Start: otherwise its messages
\* would be handled twice for ever.
NoneOrphaned == valid \subseteq subs \union {starting.sub}

\* Once the watchdog has seen heartbeats, a TAP that keeps sending them is online
\* again and again, although routes were lost, refreshes failed in a row and the
\* watchdog paused.
HeardAgain == watch.hadTaps ~> tap = "online"
=============================================================================
