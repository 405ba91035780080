----------------------------- MODULE CommandAck -----------------------------
(***************************************************************************)
(* Commands from the node to its TAPs and their acknowledgments.  An API   *)
(* request sends one command, two (a configuration) or a broadcast; each   *)
(* is entered into the table of pending commands and then published.  Only *)
(* a ping of one TAP waits: WaitForAck puts a channel into the table entry *)
(* which by then may be gone.  Identifiers carry a nanosecond clock and do *)
(* not repeat.  NATS is external: at most once, in any order, with losses. *)
(***************************************************************************)
EXTENDS Naturals

CONSTANTS Requests, Taps

VARIABLES
  req,       \* request -> [at, kind, to, n, said]: the API handler
  pending,   \* pendingCmds: the commands in the table
  channel,   \* commands whose entry holds an AckCh
  box,       \* command -> TAPs whose acknowledgment is in its AckCh, of capacity one
  wire,      \* <<command, TAP>>: commands on their way
  acks,      \* <<command, TAP>>: acknowledgments on their way
  executed,  \* <<command, TAP>>: commands carried out
  down       \* TAPs that stopped for a restart

commandVars == <<req, pending, channel, box, wire, acks, executed, down>>

\* The n-th command of request r.
Commands == Requests \X {1, 2}
Cmd(r) == <<r, req[r].n>>
Goto(r, at) == req' = [req EXCEPT ![r].at = at]
Return(r, said) == req' = [req EXCEPT ![r].at = "returned", ![r].said = said]

BeginCommand(r, kind, to) ==
  /\ req[r].at = "idle"
  /\ req' = [req EXCEPT ![r].at = "send", ![r].kind = kind, ![r].to = to]
  /\ UNCHANGED <<pending, channel, box, wire, acks, executed, down>>

\* A ping or a restart of one TAP.
handleTapCommand(r) == \E t \in Taps : BeginCommand(r, "ping", {t}) \/ BeginCommand(r, "restart", {t})

\* A configuration: the channels, the other values, or one after the other.
handleTapConfig(r) == \E t \in Taps : BeginCommand(r, "config", {t}) \/ BeginCommand(r, "config2", {t})

handleBroadcast(r) == BeginCommand(r, "broadcast ping", Taps) \/ BeginCommand(r, "restart", Taps)

\* sendCommand: the entry first, then the message.
SendEnter(r) ==
  /\ req[r].at = "send"
  /\ pending' = pending \union {Cmd(r)}
  /\ Goto(r, "publish")
  /\ UNCHANGED <<channel, box, wire, acks, executed, down>>

Sent(r) ==
  CASE req[r].kind = "ping" -> [req[r] EXCEPT !.at = "wait"]
    [] req[r].kind = "config2" /\ req[r].n = 1 -> [req[r] EXCEPT !.at = "send", !.n = 2]
    [] OTHER -> [req[r] EXCEPT !.at = "returned", !.said = "sent"]

SendPublish(r) ==
  /\ req[r].at = "publish"
  /\ wire' = wire \union ({Cmd(r)} \X req[r].to)
  /\ req' = [req EXCEPT ![r] = Sent(r)]
  /\ UNCHANGED <<pending, channel, box, acks, executed, down>>

CommandFails(r) ==
  /\ req[r].at = "publish"
  /\ pending' = pending \ {Cmd(r)}
  /\ Return(r, "failed")
  /\ UNCHANGED <<channel, box, wire, acks, executed, down>>

\* WaitForAck: the channel goes into the entry; without one, "command not found".
WaitEnter(r) ==
  /\ req[r].at = "wait"
  /\ IF Cmd(r) \in pending
     THEN Goto(r, "waiting") /\ channel' = channel \union {Cmd(r)}
     ELSE Return(r, "not found") /\ UNCHANGED channel
  /\ UNCHANGED <<pending, box, wire, acks, executed, down>>

WaitAck(r) ==
  /\ req[r].at = "waiting" /\ box[Cmd(r)] # {}
  /\ box' = [box EXCEPT ![Cmd(r)] = {}]
  /\ Return(r, "ok")
  /\ UNCHANGED <<pending, channel, wire, acks, executed, down>>

\* The timer may win although an acknowledgment is in the channel.
WaitTimeout(r) ==
  /\ req[r].at = "waiting"
  /\ Goto(r, "late")
  /\ UNCHANGED <<pending, channel, box, wire, acks, executed, down>>

WaitDelete(r) ==
  /\ req[r].at = "late"
  /\ pending' = pending \ {Cmd(r)} /\ channel' = channel \ {Cmd(r)}
  /\ Return(r, "timeout")
  /\ UNCHANGED <<box, wire, acks, executed, down>>

\* handle_command on a TAP: carried out, acknowledged, and for a restart the end.
HandleCommand(c, t) ==
  /\ <<c, t>> \in wire /\ t \notin down
  /\ wire' = wire \ {<<c, t>>}
  /\ executed' = executed \union {<<c, t>>}
  /\ acks' = acks \union {<<c, t>>}
  /\ down' = IF req[c[1]].kind = "restart" THEN down \union {t} ELSE down
  /\ UNCHANGED <<req, pending, channel, box>>

\* systemd starts the TAP again; what was published meanwhile is lost.
TapStarts(t) ==
  /\ t \in down /\ down' = down \ {t}
  /\ wire' = {w \in wire : w[2] # t}
  /\ UNCHANGED <<req, pending, channel, box, acks, executed>>

LoseMessage(c, t) ==
  /\ <<c, t>> \in wire \union acks
  /\ wire' = wire \ {<<c, t>>} /\ acks' = acks \ {<<c, t>>}
  /\ UNCHANGED <<req, pending, channel, box, executed, down>>

Notified_Waiting(c, t) ==
  [d \in Commands |-> IF d \in channel /\ box[d] = {} THEN {t} ELSE box[d]]

\* The non-blocking send into the channel of the entry.
Notified(c, t) ==
  IF c \in pending \intersect channel /\ box[c] = {} THEN [box EXCEPT ![c] = {t}] ELSE box

handleCommandAck(c, t) ==
  /\ <<c, t>> \in acks
  /\ acks' = acks \ {<<c, t>>}
  /\ box' = Notified(c, t)
  /\ pending' = pending \ {c} /\ channel' = channel \ {c}
  /\ UNCHANGED <<req, wire, executed, down>>

Old_Any(c) == TRUE

\* Two minutes in the table: the request, which takes seconds, has returned, or is
\* past this command.
Old(c) == req[c[1]].at = "returned" \/ req[c[1]].n > c[2]

\* The cleanup every five minutes.
Evict(c) ==
  /\ c \in pending /\ Old(c)
  /\ pending' = pending \ {c} /\ channel' = channel \ {c}
  /\ UNCHANGED <<req, box, wire, acks, executed, down>>

CommandInit ==
  /\ req = [r \in Requests |-> [at |-> "idle", kind |-> "none", to |-> {}, n |-> 1, said |-> "none"]]
  /\ pending = {} /\ channel = {}
  /\ box = [c \in Commands |-> {}]
  /\ wire = {} /\ acks = {} /\ executed = {} /\ down = {}

Handler(r) ==
  \/ SendEnter(r) \/ SendPublish(r) \/ CommandFails(r)
  \/ WaitEnter(r) \/ WaitAck(r) \/ WaitTimeout(r) \/ WaitDelete(r)

CommandNext ==
  \/ \E r \in Requests : handleTapCommand(r) \/ handleTapConfig(r) \/ handleBroadcast(r) \/ Handler(r)
  \/ \E c \in Commands : Evict(c)
  \/ \E c \in Commands, t \in Taps : HandleCommand(c, t) \/ LoseMessage(c, t) \/ handleCommandAck(c, t)
  \/ \E t \in Taps : TapStarts(t)

CommandSpec == CommandInit /\ [][CommandNext]_commandVars

-----------------------------------------------------------------------------
\* What the API answers is what happened, although the acknowledgment may overtake the
\* wait: "ok" and "command not found" both mean that exactly the addressed TAP has
\* carried the ping out, and after a failure nobody carries out the last command.
AnswerTrue ==
  \A r \in Requests :
    LET by == {t \in Taps : <<Cmd(r), t>> \in executed} IN
    /\ req[r].said \in {"ok", "not found"} => by = req[r].to
    /\ req[r].said = "failed" => by = {}
=============================================================================
