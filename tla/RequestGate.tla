---------------------------- MODULE RequestGate ----------------------------
(***************************************************************************)
(* What a request passes before its handler: the API server's rate limiter *)
(* and, for a WebSocket, a ticket that may be used once.  Time is counted  *)
(* in ticks; an age stops growing where the code no longer tells it apart. *)
(***************************************************************************)
EXTENDS Integers

CONSTANTS
  IPs,        \* client addresses
  Limit,      \* requests per window (100)
  Window,     \* ticks of a window (1 s)
  Tickets,
  TicketTTL   \* ticks until a ticket expires (30 s)

\* A limiter that admits requests.
ASSUME GateAssumption == Limit \in Nat \ {0} /\ Window \in Nat /\ TicketTTL \in Nat

VARIABLES
  clients,   \* address -> [count, age of the window], or NoClient
  allowed,   \* history: address -> a -> requests allowed in the last a ticks
  wsTickets, \* ticket -> ticks it has left; Unissued, or Gone from the map
  admitted   \* history: ticket -> how often it admitted somebody

gateVars == <<clients, allowed, wsTickets, admitted>>

NoClient == [count |-> 0, age |-> 0]
Ages == 0..Window
Unissued == -2
Gone == -1

-----------------------------------------------------------------------------
\* RateLimiter.Allow: the count starts again when the window is over.
Expired_Early(c) == c.age >= Window - 1

Expired(c) == c.age > Window

Counted(c) ==
  IF c = NoClient \/ Expired(c) THEN [count |-> 1, age |-> 0] ELSE [c EXCEPT !.count = @ + 1]

Allow(ip) ==
  /\ clients[ip] = NoClient \/ Expired(clients[ip]) \/ clients[ip].count < Limit
  /\ clients' = [clients EXCEPT ![ip] = Counted(@)]
  /\ allowed' = [allowed EXCEPT ![ip] = [a \in Ages |-> @[a] + 1]]
  /\ UNCHANGED <<wsTickets, admitted>>

\* RateLimiter.cleanup.
Cleanup(ip) ==
  /\ clients[ip].age > 2 * Window
  /\ clients' = [clients EXCEPT ![ip] = NoClient]
  /\ UNCHANGED <<allowed, wsTickets, admitted>>

-----------------------------------------------------------------------------
\* handleWSTicket and issueWSTicket.
issueWSTicket(t) ==
  /\ wsTickets[t] = Unissued
  /\ wsTickets' = [wsTickets EXCEPT ![t] = TicketTTL]
  /\ UNCHANGED <<clients, allowed, admitted>>

\* consumeWSTicket deletes the ticket and then looks at its age.
Consumed_IfValid(t) == IF wsTickets[t] > 0 THEN wsTickets ELSE [wsTickets EXCEPT ![t] = Gone]

Consumed(t) == [wsTickets EXCEPT ![t] = Gone]

consumeWSTicket(t) ==
  /\ wsTickets[t] >= 0
  /\ wsTickets' = Consumed(t)
  /\ admitted' = IF wsTickets[t] > 0
                 THEN [admitted EXCEPT ![t] = @ + 1] ELSE admitted
  /\ UNCHANGED <<clients, allowed>>

cleanupWSTickets ==
  /\ \E t \in Tickets : wsTickets[t] = 0
  /\ wsTickets' = [t \in Tickets |-> IF wsTickets[t] = 0 THEN Gone ELSE wsTickets[t]]
  /\ UNCHANGED <<clients, allowed, admitted>>

\* A tick; nothing later than this depends on the ages it lets go.
GateTick ==
  /\ clients' = [ip \in IPs |-> IF clients[ip] = NoClient THEN NoClient
                                ELSE [clients[ip] EXCEPT !.age = IF @ <= 2 * Window THEN @ + 1 ELSE @]]
  /\ allowed' = [ip \in IPs |-> [a \in Ages |-> IF a = 0 THEN 0 ELSE allowed[ip][a - 1]]]
  /\ wsTickets' = [t \in Tickets |-> IF wsTickets[t] > 0 THEN wsTickets[t] - 1 ELSE wsTickets[t]]
  /\ UNCHANGED admitted

GateInit ==
  /\ clients = [ip \in IPs |-> NoClient]
  /\ allowed = [ip \in IPs |-> [a \in Ages |-> 0]]
  /\ wsTickets = [t \in Tickets |-> Unissued]
  /\ admitted = [t \in Tickets |-> 0]

GateNext ==
  \/ \E ip \in IPs : Allow(ip) \/ Cleanup(ip)
  \/ \E t \in Tickets : issueWSTicket(t) \/ consumeWSTicket(t)
  \/ cleanupWSTickets
  \/ GateTick

GateSpec == GateInit /\ [][GateNext]_gateVars

-----------------------------------------------------------------------------
\* The limiter counts in fixed windows that begin with a request, so a burst may
\* straddle two of them: in any span of a window's length an address gets at most
\* twice the limit, also when its entry is cleaned up in between.
BurstBounded ==
  \A ip \in IPs : allowed[ip][Window] <= 2 * Limit

\* "one-time use": a ticket admits at most one connection, whatever consuming,
\* expiry and the periodic cleanup do in which order.
TicketOnce == \A t \in Tickets : admitted[t] <= 1

\* Both of what the gate promises: rateLimitMiddleware's bound and consumeWSTicket's.
GateHolds == BurstBounded /\ TicketOnce
=============================================================================
