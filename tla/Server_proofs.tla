--------------------------- MODULE Server_proofs ---------------------------
(***************************************************************************)
(* What the API server's gate, the life of its process and the updater of  *)
(* the intelligence files promise, for any number of clients, tickets,     *)
(* instances, updates, prefixes and crashes.                               *)
(*                                                                         *)
(* The gate needs how a counter, its window's age and the requests of the  *)
(* last ticks hang together (Counts), and that a ticket which admitted     *)
(* somebody is gone (Spent).  The process needs that whoever is past       *)
(* acquireLock holds the lock (Exclusive) and, for the password, that no   *)
(* process inserts the admin row when there is one (SeedingFresh).  The    *)
(* updater needs that one update at a time is past the flag (AtMostOne)    *)
(* and what its copy and the backup then hold (Relies).                    *)
(***************************************************************************)
EXTENDS RequestGate, NodeLifecycle, IntelUpdate, TLAPS

-----------------------------------------------------------------------------
(* The gate.                                                               *)

\* A counter, its window's age, and how many requests were allowed in how many ticks.
GateTyped ==
  /\ clients \in [IPs -> [count : Nat, age : Nat]]
  /\ allowed \in [IPs -> [Ages -> Nat]]
  /\ wsTickets \in [Tickets -> Int]
  /\ admitted \in [Tickets -> Nat]

\* What a counter c and its window's age g say of the requests n[a] of the last a ticks:
\* those younger than the window are counted in it, the others filled one window before
\* it at most, and none is as young as the part of the window that came after its end.
Explains(c, g, n) ==
  /\ c <= Limit
  /\ c = 0 => g = 0 /\ \A a \in Ages : n[a] = 0
  /\ \A a \in Ages : /\ n[a] <= c + Limit
                     /\ a < g => n[a] <= c
                     /\ a < g - Window => n[a] = 0

Counts == \A ip \in IPs : Explains(clients[ip].count, clients[ip].age, allowed[ip])

\* A ticket that admitted somebody is gone.
Spent == \A t \in Tickets : admitted[t] = 0 \/ (admitted[t] = 1 /\ wsTickets[t] = Gone)

GateInv == GateTyped /\ Counts /\ Spent

\* Nobody has come by at the start.
LEMMA GateInitially == GateInit => GateInv
BY GateAssumption DEF GateInit, GateInv, GateTyped, Counts, Explains, Spent, NoClient, Ages,
    Unissued

\* The counter of an address that is let through, whatever its entry was.
LEMMA CountedExplains ==
  ASSUME NEW c \in [count : Nat, age : Nat], NEW n \in [Ages -> Nat],
         Explains(c.count, c.age, n), c = NoClient \/ Expired(c) \/ c.count < Limit
  PROVE  /\ Counted(c) \in [count : Nat, age : Nat]
         /\ Explains(Counted(c).count, Counted(c).age, [a \in Ages |-> n[a] + 1])
<1>1. CASE c = NoClient
  BY <1>1, GateAssumption DEF Explains, Counted, NoClient, Ages
<1>2. CASE c # NoClient /\ Expired(c)
  <2>1. /\ Counted(c).count = 1 /\ Counted(c).age = 0
        /\ Counted(c) \in [count : Nat, age : Nat]
    BY <1>2 DEF Counted
  <2>2. \A a \in Ages : a \in Nat /\ n[a] \in Nat /\ n[a] <= c.count /\ c.count <= Limit
    BY <1>2, GateAssumption DEF Explains, Expired, Ages
  <2>3. \A a \in Ages : n[a] + 1 <= 1 + Limit /\ ~(a < 0) /\ ~(a < 0 - Window)
    BY <2>2, GateAssumption DEF Ages
  <2> QED
    BY <2>1, <2>3, GateAssumption DEF Explains
<1>3. CASE c # NoClient /\ ~Expired(c)
  <2>1. c.count # 0
    BY <1>3 DEF Explains, NoClient
  <2>2. /\ Counted(c).count = c.count + 1 /\ Counted(c).age = c.age
        /\ Counted(c) \in [count : Nat, age : Nat]
    BY <1>3 DEF Counted
  <2> QED
    BY <1>3, <2>1, <2>2, GateAssumption, SMTT(30) DEF Explains, Expired, Ages
<1> QED
  BY <1>1, <1>2, <1>3

\* A request that is let through.
LEMMA AllowKeeps ==
  ASSUME GateInv, NEW ip \in IPs, Allow(ip)
  PROVE  GateInv'
<1> DEFINE c == Counted(clients[ip])
           n == [a \in Ages |-> allowed[ip][a] + 1]
<1>1. c \in [count : Nat, age : Nat] /\ Explains(c.count, c.age, n)
  <2>1. /\ clients[ip] \in [count : Nat, age : Nat] /\ allowed[ip] \in [Ages -> Nat]
        /\ Explains(clients[ip].count, clients[ip].age, allowed[ip])
    BY DEF GateInv, GateTyped, Counts
  <2> QED
    BY <2>1, CountedExplains DEF Allow
<1>2. n \in [Ages -> Nat]
  BY DEF GateInv, GateTyped
<1>3. clients' = [clients EXCEPT ![ip] = c] /\ allowed' = [allowed EXCEPT ![ip] = n]
  BY DEF Allow
<1> HIDE DEF c, n
<1>4. GateTyped'
  BY <1>1, <1>2, <1>3 DEF Allow, GateInv, GateTyped
<1>5. Counts'
  <2> SUFFICES ASSUME NEW q \in IPs
               PROVE  Explains(clients'[q].count, clients'[q].age, allowed'[q])
    BY DEF Counts, Explains
  <2>1. CASE q = ip
    BY <1>1, <1>3, <2>1 DEF GateInv, GateTyped
  <2>2. CASE q # ip
    BY <1>3, <2>2 DEF GateInv, GateTyped, Counts
  <2> QED
    BY <2>1, <2>2
<1>6. Spent'
  BY DEF Allow, GateInv, Spent
<1> QED
  BY <1>4, <1>5, <1>6 DEF GateInv

\* The limiter forgets an address only after all it allowed is a window old.
LEMMA CleanupKeeps ==
  ASSUME GateInv, NEW ip \in IPs, Cleanup(ip)
  PROVE  GateInv'
<1>1. Explains(0, 0, allowed[ip])
  <2>1. clients[ip].age \in Nat /\ clients[ip].age > 2 * Window
    BY DEF Cleanup, GateInv, GateTyped
  <2>2. \A a \in Ages : allowed[ip][a] = 0
    BY <2>1, GateAssumption DEF GateInv, Counts, Explains, Ages
  <2> QED
    BY <2>2, GateAssumption DEF Explains, Ages
<1>2. GateTyped'
  BY DEF Cleanup, GateInv, GateTyped, NoClient
<1>3. Counts'
  <2> SUFFICES ASSUME NEW q \in IPs
               PROVE  Explains(clients'[q].count, clients'[q].age, allowed[q])
    BY DEF Counts, Explains, Cleanup
  <2>1. CASE q = ip
    <3>1. clients'[q].count = 0 /\ clients'[q].age = 0
      BY <2>1 DEF Cleanup, NoClient, GateInv, GateTyped
    <3> QED
      BY <1>1, <2>1, <3>1
  <2>2. CASE q # ip
    BY <2>2 DEF Cleanup, GateInv, GateTyped, Counts
  <2> QED
    BY <2>1, <2>2
<1>4. Spent'
  BY DEF Cleanup, GateInv, Spent
<1> QED
  BY <1>2, <1>3, <1>4 DEF GateInv

\* The requests grow older with the window they were counted in.
LEMMA TickExplains ==
  ASSUME NEW c \in Nat, NEW g \in Nat, NEW h \in Nat, NEW n \in [Ages -> Nat], NEW m,
         Explains(c, g, n), c # 0,
         h = IF g <= 2 * Window THEN g + 1 ELSE g,
         \A a \in Ages : m[a] = IF a = 0 THEN 0 ELSE n[a - 1]
  PROVE  Explains(c, h, m)
<1> SUFFICES ASSUME NEW a \in Ages
             PROVE  /\ m[a] <= c + Limit
                    /\ a < h => m[a] <= c
                    /\ a < h - Window => m[a] = 0
  BY DEF Explains
<1>1. CASE a = 0
  BY <1>1, GateAssumption DEF Explains, Ages
<1>2. CASE a # 0
  <2>1. a - 1 \in Ages /\ m[a] = n[a - 1] /\ n[a - 1] \in Nat
    BY <1>2, GateAssumption DEF Ages
  <2>2. (a < h => a - 1 < g) /\ (a < h - Window => a - 1 < g - Window)
    BY GateAssumption DEF Ages
  <2> QED
    BY <2>1, <2>2, GateAssumption DEF Explains, Ages
<1> QED
  BY <1>1, <1>2

\* A tick.
LEMMA GateTickKeeps ==
  ASSUME GateInv, GateTick
  PROVE  GateInv'
<1> DEFINE older(n) == [a \in Ages |-> IF a = 0 THEN 0 ELSE n[a - 1]]
<1>1. ASSUME NEW ip \in IPs
      PROVE  /\ clients'[ip] \in [count : Nat, age : Nat]
             /\ clients'[ip].count = clients[ip].count
             /\ clients[ip].count # 0 =>
                  clients'[ip].age = IF clients[ip].age <= 2 * Window
                                     THEN clients[ip].age + 1 ELSE clients[ip].age
             /\ clients[ip].count = 0 => clients'[ip].age = 0
             /\ allowed'[ip] = older(allowed[ip])
             /\ older(allowed[ip]) \in [Ages -> Nat]
  <2>1. clients[ip] \in [count : Nat, age : Nat] /\ allowed[ip] \in [Ages -> Nat]
    BY DEF GateInv, GateTyped
  <2>2. clients[ip].count = 0 => clients[ip] = NoClient
    BY <2>1 DEF GateInv, Counts, Explains, NoClient
  <2>3. allowed'[ip] = older(allowed[ip])
    BY DEF GateTick
  <2>4. older(allowed[ip]) \in [Ages -> Nat]
    <3> SUFFICES ASSUME NEW a \in Ages, a # 0 PROVE allowed[ip][a - 1] \in Nat
      OBVIOUS
    <3> QED
      BY <2>1, GateAssumption DEF Ages
  <2>5. CASE clients[ip] = NoClient
    BY <2>1, <2>3, <2>4, <2>5 DEF GateTick, NoClient
  <2>6. CASE clients[ip] # NoClient
    BY <2>1, <2>2, <2>3, <2>4, <2>6, GateAssumption DEF GateTick
  <2> QED
    BY <2>5, <2>6
<1>2. GateTyped'
  <2>1. clients' \in [IPs -> [count : Nat, age : Nat]]
    BY <1>1 DEF GateTick
  <2>2. allowed' \in [IPs -> [Ages -> Nat]]
    BY <1>1, Zenon DEF GateTick
  <2>3. wsTickets' \in [Tickets -> Int] /\ admitted' \in [Tickets -> Nat]
    BY DEF GateTick, GateInv, GateTyped
  <2> QED
    BY <2>1, <2>2, <2>3 DEF GateTyped
<1>3. Counts'
  <2> SUFFICES ASSUME NEW ip \in IPs
               PROVE  Explains(clients'[ip].count, clients'[ip].age, allowed'[ip])
    BY DEF Counts, Explains
  <2>1. /\ clients[ip].count \in Nat /\ clients[ip].age \in Nat
        /\ allowed[ip] \in [Ages -> Nat]
        /\ Explains(clients[ip].count, clients[ip].age, allowed[ip])
    BY DEF GateInv, GateTyped, Counts
  <2>2. CASE clients[ip].count = 0
    <3>1. \A a \in Ages : allowed[ip][a] = 0
      BY <2>1, <2>2 DEF Explains
    <3>2. \A a \in Ages : a # 0 => a - 1 \in Ages
      BY GateAssumption DEF Ages
    <3>3. ASSUME NEW a \in Ages PROVE allowed'[ip][a] = 0
      <4>1. allowed'[ip][a] = IF a = 0 THEN 0 ELSE allowed[ip][a - 1]
        BY <1>1, Zenon
      <4> QED
        BY <3>1, <3>2, <4>1
    <3>4. clients'[ip].count = 0 /\ clients'[ip].age = 0
      BY <1>1, <2>2, Zenon
    <3> QED
      BY <3>3, <3>4, GateAssumption DEF Explains, Ages
  <2>3. CASE clients[ip].count # 0
    <3> DEFINE h == clients'[ip].age
               m == allowed'[ip]
    <3>1. /\ h \in Nat /\ clients'[ip].count = clients[ip].count
          /\ h = IF clients[ip].age <= 2 * Window THEN clients[ip].age + 1 ELSE clients[ip].age
          /\ \A a \in Ages : m[a] = IF a = 0 THEN 0 ELSE allowed[ip][a - 1]
      BY <1>1, <2>3, ZenonT(40)
    <3> HIDE DEF h, m
    <3>2. Explains(clients[ip].count, h, m)
      BY <2>1, <2>3, <3>1, TickExplains
    <3> QED
      BY <3>1, <3>2 DEF h, m
  <2> QED
    BY <2>2, <2>3
<1>4. Spent'
  BY DEF GateTick, GateInv, GateTyped, Spent, Gone
<1> QED
  BY <1>2, <1>3, <1>4 DEF GateInv

\* A ticket leaves the map when it is used.
LEMMA TicketKeeps ==
  ASSUME GateInv,
         \/ \E t \in Tickets : issueWSTicket(t) \/ consumeWSTicket(t)
         \/ cleanupWSTickets
  PROVE  GateInv'
<1>1. UNCHANGED <<clients, allowed>>
  BY DEF issueWSTicket, consumeWSTicket, cleanupWSTickets
<1>2. Counts'
  BY <1>1 DEF GateInv, Counts, Explains
<1>3. ASSUME NEW t \in Tickets, issueWSTicket(t) PROVE GateTyped' /\ Spent'
  BY <1>1, <1>3, GateAssumption DEF issueWSTicket, GateInv, GateTyped, Spent, Unissued, Gone
<1>4. ASSUME NEW t \in Tickets, consumeWSTicket(t) PROVE GateTyped' /\ Spent'
  BY <1>1, <1>4 DEF consumeWSTicket, Consumed, GateInv, GateTyped, Spent, Gone
<1>5. ASSUME cleanupWSTickets PROVE GateTyped' /\ Spent'
  BY <1>1, <1>5 DEF cleanupWSTickets, GateInv, GateTyped, Spent, Gone
<1>6. GateTyped' /\ Spent'
  BY <1>3, <1>4, <1>5
<1> QED
  BY <1>2, <1>6 DEF GateInv

\* Every step of the gate.
LEMMA GateKeeps ==
  ASSUME GateInv, [GateNext]_gateVars
  PROVE  GateInv'
<1>1. CASE UNCHANGED gateVars
  BY <1>1 DEF gateVars, GateInv, GateTyped, Counts, Explains, Spent
<1> QED
  BY <1>1, AllowKeeps, CleanupKeeps, GateTickKeeps, TicketKeeps DEF GateNext

\* What the invariant is for.
LEMMA GateImplies == GateInv => BurstBounded /\ TicketOnce
<1> SUFFICES ASSUME GateInv PROVE BurstBounded /\ TicketOnce
  OBVIOUS
<1>1. ASSUME NEW ip \in IPs PROVE allowed[ip][Window] <= 2 * Limit
  <2>1. Window \in Ages
    BY GateAssumption DEF Ages
  <2>2. /\ clients[ip].count \in Nat /\ allowed[ip][Window] \in Nat
        /\ clients[ip].count <= Limit /\ allowed[ip][Window] <= clients[ip].count + Limit
    BY <2>1, GateAssumption DEF GateInv, GateTyped, Counts, Explains, Ages
  <2> QED
    BY <2>2, GateAssumption
<1> QED
  BY <1>1 DEF GateInv, GateTyped, Spent, BurstBounded, TicketOnce

\* rateLimitMiddleware and consumeWSTicket (server.go): in any span of a window's length
\* an address gets at most twice the limit, and a ticket admits one connection, for every
\* limit, window, ticket lifetime and number of addresses and tickets.
THEOREM GateIsTight == GateSpec => []GateHolds
<1>1. GateInv /\ [GateNext]_gateVars => GateInv'
  BY GateKeeps
<1>2. GateInv => GateHolds
  BY GateImplies DEF GateHolds
<1> QED
  BY GateInitially, <1>1, <1>2, PTL DEF GateSpec

\* Whoever is past acquireLock holds the lock, and nobody else has the store open; it is
\* closed before the lock is given up.
Exclusive ==
  /\ \A p \in Processes : stage[p] # "off" => lock = p
  /\ \A p \in open : stage[p] \notin {"off", "closed"}

\* What comes after the roles finds all of them, and an admin row finds some.
RolesFirst ==
  /\ \A p \in Processes : stage[p] \in {"permissions", "grants", "admin"} => roles = RoleNames
  /\ admin # "none" => roles # {}

\* A process that seeds does so on tables without an admin row.
SeedingFresh ==
  \A p \in Processes : stage[p] \in {"roles", "permissions", "grants", "admin"} => admin = "none"

LifeStages == {"off", "store", "count", "roles", "permissions", "grants", "admin", "up",
           "stopping", "closed", "unlocked"}

\* The variables the argument is about.
LifeTyped ==
  /\ stage \in [Processes -> LifeStages]
  /\ open \subseteq Processes
  /\ roles \subseteq RoleNames
  /\ admin \in {"none", "default", "changed"}

LifeInv == LifeTyped /\ Exclusive /\ RolesFirst /\ SeedingFresh

\* No process runs and the tables are empty at the start.
LEMMA LifeInitially == LifeInit => LifeInv
BY DEF LifeInit, LifeInv, LifeTyped, LifeStages, Exclusive, RolesFirst, SeedingFresh

\* A process takes the lock when nobody is past acquireLock.
LEMMA LockKeeps ==
  ASSUME LifeInv, NEW p \in Processes, acquireLock(p)
  PROVE  LifeInv'
<1>1. \A q \in Processes : stage[q] = "off"
  BY LifeAssumption DEF acquireLock, Nobody, LifeInv, Exclusive
<1> QED
  BY <1>1, LifeAssumption
  DEF acquireLock, Nobody, Goto, tables, LifeInv, LifeTyped, LifeStages, Exclusive, RolesFirst,
      SeedingFresh

\* Steps of a process on its way up change its stage, and the tables it seeds.
LEMMA StartKeeps ==
  ASSUME LifeInv, NEW p \in Processes,
         \/ OpenStore(p) \/ CountRoles(p) \/ InsertRole(p) \/ RolesDone(p)
         \/ InsertPermissions(p) \/ InsertAdmin(p) \/ SeedFails(p)
  PROVE  LifeInv'
<1>1. CASE OpenStore(p)
  BY <1>1 DEF OpenStore, At, Goto, tables, LifeInv, LifeTyped, LifeStages, Exclusive,
      RolesFirst, SeedingFresh
<1>2. CASE CountRoles(p)
  BY <1>2 DEF CountRoles, Seeded, At, Goto, tables, LifeInv, LifeTyped, LifeStages, Exclusive,
      RolesFirst,
              SeedingFresh
<1>3. CASE InsertRole(p)
  <2>1. \A q \in Processes : stage[q] \notin {"permissions", "grants", "admin"}
    BY <1>3 DEF InsertRole, At, LifeInv, Exclusive
  <2> QED
    BY <1>3, <2>1 DEF InsertRole, LifeInv, LifeTyped, Exclusive, RolesFirst, SeedingFresh
<1>4. CASE RolesDone(p)
  BY <1>4, LifeAssumption DEF RolesDone, At, Goto, tables, LifeInv, LifeTyped, LifeStages,
      Exclusive, RolesFirst, SeedingFresh
<1>5. CASE InsertPermissions(p)
  BY <1>5 DEF InsertPermissions, At, Goto, tables, LifeInv, LifeTyped, LifeStages, Exclusive,
      RolesFirst,
              SeedingFresh
<1>6. CASE InsertAdmin(p)
  <2>1. \A q \in Processes : q # p => stage[q] = "off"
    BY <1>6 DEF InsertAdmin, At, LifeInv, Exclusive
  <2> QED
    BY <1>6, <2>1, LifeAssumption
    DEF InsertAdmin, At, Goto, LifeInv, LifeTyped, LifeStages, Exclusive, RolesFirst,
        SeedingFresh
<1>7. CASE SeedFails(p)
  BY <1>7 DEF SeedFails, Goto, tables, LifeInv, LifeTyped, LifeStages, Exclusive, RolesFirst,
      SeedingFresh
<1> QED
  BY <1>1, <1>2, <1>3, <1>4, <1>5, <1>6, <1>7

\* While requests are handled no process seeds.
LEMMA RequestKeeps ==
  ASSUME LifeInv, NEW p \in Processes, NEW r, BeginRequest(p, r) \/ EndRequest(p, r)
  PROVE  LifeInv'
<1>1. CASE BeginRequest(p, r)
  BY <1>1 DEF BeginRequest, tables, LifeInv, LifeTyped, Exclusive, RolesFirst, SeedingFresh
<1>2. CASE EndRequest(p, r)
  <2>1. \A q \in Processes : stage[q] \notin {"roles", "permissions", "grants", "admin"}
    BY <1>2 DEF EndRequest, LifeInv, Exclusive
  <2> QED
    BY <1>2, <2>1 DEF EndRequest, LifeInv, LifeTyped, Exclusive, RolesFirst, SeedingFresh
<1> QED
  BY <1>1, <1>2

\* The store is closed before the lock is given up.
LEMMA StopKeeps ==
  ASSUME LifeInv, NEW p \in Processes, Signal(p) \/ Stop(p) \/ NodeCrash(p)
  PROVE  LifeInv'
<1>1. CASE Signal(p)
  BY <1>1 DEF Signal, At, Goto, tables, LifeInv, LifeTyped, LifeStages, Exclusive, RolesFirst,
      SeedingFresh
<1>2. CASE Stop(p)
  <2>1. \A q \in Processes : q # p => stage[q] = "off"
    BY <1>2 DEF Stop, Deferred, At, LifeInv, Exclusive
  <2> QED
    BY <1>2, <2>1 DEF Stop, Deferred, At, Goto, tables, LifeInv, LifeTyped, LifeStages,
        Exclusive, RolesFirst,
                      SeedingFresh
<1>3. CASE NodeCrash(p)
  <2>1. \A q \in Processes : q # p => stage[q] = "off"
    BY <1>3 DEF NodeCrash, LifeInv, Exclusive
  <2> QED
    BY <1>3, <2>1 DEF NodeCrash, Goto, tables, LifeInv, LifeTyped, LifeStages, Exclusive,
        RolesFirst, SeedingFresh
<1> QED
  BY <1>1, <1>2, <1>3

\* Every step of a process.
LEMMA LifeKeeps ==
  ASSUME LifeInv, [LifeNext]_lifeVars
  PROVE  LifeInv'
<1>1. CASE UNCHANGED lifeVars
  BY <1>1 DEF lifeVars, LifeInv, LifeTyped, Exclusive, RolesFirst, SeedingFresh
<1> QED
  BY <1>1, LockKeeps, StartKeeps, RequestKeeps, StopKeeps DEF LifeNext

\* The instance that has the database open holds the lock.
LEMMA LifeImplies == LifeInv => OneInstance
BY DEF LifeInv, LifeTyped, Exclusive, OneInstance

\* Only seeding writes the default password, and no process seeds once there is an
\* admin row.
LEMMA PasswordStep ==
  ASSUME LifeInv, [LifeNext]_lifeVars, admin = "changed"
  PROVE  admin' = "changed"
<1>1. CASE UNCHANGED lifeVars
  BY <1>1 DEF lifeVars
<1>2. ASSUME NEW p \in Processes, InsertAdmin(p) PROVE FALSE
  BY <1>2, SMTT(20) DEF InsertAdmin, At, LifeInv, SeedingFresh
<1>3. CASE LifeNext
  BY <1>2, <1>3, Zenon DEF LifeNext, acquireLock, OpenStore, CountRoles, InsertRole, RolesDone,
       InsertPermissions, SeedFails, BeginRequest, EndRequest, Signal, Stop, NodeCrash, tables
<1> QED
  BY <1>1, <1>3

LEMMA LifeInvariance == LifeSpec => []LifeInv
<1>1. LifeInv /\ [LifeNext]_lifeVars => LifeInv'
  BY LifeKeeps
<1> QED
  BY LifeInitially, <1>1, PTL DEF LifeSpec

\* acquireLock and main's deferred calls (main.go): two instances never have the database
\* open at once, for any number of instances and crashes.
THEOREM DatabaseHasOneUser == LifeSpec => []OneInstance
BY LifeInvariance, LifeImplies, PTL

\* seedAuthData (auth_schema.go): no start sets a changed admin password back, for any
\* number of instances, default roles, failed statements and crashes.
THEOREM SeedingKeepsPassword == LifeSpec => PasswordKept
<1>1. LifeInv /\ [LifeNext]_lifeVars => (admin = "changed" => admin' = "changed")
  BY PasswordStep
<1> QED
  BY LifeInvariance, <1>1, PTL DEF LifeSpec, PasswordKept

-----------------------------------------------------------------------------
(* RunIntelUpdate.                                                         *)

File == [ouis : SUBSET OUIs, whole : BOOLEAN]
Writing == {"write", "validate", "restore", "sync", "patch"}

\* What an update holds at each of its steps.
Reading == [at : {"fetch"}, read : SUBSET OUIs]
Changing == [at : {"backup"} \union Writing, read : SUBSET OUIs, new : SUBSET OUIs]
Copied == [at : {"fill"} \union Writing, read : SUBSET OUIs, new : SUBSET OUIs, copy : File]
Restoring == [at : {"refill"}, copy : File]
Syncing == [at : {"sync fill", "patch"}, new : SUBSET OUIs, copy : File]
Inserting == [at : {"insert"}, new : SUBSET OUIs, source : [OUIs -> Nat]]
UpdaterState ==
  {NotUpdating} \union Reading \union Changing \union Copied \union Restoring
    \union Syncing \union Inserting

IntelTyped ==
  /\ models \in File /\ backup \in File
  /\ goMap \in [OUIs -> Nat]
  /\ updater \in [Updaters -> UpdaterState]
  /\ overlapped \in BOOLEAN
  /\ ioFaults \in Nat

Busy(u) == updater[u].at # "idle"

\* Without an overlap one update runs.
AtMostOne == \A u, v \in Updaters : Busy(u) /\ Busy(v) => u = v

\* The prefixes of fingerprint.go are among ouis, once each.
PatchedFrom(ouis) == \A o \in OUIs : goMap[o] <= 1 /\ (goMap[o] = 1 => o \in ouis)

\* What an update at each of its steps may rely on.
Relies(s) ==
  /\ s.at \in {"fetch", "backup", "fill", "write"} => models.whole /\ s.read = models.ouis
  /\ s.at = "fill" => s.copy = models
  /\ s.at = "write" => (ioFaults = 0 => backup = models)
  /\ s.at \in {"backup", "fill", "write", "validate"} => s.new \intersect s.read = {}
  /\ s.at \in {"validate", "restore"} =>
       /\ models.whole /\ models.ouis = s.read \union s.new
       /\ ioFaults = 0 \/ s.at = "restore" => backup.whole /\ backup.ouis = s.read
       /\ PatchedFrom(s.read)
  /\ s.at = "refill" => s.copy = backup /\ backup.whole /\ PatchedFrom(backup.ouis)
  /\ s.at \in {"sync", "sync fill", "patch", "insert"} =>
       models.whole /\ s.new \subseteq models.ouis /\ \A o \in s.new \intersect OUIs : goMap[o] = 0
  /\ s.at = "insert" => s.source = goMap

\* Between updates and within them.
IntelHolds ==
  /\ AtMostOne
  /\ models.whole \/ backup.whole
  /\ models.whole => PatchedFrom(models.ouis)
  /\ \A o \in OUIs : goMap[o] <= 1
  /\ \A u \in Updaters : Relies(updater[u])

IntelInv == IntelTyped /\ (~overlapped => IntelHolds)

LEMMA HeldTyped ==
  ASSUME NEW s \in UpdaterState
  PROVE  /\ s.at \in {"fetch", "backup", "fill"} \union (Writing \ {"patch"})
              => s.read \in SUBSET OUIs
         /\ s.at \in {"backup", "fill", "sync fill", "insert"} \union Writing
              => s.new \in SUBSET OUIs
         /\ s.at \in {"fill", "refill", "sync fill"} => s.copy \in File
         /\ s.at = "insert" => s.source \in [OUIs -> Nat]
         /\ s.at = "idle" => s = NotUpdating
<1>1. CASE s = NotUpdating
  BY <1>1 DEF NotUpdating, Writing
<1>2. CASE s \in Reading
  BY <1>2, Zenon DEF Reading, Writing
<1>3. CASE s \in Changing
  BY <1>3, Zenon DEF Changing, Writing
<1>4. CASE s \in Copied
  BY <1>4, Zenon DEF Copied, Writing
<1>5. CASE s \in Restoring
  BY <1>5, Zenon DEF Restoring, Writing
<1>6. CASE s \in Syncing
  BY <1>6, Zenon DEF Syncing, Writing
<1>7. CASE s \in Inserting
  BY <1>7, Zenon DEF Inserting, Writing
<1> QED
  BY <1>1, <1>2, <1>3, <1>4, <1>5, <1>6, <1>7, Zenon DEF UpdaterState

MayMove(s, step) ==
  \/ s.at \in {"backup", "fill"} \union (Writing \ {"patch"})
  \/ s.at = "sync fill" /\ step = "patch"

\* What is held survives the move to a later step.
LEMMA StepKeepsHeld ==
  ASSUME NEW s \in UpdaterState, NEW step \in Writing, NEW t, t = [s EXCEPT !.at = step],
         MayMove(s, step)
  PROVE  /\ t \in UpdaterState /\ t.at = step /\ t.new = s.new
         /\ s.at # "sync fill" => t.read = s.read
<1>1. CASE s = NotUpdating
  BY <1>1 DEF MayMove, NotUpdating, Writing
<1>2. CASE s \in Reading
  BY <1>2, Zenon DEF MayMove, Reading, Writing
<1>3. CASE s \in Changing
  <2>1. t \in Changing /\ t.at = step /\ t.new = s.new /\ t.read = s.read
    BY <1>3 DEF Changing, Writing
  <2> QED
    BY <2>1, Zenon DEF UpdaterState
<1>4. CASE s \in Copied
  <2>1. t \in Copied /\ t.at = step /\ t.new = s.new /\ t.read = s.read
    BY <1>4 DEF Copied, Writing
  <2> QED
    BY <2>1, Zenon DEF UpdaterState
<1>5. CASE s \in Restoring
  BY <1>5, Zenon DEF MayMove, Restoring, Writing
<1>6. CASE s \in Syncing
  <2>1. s.at = "sync fill" /\ step = "patch"
    BY <1>6, Zenon DEF Syncing, MayMove, Writing
  <2>2. t \in Syncing /\ t.at = step /\ t.new = s.new
    BY <1>6, <2>1, Zenon DEF Syncing
  <2> QED
    BY <2>1, <2>2, Zenon DEF UpdaterState
<1>7. CASE s \in Inserting
  BY <1>7, Zenon DEF MayMove, Inserting, Writing
<1> QED
  BY <1>1, <1>2, <1>3, <1>4, <1>5, <1>6, <1>7, Zenon DEF UpdaterState

LEMMA GoToKeepsHeld ==
  ASSUME updater \in [Updaters -> UpdaterState], NEW u \in Updaters, NEW step \in Writing,
         MayMove(updater[u], step), GoTo(u, step)
  PROVE  \E s \in UpdaterState :
           /\ updater' = [updater EXCEPT ![u] = s]
           /\ s.at = step /\ s.new = updater[u].new
           /\ updater[u].at # "sync fill" => s.read = updater[u].read
<1>1. PICK r \in UpdaterState : r = updater[u]
  OBVIOUS
<1>2. PICK s : s = [r EXCEPT !.at = step]
  BY Zenon
<1>3. /\ s \in UpdaterState /\ s.at = step /\ s.new = r.new
      /\ r.at # "sync fill" => s.read = r.read
  <2>1. MayMove(r, step)
    BY <1>1, Zenon
  <2>2. s \in UpdaterState
    BY <1>2, <2>1, StepKeepsHeld, Zenon
  <2>3. s.at = step
    BY <1>2, <2>1, StepKeepsHeld, Zenon
  <2>4. s.new = r.new
    BY <1>2, <2>1, StepKeepsHeld, Zenon
  <2>5. r.at # "sync fill" => s.read = r.read
    BY <1>2, <2>1, StepKeepsHeld, ZenonT(40)
  <2> QED
    BY <2>2, <2>3, <2>4, <2>5, Zenon
<1>4. updater' = [updater EXCEPT ![u] = s]
  BY <1>1, <1>2 DEF GoTo
<1> QED
  BY <1>1, <1>3, <1>4, Zenon

\* What a step has to show: it changes one update, and without an overlap the others rest.
LEMMA UpdateStep ==
  ASSUME IntelInv, NEW u \in Updaters, NEW s \in UpdaterState,
         updater' = [updater EXCEPT ![u] = s],
         models' \in File, backup' \in File, goMap' \in [OUIs -> Nat],
         overlapped' \in BOOLEAN, ioFaults' \in Nat,
         ~overlapped' =>
           /\ \A v \in Updaters : v # u => updater[v].at = "idle"
           /\ models'.whole \/ backup'.whole
           /\ models'.whole => PatchedFrom(models.ouis)'
           /\ \A o \in OUIs : goMap'[o] <= 1
           /\ Relies(s)'
  PROVE  IntelInv'
<1>1. updater' \in [Updaters -> UpdaterState]
  BY DEF IntelInv, IntelTyped
<1>2. IntelTyped'
  BY <1>1 DEF IntelTyped
<1>3. \A v \in Updaters : updater'[v] = IF v = u THEN s ELSE updater[v]
  BY DEF IntelInv, IntelTyped
<1>4. ASSUME ~overlapped' PROVE IntelHolds'
  <2>1. AtMostOne'
    BY <1>3, <1>4 DEF AtMostOne, Busy
  <2>2. ASSUME NEW v \in Updaters PROVE Relies(updater[v])'
    <3>1. CASE v = u
      BY <1>3, <1>4, <3>1
    <3>2. CASE v # u
      <4>1. updater'[v].at = "idle"
        BY <1>3, <1>4, <3>2
      <4> QED
        BY <4>1, Zenon DEF Relies
    <3> QED
      BY <3>1, <3>2
  <2> QED
    BY <1>4, <2>1, <2>2, Zenon DEF IntelHolds
<1> QED
  BY <1>2, <1>4 DEF IntelInv

\* Whoever is at a step rests no more, so without an overlap all others do.
LEMMA OthersRest ==
  ASSUME IntelInv, ~overlapped, NEW u \in Updaters, updater[u].at # "idle"
  PROVE  /\ \A v \in Updaters : v # u => updater[v].at = "idle"
         /\ IntelHolds /\ Relies(updater[u])
BY DEF IntelInv, IntelHolds, AtMostOne, Busy

\* The end of an update leaves the files as they are.
LEMMA EndSafe ==
  ASSUME IntelInv, NEW u \in Updaters, updater[u].at # "idle", Done(u),
         models' = models \/ (models'.whole => PatchedFrom(models.ouis)'),
         models' \in File, backup' = backup,
         goMap' = goMap, overlapped' = overlapped, ioFaults' \in Nat,
         ~overlapped => models'.whole \/ backup.whole
  PROVE  IntelInv'
<1>1. updater' = [updater EXCEPT ![u] = NotUpdating] /\ NotUpdating \in UpdaterState
  BY DEF Done, UpdaterState
<1>2. Relies(NotUpdating)'
  BY DEF Relies, NotUpdating
<1>3. ~overlapped' => /\ \A v \in Updaters : v # u => updater[v].at = "idle"
                      /\ models'.whole => PatchedFrom(models.ouis)'
                      /\ \A o \in OUIs : goMap'[o] <= 1
  BY OthersRest DEF IntelHolds, PatchedFrom
<1> QED
  BY <1>1, <1>2, <1>3, UpdateStep, Zenon DEF IntelInv, IntelTyped

LEMMA ReadModelsSafe ==
  ASSUME IntelInv, NEW u \in Updaters, ReadModels(u) PROVE IntelInv'
<1>0. PICK s : s = IF models.whole THEN [at |-> "fetch", read |-> models.ouis] ELSE NotUpdating
  BY Zenon
<1>1. updater[u] = NotUpdating /\ updater[u].at = "idle"
  BY DEF ReadModels, NotUpdating
<1>2. models \in File /\ models.ouis \in SUBSET OUIs /\ updater \in [Updaters -> UpdaterState]
  BY DEF IntelInv, IntelTyped, File
<1>3. s \in UpdaterState
  BY <1>0, <1>2 DEF UpdaterState, Reading
<1>4. updater' = [updater EXCEPT ![u] = s]
  BY <1>0, <1>1, <1>2, Zenon DEF ReadModels
<1>5. /\ models' = models /\ backup' = backup /\ goMap' = goMap /\ ioFaults' = ioFaults
      /\ overlapped' = (overlapped \/ \E v \in Updaters : updater[v] # NotUpdating)
  BY DEF ReadModels
<1>6. overlapped' \in BOOLEAN
  BY <1>5 DEF IntelInv, IntelTyped
<1>7. ASSUME ~overlapped'
      PROVE  /\ \A v \in Updaters : v # u => updater[v].at = "idle"
             /\ models'.whole \/ backup'.whole
             /\ models'.whole => PatchedFrom(models.ouis)'
             /\ \A o \in OUIs : goMap'[o] <= 1
  <2>1. ~overlapped /\ IntelHolds
    BY <1>5, <1>7, Zenon DEF IntelInv
  <2>2. \A v \in Updaters : updater[v] = NotUpdating
    BY <1>5, <1>7, Zenon
  <2> QED
    BY <1>5, <2>1, <2>2 DEF IntelHolds, PatchedFrom, NotUpdating
<1>8. Relies(s)'
  <2>1. CASE models.whole
    BY <1>0, <1>5, <2>1 DEF Relies
  <2>2. CASE ~models.whole
    BY <1>0, <2>2 DEF Relies, NotUpdating
  <2> QED
    BY <2>1, <2>2
<1> QED
  BY <1>3, <1>4, <1>5, <1>6, <1>7, <1>8, UpdateStep, Zenon DEF IntelInv, IntelTyped

\* The same for an update under way.
LEMMA ActStep ==
  ASSUME IntelInv, NEW u \in Updaters, updater[u].at # "idle", NEW s \in UpdaterState,
         updater' = [updater EXCEPT ![u] = s], overlapped' = overlapped,
         models' \in File, backup' \in File, goMap' \in [OUIs -> Nat], ioFaults' \in Nat,
         ~overlapped /\ IntelHolds /\ Relies(updater[u]) =>
           /\ models'.whole \/ backup'.whole
           /\ models'.whole => PatchedFrom(models.ouis)'
           /\ \A o \in OUIs : goMap'[o] <= 1
           /\ Relies(s)'
  PROVE  IntelInv'
BY OthersRest, UpdateStep, Zenon DEF IntelInv, IntelTyped

\* Where the files stay as they are, only what the update relies on is left to show.
LEMMA MoveStep ==
  ASSUME IntelInv, NEW u \in Updaters, updater[u].at # "idle", NEW s \in UpdaterState,
         updater' = [updater EXCEPT ![u] = s], overlapped' = overlapped,
         models' = models, backup' = backup, goMap' = goMap, ioFaults' \in Nat,
         ~overlapped /\ IntelHolds /\ Relies(updater[u]) => Relies(s)'
  PROVE  IntelInv'
<1>1. models' \in File /\ backup' \in File /\ goMap' \in [OUIs -> Nat]
  BY DEF IntelInv, IntelTyped
<1>2. IntelHolds => /\ models'.whole \/ backup'.whole
                    /\ models'.whole => PatchedFrom(models.ouis)'
                    /\ \A o \in OUIs : goMap'[o] <= 1
  BY DEF IntelHolds, PatchedFrom
<1> QED
  BY <1>1, <1>2, ActStep, Zenon

LEMMA FetchSafe ==
  ASSUME IntelInv, NEW u \in Updaters, Fetch(u) PROVE IntelInv'
<1>1. updater[u].at = "fetch" /\ updater[u] \in UpdaterState
  BY DEF Fetch, IntelInv, IntelTyped
<1>2. /\ models' = models /\ backup' = backup /\ goMap' = goMap /\ ioFaults' = ioFaults
      /\ overlapped' = overlapped /\ ioFaults' \in Nat
  BY DEF Fetch, IntelInv, IntelTyped
<1>3. CASE Done(u)
  BY <1>1, <1>2, <1>3, EndSafe DEF IntelInv, IntelTyped, IntelHolds
<1>4. ASSUME NEW got \in SUBSET OUIs, NEW new, new = NewOUIs(got, updater[u].read),
             updater' = [updater EXCEPT ![u] = [at |-> "backup", read |-> updater[u].read,
                                                new |-> new]]
      PROVE  IntelInv'
  <2>1. PICK s : s = [at |-> "backup", read |-> updater[u].read, new |-> new]
    BY Zenon
  <2>2. updater[u].read \in SUBSET OUIs
    BY <1>1, HeldTyped, Zenon
  <2>3. new \in SUBSET OUIs /\ new \intersect updater[u].read = {}
    BY <1>4, <2>2 DEF NewOUIs
  <2>4. s \in UpdaterState
    BY <2>1, <2>2, <2>3 DEF UpdaterState, Changing
  <2>5. s.at = "backup" /\ s.read = updater[u].read /\ s.new = new
    BY <2>1
  <2>6. ASSUME Relies(updater[u]) PROVE Relies(s)'
    <3>1. models.whole /\ updater[u].read = models.ouis
      BY <1>1, <2>6, Zenon DEF Relies
    <3>2. s.read = models'.ouis /\ models'.whole /\ s.new \intersect s.read = {}
      BY <1>2, <2>3, <2>5, <3>1, Zenon
    <3> QED
      BY <2>5, <3>2 DEF Relies
  <2>7. updater' = [updater EXCEPT ![u] = s]
    BY <1>4, <2>1
  <2> QED
    BY <1>1, <1>2, <2>4, <2>6, <2>7, MoveStep, Zenon
<1> QED
  BY <1>3, <1>4, Zenon DEF Fetch

LEMMA StartBackupSafe ==
  ASSUME IntelInv, NEW u \in Updaters, StartBackup(u) PROVE IntelInv'
<1>1. /\ updater[u].at = "backup" /\ updater[u] \in UpdaterState
      /\ updater \in [Updaters -> UpdaterState] /\ models \in File /\ backup \in File
      /\ goMap \in [OUIs -> Nat] /\ ioFaults \in Nat
  BY DEF StartBackup, IntelInv, IntelTyped
<1>2. models' = models /\ goMap' = goMap /\ overlapped' = overlapped
  BY DEF StartBackup
<1>3. /\ updater[u].read \in SUBSET OUIs /\ updater[u].new \in SUBSET OUIs
      /\ Relies(updater[u]) =>
           /\ models.whole /\ updater[u].read = models.ouis
           /\ updater[u].new \intersect updater[u].read = {}
  BY <1>1, HeldTyped, Zenon DEF Relies
<1>4. CASE /\ updater' = [updater EXCEPT ![u] = [at |-> "fill", read |-> updater[u].read,
                                                 new |-> updater[u].new, copy |-> models]]
           /\ backup' = Torn /\ UNCHANGED ioFaults
  <2>1. PICK s : s = [at |-> "fill", read |-> updater[u].read, new |-> updater[u].new,
                      copy |-> models]
    BY Zenon
  <2>2. s \in UpdaterState /\ backup' \in File /\ ioFaults' \in Nat
    BY <1>1, <1>3, <1>4, <2>1 DEF UpdaterState, Copied, Torn, File
  <2>3. s.at = "fill" /\ s.read = updater[u].read /\ s.new = updater[u].new /\ s.copy = models
    BY <2>1
  <2>4. ASSUME Relies(updater[u]) PROVE Relies(s)'
    BY <1>2, <1>3, <2>3, <2>4, ZenonT(40) DEF Relies
  <2>5. ASSUME IntelHolds, Relies(updater[u])
        PROVE  /\ models'.whole \/ backup'.whole
               /\ models'.whole => PatchedFrom(models.ouis)'
               /\ \A o \in OUIs : goMap'[o] <= 1
    BY <1>2, <1>3, <2>5 DEF IntelHolds, PatchedFrom
  <2>6. updater' = [updater EXCEPT ![u] = s]
    BY <1>4, <2>1
  <2> QED
    BY <1>1, <1>2, <2>2, <2>4, <2>5, <2>6, ActStep, Zenon
<1>5. CASE IOFault /\ GoTo(u, "write") /\ UNCHANGED backup
  <2>1. PICK s \in UpdaterState :
          /\ updater' = [updater EXCEPT ![u] = s]
          /\ s.at = "write" /\ s.new = updater[u].new /\ s.read = updater[u].read
    BY <1>1, <1>5, GoToKeepsHeld, Zenon DEF MayMove, Writing
  <2>2. ioFaults' \in Nat /\ ioFaults' # 0
    BY <1>1, <1>5 DEF IOFault
  <2>3. ASSUME Relies(updater[u]) PROVE Relies(s)'
    BY <1>2, <1>3, <2>1, <2>2, <2>3, Zenon DEF Relies
  <2> QED
    BY <1>1, <1>2, <1>5, <2>1, <2>2, <2>3, MoveStep, Zenon
<1> QED
  BY <1>4, <1>5, Zenon DEF StartBackup

LEMMA FillBackupSafe ==
  ASSUME IntelInv, NEW u \in Updaters, FillBackup(u) PROVE IntelInv'
<1>1. /\ updater[u].at = "fill" /\ updater[u] \in UpdaterState
      /\ updater \in [Updaters -> UpdaterState] /\ models \in File /\ backup \in File
      /\ goMap \in [OUIs -> Nat] /\ ioFaults \in Nat
  BY DEF FillBackup, IntelInv, IntelTyped
<1>2. /\ models' = models /\ goMap' = goMap /\ overlapped' = overlapped
      /\ GoTo(u, "write")
  BY DEF FillBackup
<1>3. /\ updater[u].copy \in File
      /\ Relies(updater[u]) =>
           /\ models.whole /\ updater[u].read = models.ouis /\ updater[u].copy = models
           /\ updater[u].new \intersect updater[u].read = {}
  BY <1>1, HeldTyped, Zenon DEF Relies
<1>4. PICK s \in UpdaterState :
        /\ updater' = [updater EXCEPT ![u] = s]
        /\ s.at = "write" /\ s.new = updater[u].new /\ s.read = updater[u].read
  BY <1>1, <1>2, GoToKeepsHeld, ZenonT(40) DEF MayMove, Writing
<1>5. CASE backup' = updater[u].copy /\ UNCHANGED ioFaults
  <2>1. ASSUME Relies(updater[u]) PROVE Relies(s)'
    BY <1>2, <1>3, <1>4, <1>5, <2>1, Zenon DEF Relies
  <2>2. ASSUME IntelHolds, Relies(updater[u])
        PROVE  /\ models'.whole \/ backup'.whole
               /\ models'.whole => PatchedFrom(models.ouis)'
               /\ \A o \in OUIs : goMap'[o] <= 1
    BY <1>2, <1>3, <2>2 DEF IntelHolds, PatchedFrom
  <2> QED
    BY <1>1, <1>2, <1>3, <1>4, <1>5, <2>1, <2>2, ActStep, Zenon
<1>6. CASE IOFault /\ UNCHANGED backup
  <2>1. ioFaults' \in Nat /\ ioFaults' # 0
    BY <1>1, <1>6 DEF IOFault
  <2>2. ASSUME Relies(updater[u]) PROVE Relies(s)'
    BY <1>2, <1>3, <1>4, <2>1, <2>2, Zenon DEF Relies
  <2> QED
    BY <1>1, <1>2, <1>4, <1>6, <2>1, <2>2, MoveStep, Zenon
<1> QED
  BY <1>5, <1>6, Zenon DEF FillBackup

LEMMA WriteModelsSafe ==
  ASSUME IntelInv, NEW u \in Updaters, WriteModels(u) PROVE IntelInv'
<1>1. /\ updater[u].at = "write" /\ updater[u] \in UpdaterState
      /\ updater \in [Updaters -> UpdaterState] /\ models \in File /\ backup \in File
      /\ goMap \in [OUIs -> Nat] /\ ioFaults \in Nat
  BY DEF WriteModels, IntelInv, IntelTyped
<1>2. backup' = backup /\ goMap' = goMap /\ overlapped' = overlapped
  BY DEF WriteModels
<1>3. /\ updater[u].read \in SUBSET OUIs /\ updater[u].new \in SUBSET OUIs
      /\ Relies(updater[u]) =>
           /\ models.whole /\ updater[u].read = models.ouis
           /\ ioFaults = 0 => backup = models
           /\ updater[u].new \intersect updater[u].read = {}
  BY <1>1, HeldTyped, Zenon DEF Relies, Writing
<1>4. CASE models' \in ModelsWritten(u) /\ GoTo(u, "validate") /\ UNCHANGED ioFaults
  <2>1. PICK s \in UpdaterState :
          /\ updater' = [updater EXCEPT ![u] = s]
          /\ s.at = "validate" /\ s.new = updater[u].new /\ s.read = updater[u].read
    BY <1>1, <1>4, GoToKeepsHeld, ZenonT(40) DEF MayMove, Writing
  <2>2. models' = [ouis |-> updater[u].read \union updater[u].new, whole |-> TRUE]
    BY <1>4 DEF ModelsWritten
  <2>3. models' \in File /\ models'.whole /\ models'.ouis = s.read \union s.new
    BY <1>3, <2>1, <2>2, SMTT(30) DEF File
  <2>4. ASSUME IntelHolds, Relies(updater[u])
        PROVE  PatchedFrom(s.read)'
    BY <1>2, <1>3, <2>1, <2>4 DEF IntelHolds, PatchedFrom
  <2>5. ASSUME IntelHolds, Relies(updater[u]) PROVE Relies(s)'
    <3>1. ioFaults' = 0 => backup'.whole /\ backup'.ouis = s.read
      BY <1>2, <1>3, <1>4, <2>1, <2>5, SMTT(30)
    <3>2. s.new \intersect s.read = {}
      BY <1>3, <2>1, <2>5
    <3> QED
      BY <2>1, <2>3, <2>4, <2>5, <3>1, <3>2, Zenon DEF Relies
  <2>6. ASSUME IntelHolds, Relies(updater[u])
        PROVE  /\ models'.whole \/ backup'.whole
               /\ models'.whole => PatchedFrom(models.ouis)'
               /\ \A o \in OUIs : goMap'[o] <= 1
    BY <2>3, <2>4, <2>6 DEF PatchedFrom
  <2> QED
    BY <1>1, <1>2, <1>4, <2>1, <2>3, <2>5, <2>6, ActStep, Zenon
<1>5. CASE IOFault /\ Done(u) /\ UNCHANGED models
  <2>1. ioFaults' \in Nat
    BY <1>1, <1>5 DEF IOFault
  <2> QED
    BY <1>1, <1>2, <1>5, <2>1, EndSafe DEF IntelInv, IntelHolds
<1> QED
  BY <1>4, <1>5, Zenon DEF WriteModels

\* Validation fails on its own only where the file could not be read, and then the backup
\* of this update was not what the one failure hit.
LEMMA ValidateSafe ==
  ASSUME MaxIOFaults \in {0, 1}, IntelInv, NEW u \in Updaters, Validate(u) PROVE IntelInv'
<1>1. /\ updater[u].at = "validate" /\ updater[u] \in UpdaterState
      /\ updater \in [Updaters -> UpdaterState]
      /\ goMap \in [OUIs -> Nat] /\ ioFaults \in Nat
  BY DEF Validate, IntelInv, IntelTyped
<1>2. models' = models /\ backup' = backup /\ goMap' = goMap /\ overlapped' = overlapped
  BY DEF Validate
<1>3. /\ updater[u].read \in SUBSET OUIs /\ updater[u].new \in SUBSET OUIs
      /\ Relies(updater[u]) =>
           /\ models.whole /\ models.ouis = updater[u].read \union updater[u].new
           /\ ioFaults = 0 => backup.whole /\ backup.ouis = updater[u].read
           /\ PatchedFrom(updater[u].read)
           /\ updater[u].new \intersect updater[u].read = {}
  BY <1>1, HeldTyped, Zenon DEF Relies, Writing
<1>4. CASE models.whole /\ GoTo(u, "sync") /\ UNCHANGED ioFaults
  <2>1. PICK s \in UpdaterState :
          /\ updater' = [updater EXCEPT ![u] = s]
          /\ s.at = "sync" /\ s.new = updater[u].new /\ s.read = updater[u].read
    BY <1>1, <1>4, GoToKeepsHeld, ZenonT(40) DEF MayMove, Writing
  <2>2. ASSUME Relies(updater[u]) PROVE Relies(s)'
    <3>1. \A o \in s.new \intersect OUIs : goMap'[o] = 0
      BY <1>1, <1>2, <1>3, <2>1, <2>2 DEF PatchedFrom
    <3> QED
      BY <1>2, <1>3, <2>1, <2>2, <3>1, Zenon DEF Relies
  <2> QED
    BY <1>1, <1>2, <1>4, <2>1, <2>2, MoveStep, Zenon
<1>5. CASE GoTo(u, "restore") /\ ((~models.whole /\ UNCHANGED ioFaults) \/ IOFault)
  <2>1. PICK s \in UpdaterState :
          /\ updater' = [updater EXCEPT ![u] = s]
          /\ s.at = "restore" /\ s.new = updater[u].new /\ s.read = updater[u].read
    BY <1>1, <1>5, GoToKeepsHeld, Zenon DEF MayMove, Writing
  <2>2. ioFaults' \in Nat /\ (models.whole => ioFaults = 0)
    BY <1>1, <1>5 DEF IOFault
  <2>3. ASSUME Relies(updater[u]) PROVE Relies(s)'
    BY <1>2, <1>3, <2>1, <2>2, <2>3, Zenon DEF Relies, PatchedFrom
  <2> QED
    BY <1>1, <1>2, <2>1, <2>2, <2>3, MoveStep, Zenon
<1> QED
  BY <1>4, <1>5, Zenon DEF Validate

LEMMA StartRestoreSafe ==
  ASSUME IntelInv, NEW u \in Updaters, StartRestore(u) PROVE IntelInv'
<1>1. /\ updater[u].at = "restore" /\ updater[u] \in UpdaterState
      /\ models \in File /\ backup \in File
      /\ goMap \in [OUIs -> Nat] /\ ioFaults \in Nat
  BY DEF StartRestore, IntelInv, IntelTyped
<1>2. backup' = backup /\ goMap' = goMap /\ overlapped' = overlapped
  BY Zenon DEF StartRestore
<1>3. Relies(updater[u]) => backup.whole /\ PatchedFrom(backup.ouis)
  BY <1>1 DEF Relies
<1>4. CASE /\ updater' = [updater EXCEPT ![u] = [at |-> "refill", copy |-> backup]]
           /\ models' = Torn /\ UNCHANGED ioFaults
  <2>1. PICK s : s = [at |-> "refill", copy |-> backup]
    BY ZenonT(40)
  <2>2. s \in UpdaterState /\ models' \in File /\ ~models'.whole
    BY <1>1, <1>4, <2>1, Zenon DEF UpdaterState, Restoring, Torn, File
  <2>3. s.at = "refill" /\ s.copy = backup
    BY <2>1, Zenon
  <2>4. ASSUME Relies(updater[u]) PROVE Relies(s)'
    BY <1>2, <1>3, <2>3, <2>4, ZenonT(40) DEF Relies, PatchedFrom
  <2>5. ASSUME IntelHolds, Relies(updater[u])
        PROVE  /\ models'.whole \/ backup'.whole
               /\ models'.whole => PatchedFrom(models.ouis)'
               /\ \A o \in OUIs : goMap'[o] <= 1
    BY <1>2, <1>3, <2>2, <2>5 DEF IntelHolds
  <2>6. updater' = [updater EXCEPT ![u] = s]
    BY <1>4, <2>1, Zenon
  <2> QED
    BY <1>1, <1>2, <1>4, <2>2, <2>4, <2>5, <2>6, ActStep, Zenon
<1>5. CASE IOFault /\ Done(u) /\ UNCHANGED models
  <2>1. ioFaults' \in Nat
    BY <1>1, <1>5 DEF IOFault
  <2> QED
    BY <1>1, <1>2, <1>5, <2>1, EndSafe DEF IntelInv, IntelHolds
<1> QED
  BY <1>4, <1>5, Zenon DEF StartRestore

LEMMA FillRestoreSafe ==
  ASSUME IntelInv, NEW u \in Updaters, FillRestore(u) PROVE IntelInv'
<1>1. /\ updater[u].at = "refill" /\ updater[u] \in UpdaterState
      /\ models \in File /\ backup \in File
      /\ goMap \in [OUIs -> Nat] /\ ioFaults \in Nat
  BY DEF FillRestore, IntelInv, IntelTyped
<1>2. backup' = backup /\ goMap' = goMap /\ overlapped' = overlapped /\ Done(u)
  BY DEF FillRestore
<1>3. /\ updater[u].copy \in File
      /\ Relies(updater[u]) =>
           updater[u].copy = backup /\ backup.whole /\ PatchedFrom(backup.ouis)
  BY <1>1, HeldTyped, Zenon DEF Relies
<1>4. PICK s \in UpdaterState : s = NotUpdating /\ updater' = [updater EXCEPT ![u] = s]
  BY <1>2, Zenon DEF Done, UpdaterState
<1>5. Relies(s)'
  BY <1>4 DEF Relies, NotUpdating
<1>6. CASE models' = updater[u].copy /\ UNCHANGED ioFaults
  <2>1. ASSUME IntelHolds, Relies(updater[u])
        PROVE  /\ models'.whole \/ backup'.whole
               /\ models'.whole => PatchedFrom(models.ouis)'
               /\ \A o \in OUIs : goMap'[o] <= 1
    BY <1>2, <1>3, <1>6, <2>1, SMTT(30) DEF IntelHolds, PatchedFrom
  <2> QED
    BY <1>1, <1>2, <1>3, <1>4, <1>5, <1>6, <2>1, ActStep, ZenonT(40)
<1>7. CASE IOFault /\ UNCHANGED models
  <2>1. ioFaults' \in Nat
    BY <1>1, <1>7 DEF IOFault
  <2> QED
    BY <1>1, <1>2, <1>7, <2>1, EndSafe DEF IntelInv, IntelHolds
<1> QED
  BY <1>6, <1>7, Zenon DEF FillRestore

LEMMA SyncSafe ==
  ASSUME IntelInv, NEW u \in Updaters, StartSync(u) \/ FillSync(u) PROVE IntelInv'
<1>1. /\ updater[u].at \in {"sync", "sync fill"} /\ updater[u] \in UpdaterState
      /\ updater \in [Updaters -> UpdaterState]
      /\ models \in File /\ ioFaults \in Nat
  BY Zenon DEF StartSync, FillSync, IntelInv, IntelTyped
<1>2. models' = models /\ backup' = backup /\ goMap' = goMap /\ overlapped' = overlapped
  BY Zenon DEF StartSync, FillSync
<1>3. /\ updater[u].new \in SUBSET OUIs
      /\ Relies(updater[u]) =>
           /\ models.whole /\ updater[u].new \subseteq models.ouis
           /\ \A o \in updater[u].new \intersect OUIs : goMap[o] = 0
  BY <1>1, HeldTyped, Zenon DEF Relies, Writing
<1>4. ioFaults' \in Nat
  <2>1. ioFaults' = ioFaults \/ ioFaults' = ioFaults + 1
    BY Zenon DEF StartSync, FillSync, IOFault
  <2>2. ioFaults \in Nat
    BY <1>1, Zenon
  <2> QED
    BY <2>1, <2>2
<1>5. ASSUME NEW s \in UpdaterState, updater' = [updater EXCEPT ![u] = s],
             s.at \in {"sync fill", "patch"}, s.new = updater[u].new
      PROVE  IntelInv'
  <2>1. ASSUME Relies(updater[u]) PROVE Relies(s)'
    BY <1>2, <1>3, <1>5, <2>1, Zenon DEF Relies
  <2> QED
    BY <1>1, <1>2, <1>4, <1>5, <2>1, MoveStep, Zenon
<1>6. CASE GoTo(u, "patch")
  <2>1. PICK s \in UpdaterState :
          /\ updater' = [updater EXCEPT ![u] = s]
          /\ s.at = "patch" /\ s.new = updater[u].new
    BY <1>1, <1>6, GoToKeepsHeld, Zenon DEF MayMove, Writing
  <2> QED
    BY <1>5, <2>1, Zenon
<1>7. CASE updater' = [updater EXCEPT ![u] = [at |-> "sync fill", new |-> updater[u].new,
                                              copy |-> models]]
  <2>1. PICK s : s = [at |-> "sync fill", new |-> updater[u].new, copy |-> models]
    BY Zenon
  <2>2. s \in UpdaterState
    BY <1>1, <1>3, <2>1, Zenon DEF UpdaterState, Syncing
  <2>3. s.at = "sync fill" /\ s.new = updater[u].new /\ updater' = [updater EXCEPT ![u] = s]
    BY <1>7, <2>1, Zenon
  <2> QED
    BY <1>5, <2>2, <2>3, Zenon
<1> QED
  BY <1>6, <1>7, Zenon DEF StartSync, FillSync

LEMMA ReadGoSafe ==
  ASSUME IntelInv, NEW u \in Updaters, ReadGo(u) PROVE IntelInv'
<1>1. /\ updater[u].at = "patch" /\ updater[u] \in UpdaterState
      /\ models \in File /\ backup \in File
      /\ goMap \in [OUIs -> Nat] /\ ioFaults \in Nat
  BY DEF ReadGo, IntelInv, IntelTyped
<1>2. models' = models /\ backup' = backup /\ goMap' = goMap /\ overlapped' = overlapped
  BY DEF ReadGo
<1>3. /\ updater[u].new \in SUBSET OUIs
      /\ Relies(updater[u]) =>
           /\ models.whole /\ updater[u].new \subseteq models.ouis
           /\ \A o \in updater[u].new \intersect OUIs : goMap[o] = 0
  BY <1>1, HeldTyped, Zenon DEF Relies, Writing
<1>4. CASE /\ updater' = [updater EXCEPT ![u] = [at |-> "insert", new |-> updater[u].new,
                                                 source |-> goMap]]
           /\ UNCHANGED ioFaults
  <2>1. PICK s : s = [at |-> "insert", new |-> updater[u].new, source |-> goMap]
    BY Zenon
  <2>2. s \in UpdaterState
    BY <1>1, <1>3, <2>1 DEF UpdaterState, Inserting
  <2>3. s.at = "insert" /\ s.new = updater[u].new /\ s.source = goMap
    BY <2>1, Zenon
  <2>4. ASSUME Relies(updater[u]) PROVE Relies(s)'
    BY <1>2, <1>3, <2>3, <2>4, Zenon DEF Relies
  <2>5. updater' = [updater EXCEPT ![u] = s]
    BY <1>4, <2>1, ZenonT(40)
  <2> QED
    BY <1>1, <1>2, <1>4, <2>2, <2>4, <2>5, MoveStep, Zenon
<1>5. CASE IOFault /\ Done(u)
  <2>1. ioFaults' \in Nat
    BY <1>1, <1>5 DEF IOFault
  <2> QED
    BY <1>1, <1>2, <1>5, <2>1, EndSafe, Zenon DEF IntelInv, IntelHolds
<1> QED
  BY <1>4, <1>5, Zenon DEF ReadGo

\* What is inserted was in drone_models.json and not yet in fingerprint.go.
LEMMA WriteGoSafe ==
  ASSUME IntelInv, NEW u \in Updaters, WriteGo(u) PROVE IntelInv'
<1>1. /\ updater[u].at = "insert" /\ updater[u] \in UpdaterState
      /\ models \in File /\ backup \in File
      /\ goMap \in [OUIs -> Nat] /\ ioFaults \in Nat
  BY DEF WriteGo, IntelInv, IntelTyped
<1>2. models' = models /\ backup' = backup /\ overlapped' = overlapped /\ Done(u)
  BY DEF WriteGo
<1>3. /\ updater[u].new \in SUBSET OUIs /\ updater[u].source \in [OUIs -> Nat]
      /\ Relies(updater[u]) =>
           /\ models.whole /\ updater[u].new \subseteq models.ouis
           /\ \A o \in updater[u].new \intersect OUIs : goMap[o] = 0
           /\ updater[u].source = goMap
  BY <1>1, HeldTyped, Zenon DEF Relies
<1>4. PICK s \in UpdaterState : s = NotUpdating /\ updater' = [updater EXCEPT ![u] = s]
  BY <1>2, Zenon DEF Done, UpdaterState
<1>5. Relies(s)'
  BY <1>4 DEF Relies, NotUpdating
<1>6. CASE /\ goMap' = [o \in OUIs |-> updater[u].source[o] + IF o \in updater[u].new THEN 1 ELSE 0]
           /\ UNCHANGED ioFaults
  <2>1. goMap' \in [OUIs -> Nat]
    BY <1>3, <1>6
  <2>2. ASSUME IntelHolds, Relies(updater[u])
        PROVE  PatchedFrom(models.ouis)'
    <3>1. SUFFICES ASSUME NEW o \in OUIs
                   PROVE  goMap'[o] <= 1 /\ (goMap'[o] = 1 => o \in models.ouis)
      BY <1>2 DEF PatchedFrom
    <3>2. goMap'[o] = goMap[o] + IF o \in updater[u].new THEN 1 ELSE 0
      BY <1>3, <1>6, <2>2, SMTT(30)
    <3>3. goMap[o] <= 1 /\ (goMap[o] = 1 => o \in models.ouis)
      BY <1>3, <2>2 DEF IntelHolds, PatchedFrom
    <3>4. o \in updater[u].new => goMap[o] = 0 /\ o \in models.ouis
      BY <1>3, <2>2
    <3> QED
      BY <1>1, <3>2, <3>3, <3>4, SMTT(30)
  <2>3. ASSUME IntelHolds, Relies(updater[u])
        PROVE  /\ models'.whole \/ backup'.whole
               /\ models'.whole => PatchedFrom(models.ouis)'
               /\ \A o \in OUIs : goMap'[o] <= 1
    BY <1>2, <1>3, <2>2, <2>3, ZenonT(40) DEF PatchedFrom
  <2> QED
    BY <1>1, <1>2, <1>4, <1>5, <1>6, <2>1, <2>3, ActStep, Zenon
<1>7. CASE IOFault /\ UNCHANGED goMap
  <2>1. ioFaults' \in Nat
    BY <1>1, <1>7 DEF IOFault
  <2> QED
    BY <1>1, <1>2, <1>7, <2>1, EndSafe, Zenon DEF IntelInv, IntelHolds
<1> QED
  BY <1>6, <1>7, Zenon DEF WriteGo

\* RunIntelUpdate (updater.go): with one failed read or write at most, and updates that do
\* not overlap, drone_models.json or its backup is whole and no prefix is inserted into
\* fingerprint.go twice, for any prefixes, any number of updates and a crash at any step.
THEOREM UpdatesAreSafe == MaxIOFaults \in {0, 1} => (IntelSpec => []UpdateSafe)
<1> SUFFICES ASSUME MaxIOFaults \in {0, 1} PROVE IntelSpec => []UpdateSafe
  OBVIOUS
<1>1. IntelInit => IntelInv
  <2> SUFFICES ASSUME IntelInit PROVE IntelInv
    OBVIOUS
  <2>1. IntelTyped
    BY Zenon DEF IntelInit, IntelTyped, File, Torn, UpdaterState
  <2>2. \A u \in Updaters : updater[u].at = "idle"
    BY DEF IntelInit, NotUpdating
  <2>3. \A u \in Updaters : Relies(updater[u])
    BY <2>2, Zenon DEF Relies
  <2>4. AtMostOne
    BY <2>2 DEF AtMostOne, Busy
  <2>5. models.whole /\ PatchedFrom(models.ouis) /\ \A o \in OUIs : goMap[o] <= 1
    BY DEF IntelInit, PatchedFrom
  <2> QED
    BY <2>1, <2>3, <2>4, <2>5, Zenon DEF IntelInv, IntelHolds
<1>2. IntelInv /\ [IntelNext]_intelVars => IntelInv'
  <2>1. ASSUME IntelInv, NEW u \in Updaters, UpdaterCrash(u) PROVE IntelInv'
    <3>1. updater[u].at # "idle"
      BY <2>1, HeldTyped, Zenon DEF UpdaterCrash, IntelInv, IntelTyped
    <3> QED
      BY <2>1, <3>1, EndSafe DEF UpdaterCrash, IntelInv, IntelTyped, IntelHolds
  <2>2. ASSUME IntelInv, UNCHANGED intelVars PROVE IntelInv'
    <3>1. /\ models' = models /\ backup' = backup /\ goMap' = goMap /\ updater' = updater
          /\ overlapped' = overlapped /\ ioFaults' = ioFaults
      BY <2>2 DEF intelVars
    <3>2. IntelTyped'
      BY <2>2, <3>1 DEF IntelInv, IntelTyped
    <3>3. IntelHolds => IntelHolds'
      <4>1. ASSUME NEW u \in Updaters, Relies(updater[u]) PROVE Relies(updater[u])'
        BY <3>1, <4>1, Zenon DEF Relies, PatchedFrom
      <4>2. AtMostOne => AtMostOne'
        BY <3>1 DEF AtMostOne, Busy
      <4>3. PatchedFrom(models.ouis) => PatchedFrom(models.ouis)'
        BY <3>1 DEF PatchedFrom
      <4> QED
        BY <3>1, <4>1, <4>2, <4>3, Zenon DEF IntelHolds
    <3> QED
      BY <2>2, <3>1, <3>2, <3>3, Zenon DEF IntelInv
  <2> QED
    BY SMTT(30), <2>1, <2>2, ReadModelsSafe, FetchSafe, StartBackupSafe, FillBackupSafe, WriteModelsSafe,
       ValidateSafe, StartRestoreSafe, FillRestoreSafe, SyncSafe, ReadGoSafe, WriteGoSafe
       DEF IntelNext
<1>3. IntelInv => UpdateSafe
  BY DEF IntelInv, IntelHolds, UpdateSafe, ModelsRecoverable, PatchedOnce
<1> QED
  BY <1>1, <1>2, <1>3, PTL DEF IntelSpec

=============================================================================
