--------------------------- MODULE NodeLifecycle ---------------------------
(***************************************************************************)
(* The skylens-node process: the exclusive lock, the seeding of the        *)
(* authentication tables (statement by statement, without a transaction),  *)
(* the shutdown (main waits two seconds, then runs its deferred calls,     *)
(* while the HTTP server still waits for its requests), and crashes.       *)
(***************************************************************************)
EXTENDS Naturals

CONSTANTS
  Processes,   \* instances somebody may start
  Requests,    \* HTTP requests
  RoleNames,   \* the default roles, in the order they are inserted: 1..n
  MaxCrashes   \* bound on crashes and failed statements

\* A name for no process, and default roles.
ASSUME LifeAssumption == "nobody" \notin Processes /\ RoleNames # {}

VARIABLES
  stage,     \* process -> where main is
  lock,      \* the process that holds the flock, or Nobody
  open,      \* processes whose store is open
  roles,     \* rows of the roles table
  seeded,    \* the later statements of seedAuthData that are done
  admin,     \* the password of the admin row: "none", "default" or "changed"
  active,    \* requests a process is handling
  crashes

lifeVars == <<stage, lock, open, roles, seeded, admin, active, crashes>>
tables == <<roles, seeded, admin>>

Nobody == "nobody"
NodeFault == crashes < MaxCrashes /\ crashes' = crashes + 1
At(p, s) == stage[p] = s
Goto(p, s) == stage' = [stage EXCEPT ![p] = s]

-----------------------------------------------------------------------------
\* acquireLock: flock is exclusive and does not wait; a second instance exits.
acquireLock(p) ==
  /\ At(p, "off") /\ lock = Nobody
  /\ lock' = p
  /\ Goto(p, "store")
  /\ UNCHANGED <<open, tables, active, crashes>>

\* storage.New and EnsureSchema.
OpenStore(p) ==
  /\ At(p, "store")
  /\ open' = open \union {p}
  /\ Goto(p, "count")
  /\ UNCHANGED <<lock, tables, active, crashes>>

Seeded_Never == FALSE

Seeded == roles # {}

\* seedAuthData returns when there are roles, and otherwise inserts everything.
CountRoles(p) ==
  /\ At(p, "count")
  /\ Goto(p, IF Seeded THEN "up" ELSE "roles")
  /\ UNCHANGED <<lock, open, tables, active, crashes>>

InsertRole(p) ==
  /\ At(p, "roles")
  /\ \E r \in RoleNames :
       /\ \A q \in RoleNames : q < r => q \in roles
       /\ r \notin roles
       /\ roles' = roles \union {r}
  /\ UNCHANGED <<stage, lock, open, seeded, admin, active, crashes>>

RolesDone(p) ==
  /\ At(p, "roles") /\ roles = RoleNames
  /\ Goto(p, "permissions")
  /\ UNCHANGED <<lock, open, tables, active, crashes>>

\* The permissions, then what each role may do.
InsertPermissions(p) ==
  /\ \/ At(p, "permissions") /\ Goto(p, "grants")
     \/ At(p, "grants") /\ Goto(p, "admin")
  /\ seeded' = seeded \union {stage[p]}
  /\ UNCHANGED <<lock, open, roles, admin, active, crashes>>

\* The admin row is inserted, or its password set back to the default.
InsertAdmin(p) ==
  /\ At(p, "admin")
  /\ admin' = "default"
  /\ Goto(p, "up")
  /\ UNCHANGED <<lock, open, roles, seeded, active, crashes>>

\* A statement fails: main logs the error and goes on without verified tables.
SeedFails(p) ==
  /\ stage[p] \in {"count", "roles", "permissions", "grants", "admin"} /\ NodeFault
  /\ Goto(p, "up")
  /\ UNCHANGED <<lock, open, tables, active>>

-----------------------------------------------------------------------------
\* connectionTrackingMiddleware counts a request while its handler runs; after
\* httpServer.Shutdown none begins.
BeginRequest(p, r) ==
  /\ At(p, "up") /\ \A q \in Processes : r \notin active[q]
  /\ active' = [active EXCEPT ![p] = @ \union {r}]
  /\ UNCHANGED <<stage, lock, open, tables, crashes>>

\* A handler ends; an operator's may have changed the admin's password.
EndRequest(p, r) ==
  /\ r \in active[p] /\ stage[p] \in {"up", "stopping"}
  /\ active' = [active EXCEPT ![p] = @ \ {r}]
  /\ \/ admin' = admin
     \/ p \in open /\ admin = "default" /\ admin' = "changed"
  /\ UNCHANGED <<stage, lock, open, roles, seeded, crashes>>

\* SIGINT or SIGTERM: the context is cancelled and gracefulShutdown begins.
Signal(p) ==
  /\ At(p, "up")
  /\ Goto(p, "stopping")
  /\ UNCHANGED <<lock, open, tables, active, crashes>>

\* main's deferred calls run last to first after two seconds: the receiver, the
\* store, the lock.
Deferred_FirstToLast(p) ==
  \/ At(p, "stopping") /\ lock' = Nobody /\ Goto(p, "unlocked") /\ UNCHANGED open
  \/ At(p, "unlocked") /\ open' = open \ {p} /\ Goto(p, "off") /\ UNCHANGED lock

Deferred(p) ==
  \/ At(p, "stopping") /\ open' = open \ {p} /\ Goto(p, "closed") /\ UNCHANGED lock
  \/ At(p, "closed") /\ lock' = Nobody /\ Goto(p, "off") /\ UNCHANGED open

Stop(p) ==
  /\ Deferred(p)
  /\ active' = [active EXCEPT ![p] = {}]
  /\ UNCHANGED <<tables, crashes>>

\* The kernel releases the flock and closes the connections.
NodeCrash(p) ==
  /\ stage[p] # "off" /\ NodeFault
  /\ Goto(p, "off")
  /\ lock' = IF lock = p THEN Nobody ELSE lock
  /\ open' = open \ {p}
  /\ active' = [active EXCEPT ![p] = {}]
  /\ UNCHANGED tables

LifeInit ==
  /\ stage = [p \in Processes |-> "off"]
  /\ lock = Nobody
  /\ open = {} /\ roles = {} /\ seeded = {}
  /\ admin = "none"
  /\ active = [p \in Processes |-> {}]
  /\ crashes = 0

LifeNext ==
  \E p \in Processes :
    \/ acquireLock(p) \/ OpenStore(p) \/ CountRoles(p) \/ InsertRole(p) \/ RolesDone(p)
    \/ InsertPermissions(p) \/ InsertAdmin(p) \/ SeedFails(p)
    \/ \E r \in Requests : BeginRequest(p, r) \/ EndRequest(p, r)
    \/ Signal(p) \/ Stop(p) \/ NodeCrash(p)

LifeSpec == LifeInit /\ [][LifeNext]_lifeVars

-----------------------------------------------------------------------------
\* Two instances never have the database open at once, however starts, stops and
\* crashes interleave: the lock is given up after the store is closed.
OneInstance == \A p, q \in open : p = q

\* Seeding would set the admin's password back to the default: a password that was
\* changed never returns to it, whatever part of an earlier seeding is missing.
PasswordKept == [][admin = "changed" => admin' = "changed"]_lifeVars
=============================================================================
