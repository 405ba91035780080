------------------------------ MODULE Accounts ------------------------------
(***************************************************************************)
(* Accounts and sessions of the dashboard: internal/auth and the tables of *)
(* internal/storage/auth_schema.go.                                        *)
(*                                                                         *)
(* Every HTTP request is a goroutine that runs SQL statements one by one,  *)
(* without a transaction, against state it read earlier.  A client here    *)
(* has at most one request in flight; the step a request takes next is its *)
(* pc, and what it read stays in the request as a copy.                    *)
(*                                                                         *)
(* Time is kept as what is left of it: a lockout, a session, a token and a *)
(* login remembered by the rate limiter each hold a number of ticks.       *)
(* Password hashes are the passwords themselves: bcrypt only has to tell a *)
(* right password from a wrong one.                                        *)
(***************************************************************************)
EXTENDS Integers, Sequences, FiniteSets, SequencesExt

CONSTANTS
  Clients,            \* browsers, each with its own address and cookies
  UserIds,            \* users.id, 1..n, handed out in order by the database
  SessionIds,         \* sessions.id, positive numbers
  MaxFailedAttempts, LockoutDuration,
  AccessTTL, SessionTTL, RefreshTTL,
  LoginLimit, LoginWindow,
  MaxWrong,           \* bound: wrong passwords typed in a behaviour
  Worlds              \* by name, the situations a behaviour may start in

ASSUME AccountsAssumption ==
  /\ MaxFailedAttempts \in Nat \ {0, 1}
  /\ {LockoutDuration, AccessTTL, SessionTTL, RefreshTTL, LoginLimit,
      LoginWindow} \subseteq Nat \ {0}
  /\ IsFiniteSet(Clients)

VARIABLES
  users,     \* the table users: a row or NoRow for every id
  sessions,  \* the table sessions
  audited,   \* the users some row of audit_log refers to
  jar,       \* the cookies of every client
  req,       \* the request every client has in flight
  limiter,   \* the recent logins the rate limiter remembers, by client
  wrong,     \* how many wrong passwords were typed (bounds the behaviour)
  world      \* the situation this behaviour started in

vars == <<users, sessions, audited, jar, req, limiter, wrong, world>>

NoRow == [name |-> "none"]    \* not there yet
Deleted == [name |-> "gone"]  \* an id is not given out twice
NoJar == [sess |-> 0]
Idle  == [op |-> "idle"]

Rows == {u \in UserIds : users[u] \notin {NoRow, Deleted}}
GetUserByUsername(name) == {u \in Rows : users[u].name = name}
GetUserByID(u) == IF u \in Rows THEN {users[u]} ELSE {}
Open == {s \in SessionIds : sessions[s] # NoRow}

Init ==
  /\ world \in DOMAIN Worlds
  /\ users = Worlds[world].users
  /\ sessions = Worlds[world].sessions
  /\ audited = Worlds[world].audited
  /\ jar = Worlds[world].jar
  /\ req = [c \in Clients |-> Idle]
  /\ limiter = [c \in Clients |-> <<>>]
  /\ wrong = 0

(***************************************************************************)
(* Steps of a request.                                                     *)
(***************************************************************************)
At(c, pc) == req[c] # Idle /\ req[c].pc = pc
Goto(c, r) == req' = [req EXCEPT ![c] = r]
Done(c) == Goto(c, Idle)

\* The audit row names a user, so it is refused when that user is gone.
logAuditEvent(u) == audited' = IF u \in Rows THEN audited \cup {u} ELSE audited

\* Sessions that can admit nobody any more.
Dead == {s \in Open : \/ sessions[s].revoked
                      \/ sessions[s].ttl = 0
                      \/ ~users[sessions[s].user].active}

\* A row nothing refers to any more may as well not be there.
Unused(s) == /\ \A c \in Clients : jar[c] # NoJar => jar[c].sess # s
             /\ \A c \in Clients : req[c] # Idle => req[c].sess # s
             /\ s \notin Open \/ s \in Dead

(***************************************************************************)
(* Login.                                                                  *)
(***************************************************************************)
\* RateLimiter.Allow of the login handler: a list of recent times per address.
Allow(c) == Len(limiter[c]) < LoginLimit

\* HandleLogin up to the call of Login.
HandleLogin(c, name, pwd, remember) ==
  /\ req[c] = Idle /\ jar[c] = NoJar
  /\ Allow(c)
  /\ \A u \in Rows : users[u].name = name /\ users[u].pwd # pwd => wrong < MaxWrong
  /\ wrong' = IF \E u \in Rows : users[u].name = name /\ users[u].pwd # pwd
                THEN wrong + 1 ELSE wrong
  /\ limiter' = [limiter EXCEPT ![c] = Append(@, LoginWindow)]
  /\ Goto(c, [op |-> "login", pc |-> "read", name |-> name, pwd |-> pwd, sess |-> 0,
               ttl |-> IF remember THEN RefreshTTL ELSE SessionTTL])
  /\ UNCHANGED <<users, sessions, audited, jar, world>>

\* What Login does with its copy of the user once the account is not locked.
AfterLock(c, u, copy) ==
  LET r == req[c] IN
  IF ~copy.active
    THEN logAuditEvent(u) /\ Done(c)
    ELSE /\ Goto(c, [pc |-> IF r.pwd = copy.pwd THEN "reset" ELSE "count",
                     user |-> u, copy |-> copy] @@ r)
         /\ UNCHANGED audited

\* Mutant: a lockout that never ends.
StillLocked_Forever(copy) == copy.locked

StillLocked(copy) == copy.locked /\ copy.until > 0

LoginRead(c) ==
  /\ At(c, "read")
  /\ LET found == GetUserByUsername(req[c].name) IN
     IF found = {}
       THEN Done(c) /\ UNCHANGED audited
       ELSE LET u == CHOOSE u \in found : TRUE
                copy == users[u] IN
            IF StillLocked(copy)
              THEN logAuditEvent(u) /\ Done(c)
            ELSE IF copy.locked
              THEN /\ Goto(c, [pc |-> "unlock", user |-> u, copy |-> copy] @@ req[c])
                   /\ UNCHANGED audited
            ELSE AfterLock(c, u, copy)
  /\ UNCHANGED <<users, sessions, jar, limiter, wrong, world>>

\* An UPDATE of a row that is gone changes nothing.
UpdateUser(u, row) ==
  users' = IF u \in Rows THEN [users EXCEPT ![u] = row] ELSE users

incrementFailedAttempts(row) == [row EXCEPT !.failed = @ + 1]
resetFailedAttempts(row) == [row EXCEPT !.failed = 0]
lockAccount(row) == [row EXCEPT !.locked = TRUE, !.until = LockoutDuration]
unlockAccount(row) == [row EXCEPT !.locked = FALSE, !.until = 0, !.failed = 0]

\* The row's count starts again, the copy's does not.
LoginUnlock(c) ==
  /\ At(c, "unlock")
  /\ LET u == req[c].user IN
     /\ UpdateUser(u, unlockAccount(users[u]))
     /\ AfterLock(c, u, [req[c].copy EXCEPT !.locked = FALSE])
  /\ UNCHANGED <<sessions, jar, limiter, wrong, world>>

\* Mutant: locked one attempt late.
AtLimit_Above(failed) == failed > MaxFailedAttempts

AtLimit(failed) == failed >= MaxFailedAttempts

\* The attempt is counted in the row; the threshold is compared with the
\* copy.
LoginCount(c) ==
  /\ At(c, "count")
  /\ LET u == req[c].user
         failed == req[c].copy.failed + 1 IN
     /\ UpdateUser(u, incrementFailedAttempts(users[u]))
     /\ IF AtLimit(failed)
          THEN Goto(c, [req[c] EXCEPT !.pc = "lock"]) /\ UNCHANGED audited
          ELSE logAuditEvent(u) /\ Done(c)
  /\ UNCHANGED <<sessions, jar, limiter, wrong, world>>

LoginLock(c) ==
  /\ At(c, "lock")
  /\ LET u == req[c].user IN
     /\ UpdateUser(u, lockAccount(users[u]))
     /\ logAuditEvent(u)
  /\ Done(c)
  /\ UNCHANGED <<sessions, jar, limiter, wrong, world>>

LoginReset(c) ==
  /\ At(c, "reset")
  /\ UpdateUser(req[c].user, resetFailedAttempts(users[req[c].user]))
  /\ Goto(c, [req[c] EXCEPT !.pc = "insert"])
  /\ UNCHANGED <<sessions, audited, jar, limiter, wrong, world>>

\* createSession.  The row is refused when the user is gone.  The password that
\* opened the session is kept with it, for OldPasswordLocksOut only.
CreateSession(c) ==
  /\ At(c, "insert")
  /\ IF req[c].user \notin Rows
       THEN Done(c) /\ UNCHANGED sessions
       ELSE \E s \in SessionIds :
              /\ Unused(s) /\ \A t \in 1..s - 1 : ~Unused(t)
              /\ sessions' = [sessions EXCEPT ![s] =
                   [user |-> req[c].user, ttl |-> req[c].ttl, revoked |-> FALSE,
                    stored |-> FALSE, pwd |-> req[c].pwd,
                    late |-> req[c].pwd # users[req[c].user].pwd]]
              /\ Goto(c, [req[c] EXCEPT !.pc = "store", !.sess = s])
  /\ UNCHANGED <<users, audited, jar, limiter, wrong, world>>

updateSessionRefreshToken(s) ==
  sessions' = IF s \in Open THEN [sessions EXCEPT ![s].stored = TRUE] ELSE sessions

\* GenerateAccessToken and GenerateRefreshToken; ValidateToken of the JWT manager
\* looks at the age.
Tokens(u, s) == [user |-> u, sess |-> s, access |-> AccessTTL, refresh |-> RefreshTTL]
Fresh(ttl) == ttl > 0

setAuthCookies(c, u, s) == jar' = [jar EXCEPT ![c] = Tokens(u, s)]
clearAuthCookies(c) == jar' = [jar EXCEPT ![c] = NoJar]

LoginStore(c) ==
  /\ At(c, "store")
  /\ updateSessionRefreshToken(req[c].sess)
  /\ Goto(c, [req[c] EXCEPT !.pc = "welcome"])
  /\ UNCHANGED <<users, audited, jar, limiter, wrong, world>>

\* The audit row, then the cookies of the response.
LoginWelcome(c) ==
  /\ At(c, "welcome")
  /\ logAuditEvent(req[c].user)
  /\ setAuthCookies(c, req[c].user, req[c].sess)
  /\ Done(c)
  /\ UNCHANGED <<users, sessions, limiter, wrong, world>>

(***************************************************************************)
(* RequireAuth, ValidateToken and RefreshToken.                            *)
(***************************************************************************)
Started(c, op, arg) ==
  [op |-> op, arg |-> arg, user |-> jar[c].user, sess |-> jar[c].sess, dead |-> Dead]

\* A refresh begins; the age of the token is checked before any statement runs.
BeginRefresh(c, r) ==
  IF Fresh(jar[c].refresh)
    THEN Goto(c, [pc |-> "rsession", cookie |-> "used"] @@ r) /\ UNCHANGED jar
    ELSE Done(c) /\ clearAuthCookies(c)

HandleRefresh(c) ==
  /\ req[c] = Idle /\ jar[c] # NoJar
  /\ BeginRefresh(c, Started(c, "refresh", 0))
  /\ UNCHANGED <<users, sessions, audited, limiter, wrong, world>>

\* A browser sends the refresh cookie to /api/auth/refresh only, another client may
\* send it always.
RequireAuth(c, op, arg) ==
  LET r == Started(c, op, arg) IN
  /\ req[c] = Idle /\ jar[c] # NoJar
  /\ IF Fresh(jar[c].access)
       THEN /\ \E cookie \in {"none", "sent"} :
                 Goto(c, [pc |-> "session", cookie |-> cookie] @@ r)
            /\ UNCHANGED jar
       ELSE BeginRefresh(c, r)
  /\ UNCHANGED <<users, sessions, audited, limiter, wrong, world>>

\* What a failed ValidateToken leads to: a refresh when the client sent that
\* cookie and it was not used yet, otherwise 401.
Reject(c) ==
  CASE req[c].cookie = "sent" -> BeginRefresh(c, req[c])
    [] req[c].cookie = "used" -> Done(c) /\ clearAuthCookies(c)
    [] req[c].cookie = "none" -> Done(c) /\ UNCHANGED jar

\* The refresh token is scanned into a plain string, so a row whose token is
\* still NULL is an error like a missing one.
getSession(s) == s \in Open /\ sessions[s].stored

\* Mutant: the session is only looked up.
Valid_Found(s) == getSession(s)

Valid(s) == getSession(s) /\ ~sessions[s].revoked /\ sessions[s].ttl > 0

ValidateSession(c) ==
  /\ At(c, "session")
  /\ LET s == req[c].sess IN
     IF Valid(s)
       THEN Goto(c, [req[c] EXCEPT !.pc = "user"]) /\ UNCHANGED jar
       ELSE Reject(c)
  /\ UNCHANGED <<users, sessions, audited, limiter, wrong, world>>

ValidateUser(c) ==
  /\ At(c, "user")
  /\ LET u == req[c].user IN
     IF \E row \in GetUserByID(u) : row.active
       THEN Goto(c, [copy |-> users[u]] @@ [req[c] EXCEPT !.pc = "handle"]) /\ UNCHANGED jar
       ELSE Reject(c)
  /\ UNCHANGED <<users, sessions, audited, limiter, wrong, world>>

\* RefreshToken does not look at the expiry of the session, nor does it compare
\* the token with the stored one.
RefreshSession(c) ==
  /\ At(c, "rsession")
  /\ LET s == req[c].sess IN
     IF getSession(s) /\ ~sessions[s].revoked
       THEN Goto(c, [req[c] EXCEPT !.pc = "ruser"]) /\ UNCHANGED jar
       ELSE Done(c) /\ clearAuthCookies(c)
  /\ UNCHANGED <<users, sessions, audited, limiter, wrong, world>>

RefreshUser(c) ==
  /\ At(c, "ruser")
  /\ LET u == req[c].user IN
     IF \E row \in GetUserByID(u) : row.active
       THEN Goto(c, [req[c] EXCEPT !.pc = "rstore"]) /\ UNCHANGED jar
       ELSE Done(c) /\ clearAuthCookies(c)
  /\ UNCHANGED <<users, sessions, audited, limiter, wrong, world>>

\* The new tokens; RequireAuth validates the new access token once more.
RefreshStore(c) ==
  /\ At(c, "rstore")
  /\ updateSessionRefreshToken(req[c].sess)
  /\ logAuditEvent(req[c].user)
  /\ setAuthCookies(c, req[c].user, req[c].sess)
  /\ IF req[c].op = "refresh" THEN Done(c)
                              ELSE Goto(c, [req[c] EXCEPT !.pc = "session"])
  /\ UNCHANGED <<users, limiter, wrong, world>>

(***************************************************************************)
(* Handlers behind RequireAuth.                                            *)
(***************************************************************************)
Handling(c, op) == At(c, "handle") /\ req[c].op = op
AdminHandling(c, op) == Handling(c, op) /\ req[c].copy.role = "admin"

\* Any handler that only reads: HandleMe, HandleListSessions, the dashboard's data.
HandleUse(c) ==
  /\ Handling(c, "use")
  /\ Done(c)
  /\ UNCHANGED <<users, sessions, audited, jar, limiter, wrong, world>>

\* RequireRole("admin") on the copy of the user.
Denied(c) ==
  /\ At(c, "handle")
  /\ req[c].op \in {"reset", "create", "update", "delete"}
  /\ req[c].copy.role # "admin"
  /\ logAuditEvent(req[c].user)
  /\ Done(c)
  /\ UNCHANGED <<users, sessions, jar, limiter, wrong, world>>

\* The sessions in S are revoked.
revokeSession(S) ==
  sessions' = [s \in SessionIds |->
                 IF s \in S /\ s \in Open THEN [sessions[s] EXCEPT !.revoked = TRUE]
                                          ELSE sessions[s]]

Logout(u, s) == revokeSession({t \in {s} : getSession(t)}) /\ logAuditEvent(u)

HandleLogout(c) ==
  /\ Handling(c, "logout")
  /\ Logout(req[c].user, req[c].sess)
  /\ clearAuthCookies(c)
  /\ Done(c)
  /\ UNCHANGED <<users, limiter, wrong, world>>

\* One's own session, or any for an administrator.
HandleRevokeSession(c) ==
  /\ Handling(c, "revoke")
  /\ LET s == req[c].arg IN
     IF getSession(s) /\ (sessions[s].user = req[c].user \/ req[c].copy.role = "admin")
       THEN revokeSession({s}) /\ logAuditEvent(req[c].user)
       ELSE UNCHANGED <<sessions, audited>>
  /\ Done(c)
  /\ UNCHANGED <<users, jar, limiter, wrong, world>>

\* The current password is compared with the copy RequireAuth read.  The session
\* that changes the password is from then on one of the new password.
HandleChangePassword(c) ==
  /\ Handling(c, "change")
  /\ LET r == req[c] IN
     IF r.arg.current # r.copy.pwd
       THEN Done(c) /\ UNCHANGED <<users, sessions>>
       ELSE /\ UpdateUser(r.user, [users[r.user] EXCEPT !.pwd = r.arg.new])
            /\ sessions' = IF r.sess \in Open
                             THEN [sessions EXCEPT ![r.sess].pwd = r.arg.new] ELSE sessions
            /\ Goto(c, [r EXCEPT !.pc = "others"])
  /\ UNCHANGED <<audited, jar, limiter, wrong, world>>

\* revokeOtherSessions
ChangeRevokes(c) ==
  /\ At(c, "others")
  /\ revokeSession({s \in Open : sessions[s].user = req[c].user} \ {req[c].sess})
  /\ logAuditEvent(req[c].user)
  /\ Done(c)
  /\ UNCHANGED <<users, jar, limiter, wrong, world>>

HandleResetPassword(c) ==
  /\ AdminHandling(c, "reset")
  /\ LET u == req[c].arg.user IN
     UpdateUser(u, [users[u] EXCEPT !.pwd = req[c].arg.new])
  /\ Goto(c, [req[c] EXCEPT !.pc = "all"])
  /\ UNCHANGED <<sessions, audited, jar, limiter, wrong, world>>

\* Mutant: the sessions of the administrator instead of the user's.
ResetRevokes_Own(c) ==
  /\ At(c, "all")
  /\ revokeSession({s \in Open : sessions[s].user = req[c].user})
  /\ logAuditEvent(req[c].user)
  /\ Done(c)
  /\ UNCHANGED <<users, jar, limiter, wrong, world>>

\* revokeAllUserSessions
ResetRevokes(c) ==
  /\ At(c, "all")
  /\ revokeSession({s \in Open : sessions[s].user = req[c].arg.user})
  /\ logAuditEvent(req[c].user)
  /\ Done(c)
  /\ UNCHANGED <<users, jar, limiter, wrong, world>>

(***************************************************************************)
(* Administration of users.                                                *)
(***************************************************************************)
\* UNIQUE on username and email; an empty e-mail address is a value like another.
Clash(row, but) == \E u \in Rows \ but : users[u].name = row.name \/ users[u].email = row.email

Created(name, email, by) ==
  [name |-> name, email |-> email, pwd |-> "p0", role |-> "viewer", active |-> TRUE,
   locked |-> FALSE, until |-> 0, failed |-> 0, by |-> by]

\* The checks of createUser, the empty e-mail address not among them.
createUserRefused(a) ==
  \E u \in Rows : \/ users[u].name = a.name
                  \/ a.email # "" /\ users[u].email = a.email

HandleCreateUser(c) ==
  /\ AdminHandling(c, "create")
  /\ IF createUserRefused(req[c].arg)
       THEN Done(c)
       ELSE Goto(c, [req[c] EXCEPT !.pc = "create"])
  /\ UNCHANGED <<users, sessions, audited, jar, limiter, wrong, world>>

\* The INSERT of createUser, which the database may still refuse: a name taken
\* meanwhile, or an administrator deleted meanwhile.
CreateInserts(c) ==
  /\ At(c, "create")
  /\ LET row == Created(req[c].arg.name, req[c].arg.email, req[c].user) IN
     IF Clash(row, {}) \/ req[c].user \notin Rows
       THEN UNCHANGED <<users, audited>>
       ELSE /\ \E u \in UserIds :
                 /\ users[u] = NoRow /\ \A v \in 1..u - 1 : users[v] # NoRow
                 /\ users' = [users EXCEPT ![u] = row]
            /\ logAuditEvent(req[c].user)
  /\ Done(c)
  /\ UNCHANGED <<sessions, jar, limiter, wrong, world>>

\* The checks of updateUser.
updateUserRefused(a) ==
  \/ GetUserByID(a.user) = {}
  \/ a.email # "" /\ \E u \in Rows \ {a.user} : users[u].email = a.email

HandleUpdateUser(c) ==
  /\ AdminHandling(c, "update")
  /\ IF updateUserRefused(req[c].arg)
       THEN Done(c)
       ELSE Goto(c, [req[c] EXCEPT !.pc = "update"])
  /\ UNCHANGED <<users, sessions, audited, jar, limiter, wrong, world>>

\* The UPDATE of updateUser, built from the fields the request names.
UpdateWrites(c) ==
  /\ At(c, "update")
  /\ LET a == req[c].arg
         row == [users[a.user] EXCEPT !.email = a.email, !.role = a.role, !.active = a.active] IN
     IF a.user \in Rows /\ Clash(row, {a.user})
       THEN UNCHANGED <<users, audited>>
       ELSE UpdateUser(a.user, row) /\ logAuditEvent(req[c].user)
  /\ Done(c)
  /\ UNCHANGED <<sessions, jar, limiter, wrong, world>>

\* Mutant: audit rows let go of a deleted user.
Referenced_Creator(u) == \E v \in Rows : users[v].by = u

\* The rows that forbid the deletion of a user: audit_log.user_id and
\* users.created_by refer to it without ON DELETE.
Referenced(u) == u \in audited \/ \E v \in Rows : users[v].by = u

\* ON DELETE CASCADE of sessions.user_id.
Orphans(u) == {s \in Open : sessions[s].user = u}

\* Not oneself; the sessions go with the user.
deleteUser(u) ==
  /\ users' = [users EXCEPT ![u] = Deleted]
  /\ sessions' = [s \in SessionIds |-> IF s \in Orphans(u) THEN NoRow ELSE sessions[s]]

HandleDeleteUser(c) ==
  /\ AdminHandling(c, "delete")
  /\ LET u == req[c].arg IN
     IF u = req[c].user \/ u \notin Rows \/ Referenced(u)
       THEN UNCHANGED <<users, sessions, audited>>
       ELSE deleteUser(u) /\ logAuditEvent(req[c].user)
  /\ Done(c)
  /\ UNCHANGED <<jar, limiter, wrong, world>>

(***************************************************************************)
(* Time passes.                                                            *)
(***************************************************************************)
Less(n) == IF n > 0 THEN n - 1 ELSE 0

Tick ==
  /\ Worlds[world].clock
  /\ users' = [u \in UserIds |-> IF u \in Rows THEN [users[u] EXCEPT !.until = Less(@)]
                                               ELSE users[u]]
  /\ sessions' = [s \in SessionIds |-> IF s \in Open THEN [sessions[s] EXCEPT !.ttl = Less(@)]
                                                     ELSE sessions[s]]
  /\ jar' = [c \in Clients |-> IF jar[c] = NoJar THEN NoJar
                 ELSE [jar[c] EXCEPT !.access = Less(@), !.refresh = Less(@)]]
  /\ limiter' = [c \in Clients |-> SelectSeq([i \in DOMAIN limiter[c] |-> limiter[c][i] - 1],
                                             LAMBDA left : left > 0)]
  /\ UNCHANGED <<audited, req, wrong, world>>

Logs(c) == \E l \in Worlds[world].logins[c] : HandleLogin(c, l.name, l.pwd, l.remember)

LoginStep(c) ==
  \/ LoginRead(c) \/ LoginUnlock(c) \/ LoginCount(c) \/ LoginLock(c) \/ LoginReset(c)
  \/ CreateSession(c) \/ LoginStore(c) \/ LoginWelcome(c)

AuthStep(c) ==
  \/ ValidateSession(c) \/ ValidateUser(c)
  \/ RefreshSession(c) \/ RefreshUser(c) \/ RefreshStore(c)

HandlerStep(c) ==
  \/ HandleUse(c) \/ Denied(c) \/ HandleLogout(c) \/ HandleRevokeSession(c)
  \/ HandleChangePassword(c) \/ ChangeRevokes(c)
  \/ HandleResetPassword(c) \/ ResetRevokes(c)
  \/ HandleCreateUser(c) \/ CreateInserts(c)
  \/ HandleUpdateUser(c) \/ UpdateWrites(c) \/ HandleDeleteUser(c)

RequestStep(c) == LoginStep(c) \/ AuthStep(c) \/ HandlerStep(c)

Next ==
  \/ \E c \in Clients : \/ Logs(c)
                        \/ \E r \in Worlds[world].requests[c] :
                             IF r.op = "refresh" THEN HandleRefresh(c)
                                                 ELSE RequireAuth(c, r.op, r.arg)
                        \/ RequestStep(c)
  \/ Tick

Spec == Init /\ [][Next]_vars

\* The database answers, the clock runs, and a client turned away tries again.
\* Asserted where clients insist (RightPasswordGetsIn is about those situations).
Insists == Worlds[world].insist

FairSpec ==
  /\ Spec
  /\ \A c \in Clients : /\ WF_vars(Insists /\ LoginStep(c))
                        /\ SF_vars(Insists /\ Logs(c))
  /\ WF_vars(Insists /\ Tick)

(***************************************************************************)
(* Properties.                                                             *)
(***************************************************************************)

Locking(u) == \E c \in Clients : At(c, "lock") /\ req[c].user = u

\* Login (auth.go:120) counts a wrong password in the row and compares the
\* threshold with a copy read before: n logins at once can pass the threshold
\* without locking the account, but never by more than n - 2.
LockoutBound ==
  \A u \in Rows : users[u].locked \/ Locking(u)
     \/ users[u].failed <= MaxFailedAttempts - 2
                           + Cardinality({c \in Clients : Worlds[world].logins[c] # {}})

\* A request that arrives after its session was revoked, expired, or lost its
\* user or the user's activity reaches no handler, whichever of its tokens it
\* presents (middleware.go:46, auth.go:209 and 262).
ShutOut ==
  \A c \in Clients : At(c, "handle") => req[c].sess \notin req[c].dead

\* After a change or a reset of a password (handlers.go:181, 606) a session that
\* the old password opened is revoked, unless its login had read the user before
\* the change and stored the session after it.
Changing(u) ==
  \E c \in Clients : \/ At(c, "others") /\ req[c].user = u
                     \/ At(c, "all") /\ req[c].arg.user = u

OldPasswordLocksOut ==
  \A s \in Open : LET row == sessions[s] IN
    \/ row.revoked \/ row.late \/ Changing(row.user)
    \/ row.pwd = users[row.user].pwd

\* Deletion alone never removes the last administrator: HandleDeleteUser
\* (handlers.go:531) refuses oneself, and two administrators cannot delete each
\* other because both have logged in.
AdminRemains ==
  (\A c \in Clients : \A r \in Worlds[world].requests[c] : r.op # "update")
    => \E u \in Rows : users[u].role = "admin"

\* Somebody who keeps typing the right password gets in once the wrong ones stop,
\* the lockout (auth.go:96) and the rate limit notwithstanding.
RightPasswordGetsIn ==
  \A u \in UserIds :
    (Insists /\ u \in Rows /\ users[u].locked) ~> (\E s \in Open : sessions[s].user = u)
=============================================================================
