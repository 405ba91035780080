----------------------------- MODULE MCAccounts -----------------------------
(***************************************************************************)
(* Instances of Accounts for TLC.  One run explores four situations: wrong *)
(* passwords against a right one, a password that changes under sessions   *)
(* and logins, sessions that end in every way, and two administrators.     *)
(***************************************************************************)
EXTENDS Accounts

Account(name, role) == [Created(name, name, 0) EXCEPT !.role = role]
Session(u) == [user |-> u, ttl |-> SessionTTL, revoked |-> FALSE, stored |-> TRUE,
               pwd |-> "p0", late |-> FALSE]

\* The rows, sessions, and cookies when client number i is logged in as user i.
Start(rows, in, logins, requests, clock) ==
  [users    |-> [u \in UserIds |-> IF u <= Len(rows) THEN rows[u] ELSE NoRow],
   sessions |-> [s \in SessionIds |-> IF s \in in THEN Session(s) ELSE NoRow],
   audited  |-> in,
   jar      |-> [c \in Clients |-> IF c \in in THEN Tokens(c, c) ELSE NoJar],
   logins   |-> [c \in Clients |-> IF c \in DOMAIN logins THEN logins[c] ELSE {}],
   requests |-> [c \in Clients |-> IF c \in DOMAIN requests THEN requests[c] ELSE {}],
   clock    |-> clock, insist |-> in = {}]

As(name, pwd) == [name |-> name, pwd |-> pwd, remember |-> FALSE]
Ask(op, arg) == [op |-> op, arg |-> arg]
Admin == Account("adm", "admin")
Viewer == Account("viw", "viewer")

Guessing ==
  Start(<<Admin>>, {}, <<{As("adm", "p0"), As("adm", "bad")}, {As("adm", "bad")}>>, <<>>, TRUE)

Rotating ==
  Start(<<Admin, Viewer>>, {1, 2}, <<{}, {}, {As("viw", "p0")}>>,
        <<{Ask("reset", [user |-> 2, new |-> "p1"])},
          {Ask("change", [current |-> "p0", new |-> "p2"]), Ask("delete", 1)}>>, FALSE)

Ending ==
  Start(<<Admin, Viewer>>, {1, 2}, <<>>,
        <<{Ask("revoke", 2),
           Ask("update", [user |-> 2, email |-> "viw", role |-> "viewer", active |-> FALSE])},
          {Ask("use", 0), Ask("refresh", 0), Ask("logout", 0)}>>, TRUE)

Directory ==
  Start(<<Admin, Account("adm2", "admin")>>, {1, 2}, <<{}, {}, {As("viw", "p0")}>>,
        <<{Ask("create", [name |-> "viw", email |-> ""]), Ask("delete", 2), Ask("delete", 3)},
          {Ask("create", [name |-> "viw", email |-> "m"]), Ask("delete", 1)}>>, FALSE)

Situations ==
  [guessing |-> Guessing, rotating |-> Rotating, ending |-> Ending, directory |-> Directory]
=============================================================================
