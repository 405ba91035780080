-------------------------- MODULE RuntimeSettings --------------------------
(***************************************************************************)
(* Settings the dashboard changes while the node runs: Telegram, and the   *)
(* TAK client, publisher and certificates.  A handler reads the current    *)
(* values, puts the request's over them, saves every key by a statement of *)
(* its own and replaces the running values; a start puts what is saved     *)
(* over the configuration file.  Handlers interleave, statements fail and  *)
(* the process can end anywhere.                                           *)
(***************************************************************************)
EXTENDS Naturals, FiniteSets

CONSTANTS
  Handlers,    \* requests that may run at once
  MaxPosts,    \* bound on requests
  MaxFaults    \* bound on failing statements, failing renames and restarts

VARIABLES
  live,      \* key -> the value in use
  table,     \* key -> the row of the settings table, Absent without one
  yaml,      \* key -> the value of the configuration file
  handler,   \* handler -> its step and what it holds
  tmp, dest, \* the certificate's temporary file and the file itself
  torn,      \* history: keys that overlapping or failing handlers left undecided
  shared,    \* history: uploads overlapped, or a rename failed
  posts, faults

settingsVars == <<live, table, yaml, handler, tmp, dest, torn, shared, posts, faults>>
files == <<tmp, dest, shared>>

\* An empty text, a zero and "false" are 0.
Values == 0..2
Absent == 3
DefaultRate == 2

Client == {"address", "cert"}
Publisher == {"rate"}
Telegram == {"token", "notify"}
Keys == Client \union Publisher \union Telegram
Texts == {"address", "cert", "token"}
Free == [at |-> "idle"]

\* The keys a handler of a kind reads, saves and replaces, and those a request names.
Group(kind) == CASE kind = "telegram" -> Telegram
                 [] kind = "tak" -> Client \union Publisher
                 [] kind = "upload" -> Client
Named(kind) == CASE kind = "telegram" -> Telegram
                 [] kind = "tak" -> {"address", "rate"}
                 [] kind = "upload" -> {"cert"}
Saved(kind) == IF kind = "upload" THEN {"cert"} ELSE Group(kind)

Over(f, g) == [k \in DOMAIN f |-> IF k \in DOMAIN g THEN g[k] ELSE f[k]]
Part(f, S) == [k \in S |-> f[k]]

\* A rate below one is replaced (NewPublisher, UpdateConfig).
Normal(f) == [k \in DOMAIN f |-> IF k = "rate" /\ f[k] = 0 THEN DefaultRate ELSE f[k]]

\* An empty text in a request means the field was not given.
Given(k, v) == IF k \in Texts /\ v = 0 THEN <<>> ELSE [x \in {k} |-> v]

Active == {h \in Handlers : handler[h] # Free}
Set(h, s) == handler' = [handler EXCEPT ![h] = s]
Fault == faults < MaxFaults /\ faults' = faults + 1

-----------------------------------------------------------------------------
\* A request arrives: handleTelegramStatus, handleTAKStatus, handleTAKUploadCert.
Post(h, kind, k, v) ==
  LET others == {g \in Active : Group(handler[g].kind) \intersect Group(kind) # {}} IN
  /\ handler[h] = Free /\ posts < MaxPosts
  /\ k \in Named(kind) /\ (kind = "upload" => v # 0) /\ (k = "notify" => v < 2)
  /\ posts' = posts + 1
  /\ Set(h, [at |-> IF kind = "upload" THEN "write" ELSE "read", kind |-> kind,
             given |-> Given(k, v), copy |-> <<>>, left |-> Saved(kind)])
  /\ torn' = IF others = {} THEN torn
             ELSE torn \union Group(kind) \union UNION {Group(handler[g].kind) : g \in others}
  /\ shared' = (shared \/ (kind = "upload" /\ \E g \in Active : handler[g].kind = "upload"))
  /\ UNCHANGED <<live, table, yaml, tmp, dest, faults>>

\* The publisher's values are read before the client's, each under its own lock.
Read(h) ==
  LET s == handler[h]
      chunk == IF s.kind = "tak" /\ s.copy = <<>> THEN Publisher ELSE Group(s.kind) \ Publisher
      copy == [k \in chunk \union DOMAIN s.copy |-> IF k \in chunk THEN live[k] ELSE s.copy[k]] IN
  /\ s.at = "read"
  /\ Set(h, IF DOMAIN copy = Group(s.kind)
            THEN [s EXCEPT !.copy = Over(copy, s.given),
                           !.at = IF s.kind = "upload" THEN "update" ELSE "save"]
            ELSE [s EXCEPT !.copy = copy])
  /\ UNCHANGED <<live, table, yaml, files, torn, posts, faults>>

\* Key by key in the order of a map; an error is logged.
SetSetting(h, k) ==
  /\ handler[h].at = "save" /\ k \in handler[h].left
  /\ Set(h, [handler[h] EXCEPT !.left = @ \ {k}])
  /\ \/ table' = [table EXCEPT ![k] = handler[h].copy[k]] /\ UNCHANGED <<torn, faults>>
     \/ Fault /\ torn' = torn \union {k} /\ UNCHANGED table
  /\ UNCHANGED <<live, yaml, files, posts>>

\* What follows the statements of a handler, and what follows its update.
After(s) ==
  CASE s.at = "save" -> IF s.kind = "upload" THEN Free ELSE [s EXCEPT !.at = "update"]
    [] s.at = "update" -> IF s.kind = "upload" THEN [s EXCEPT !.at = "save"] ELSE Free

AllSaved(h) ==
  /\ handler[h].at = "save" /\ handler[h].left = {}
  /\ Set(h, After(handler[h]))
  /\ UNCHANGED <<live, table, yaml, files, torn, posts, faults>>

\* UpdateConfig: first the publisher, then the client, each replaced as a whole.
Update(h) ==
  LET s == handler[h]
      chunk == IF "rate" \in DOMAIN s.copy THEN Publisher ELSE DOMAIN s.copy IN
  /\ s.at = "update"
  /\ live' = Over(live, Normal(Part(s.copy, chunk)))
  /\ Set(h, IF chunk = Publisher THEN [s EXCEPT !.copy = Part(@, DOMAIN @ \ chunk)]
            ELSE After(s))
  /\ UNCHANGED <<table, yaml, files, torn, posts, faults>>

-----------------------------------------------------------------------------
(* The certificate file: os.WriteFile truncates and then writes.           *)

Target_Dest(s) == dest' = s /\ UNCHANGED tmp

\* Which file an upload writes: the temporary one.
Target(s) == tmp' = s /\ UNCHANGED dest

Alone(h) == \A g \in Active \ {h} : handler[g].kind # "upload"

WriteBegins(h) ==
  /\ handler[h].at = "write"
  /\ Target("partial")
  /\ Set(h, [handler[h] EXCEPT !.at = "written"])
  /\ UNCHANGED <<live, table, yaml, torn, shared, posts, faults>>

\* With two writers of one file, what is in it is anybody's guess.
WriteEnds(h) ==
  /\ handler[h].at = "written"
  /\ \E s \in {"partial", "whole"} : (Alone(h) => s = "whole") /\ Target(s)
  /\ Set(h, [handler[h] EXCEPT !.at = "rename"])
  /\ UNCHANGED <<live, table, yaml, torn, shared, posts, faults>>

Rename(h) ==
  /\ handler[h].at = "rename" /\ tmp # "none"
  /\ dest' = tmp /\ tmp' = "none"
  /\ Set(h, [handler[h] EXCEPT !.at = "read"])
  /\ UNCHANGED <<live, table, yaml, torn, shared, posts, faults>>

\* The rename fails and the file is written in place.
RenameFails(h) ==
  /\ handler[h].at = "rename"
  /\ \/ tmp = "none" /\ UNCHANGED faults
     \/ Fault
  /\ tmp' = "none" /\ dest' = "partial" /\ shared' = TRUE
  /\ Set(h, [handler[h] EXCEPT !.at = "direct"])
  /\ UNCHANGED <<live, table, yaml, torn, posts>>

DirectEnds(h) ==
  /\ handler[h].at = "direct"
  /\ dest' \in {"partial", "whole"} /\ (Alone(h) => dest' = "whole")
  /\ Set(h, [handler[h] EXCEPT !.at = "read"])
  /\ UNCHANGED <<live, table, yaml, tmp, torn, shared, posts, faults>>

-----------------------------------------------------------------------------
Restored_Raw ==
  [k \in Keys |-> IF table[k] = Absent \/ (k \in Texts /\ table[k] = 0) THEN yaml[k] ELSE table[k]]

\* main: rows override the file, an empty text does not.
Restored ==
  Normal([k \in Keys |->
    IF table[k] = Absent \/ (k \in Texts /\ table[k] = 0) THEN yaml[k] ELSE table[k]])

\* GetSettings, once for each prefix; when it fails the file alone counts.
Groups == {Telegram, Client \union Publisher}

\* The process ends and starts again.
Restart ==
  /\ Fault
  /\ \E failed \in {UNION S : S \in SUBSET Groups} :
       /\ live' = Over(Restored, Normal(Part(yaml, failed)))
       /\ torn' = failed
  /\ handler' = [h \in Handlers |-> Free]
  /\ UNCHANGED <<table, yaml, files, posts>>

SettingsInit ==
  /\ table = [k \in Keys |-> Absent]
  /\ yaml \in {[k \in Keys |-> 0], [k \in Keys |-> 1]}
  /\ live = Restored
  /\ handler = [h \in Handlers |-> Free]
  /\ tmp = "none" /\ dest = "none"
  /\ torn = {} /\ shared = FALSE
  /\ posts = 0 /\ faults = 0

SettingsNext ==
  \/ \E h \in Handlers :
       \/ \E kind \in {"telegram", "tak", "upload"}, k \in Keys, v \in Values : Post(h, kind, k, v)
       \/ Read(h) \/ AllSaved(h) \/ Update(h)
       \/ \E k \in Keys : SetSetting(h, k)
       \/ WriteBegins(h) \/ WriteEnds(h) \/ Rename(h) \/ RenameFails(h) \/ DirectEnds(h)
  \/ Restart

SettingsSpec == SettingsInit /\ [][SettingsNext]_settingsVars

-----------------------------------------------------------------------------
\* When no handler runs, a restart would bring back the values in use, although a
\* handler saves first and normalises later, an upload the other way round and a
\* start skips empty rows: only keys that handlers changed at the same time, or
\* whose statement or query failed, may differ.
RestartKeeps ==
  Active = {} => \A k \in Keys \ torn : Restored[k] = live[k]

\* "Atomic write": whenever the process ends, the certificate file is whole, unless
\* two uploads of it overlapped or a rename failed.
CertWhole == dest = "partial" => shared

\* A restart brings back the values in use, and the certificate file is whole.
SettingsKept == RestartKeeps /\ CertWhole
=============================================================================
