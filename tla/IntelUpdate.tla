---------------------------- MODULE IntelUpdate ----------------------------
(***************************************************************************)
(* RunIntelUpdate: new manufacturer prefixes (OUIs) are fetched and        *)
(* written to drone_models.json, its backup, the TAP's copy and the map in *)
(* fingerprint.go.  The API handler and the command line tool call it, and *)
(* nothing keeps two calls apart.  A process may die at any step, and one  *)
(* read or write may fail.                                                 *)
(***************************************************************************)
EXTENDS Naturals, FiniteSets

CONSTANTS
  Updaters,
  OUIs,          \* a manufacturer's prefixes in the registry
  Blocked,       \* those with a _removed_ entry, or locally administered
  MaxIOFaults,   \* bound on failed reads and writes
  MaxRuns        \* bound on updates begun

VARIABLES
  models,      \* drone_models.json: its prefixes, and whether it is whole
  backup,      \* drone_models.json.bak
  tapModels,   \* the TAP's copy
  goMap,       \* fingerprint.go: prefix -> how many entries it has
  updater,
  overlapped,  \* two updates ran at once, for the properties
  ioFaults,
  runs

intelVars == <<models, backup, tapModels, goMap, updater, overlapped, ioFaults, runs>>

NotUpdating == [at |-> "idle"]
Torn == [ouis |-> {}, whole |-> FALSE]
Done(u) == updater' = [updater EXCEPT ![u] = NotUpdating]
GoTo(u, step) == updater' = [updater EXCEPT ![u].at = step]
IOFault == ioFaults < MaxIOFaults /\ ioFaults' = ioFaults + 1

-----------------------------------------------------------------------------
\* A file that cannot be read or parsed ends the update.
ReadModels(u) ==
  /\ updater[u] = NotUpdating /\ runs < MaxRuns
  /\ runs' = runs + 1
  /\ overlapped' = (overlapped \/ \E v \in Updaters : updater[v] # NotUpdating)
  /\ updater' = IF models.whole
                THEN [updater EXCEPT ![u] = [at |-> "fetch", read |-> models.ouis]]
                ELSE updater
  /\ UNCHANGED <<models, backup, tapModels, goMap, ioFaults>>

\* What is new, of what was fetched.
NewOUIs(got, read) == (got \ read) \ Blocked

\* The IEEE list is refused unless complete; Wireshark's may be cut short, but is not
\* empty.  Nothing new, or no source, ends the update.
Fetch(u) ==
  /\ updater[u].at = "fetch"
  /\ \/ \E got \in SUBSET OUIs \ {{}} :
          LET new == NewOUIs(got, updater[u].read) IN
          IF new = {} THEN Done(u)
          ELSE updater' = [updater EXCEPT ![u] =
                             [at |-> "backup", read |-> updater[u].read, new |-> new]]
     \/ Done(u)
  /\ UNCHANGED <<models, backup, tapModels, goMap, overlapped, ioFaults, runs>>

\* copyFile: the source is read, the target truncated, then filled.  A failure before
\* the target was opened, or after, is only logged.
StartBackup(u) ==
  /\ updater[u].at = "backup"
  /\ \/ /\ updater' = [updater EXCEPT ![u] = [at |-> "fill", read |-> updater[u].read,
                                              new |-> updater[u].new, copy |-> models]]
        /\ backup' = Torn /\ UNCHANGED ioFaults
     \/ IOFault /\ GoTo(u, "write") /\ UNCHANGED backup
  /\ UNCHANGED <<models, tapModels, goMap, overlapped, runs>>

FillBackup(u) ==
  /\ updater[u].at = "fill"
  /\ \/ backup' = updater[u].copy /\ UNCHANGED ioFaults
     \/ IOFault /\ UNCHANGED backup
  /\ GoTo(u, "write")
  /\ UNCHANGED <<models, tapModels, goMap, overlapped, runs>>

Written_InPlace(u) == {Torn, [ouis |-> updater[u].read \union updater[u].new, whole |-> TRUE]}

\* writeJSONAtomic: a temporary file renamed into place.
ModelsWritten(u) == {[ouis |-> updater[u].read \union updater[u].new, whole |-> TRUE]}

WriteModels(u) ==
  /\ updater[u].at = "write"
  /\ \/ models' \in ModelsWritten(u) /\ GoTo(u, "validate") /\ UNCHANGED ioFaults
     \/ IOFault /\ Done(u) /\ UNCHANGED models
  /\ UNCHANGED <<backup, tapModels, goMap, overlapped, runs>>

\* validateJSONFile reads the file again.
Validate(u) ==
  /\ updater[u].at = "validate"
  /\ \/ models.whole /\ GoTo(u, "sync") /\ UNCHANGED ioFaults
     \/ ~models.whole /\ GoTo(u, "restore") /\ UNCHANGED ioFaults
     \/ IOFault /\ GoTo(u, "restore")
  /\ UNCHANGED <<models, backup, tapModels, goMap, overlapped, runs>>

\* The backup is copied back over the file, and the update fails.
StartRestore(u) ==
  /\ updater[u].at = "restore"
  /\ \/ /\ updater' = [updater EXCEPT ![u] = [at |-> "refill", copy |-> backup]]
        /\ models' = Torn /\ UNCHANGED ioFaults
     \/ IOFault /\ Done(u) /\ UNCHANGED models
  /\ UNCHANGED <<backup, tapModels, goMap, overlapped, runs>>

FillRestore(u) ==
  /\ updater[u].at = "refill"
  /\ \/ models' = updater[u].copy /\ UNCHANGED ioFaults
     \/ IOFault /\ UNCHANGED models
  /\ Done(u)
  /\ UNCHANGED <<backup, tapModels, goMap, overlapped, runs>>

\* The TAP's copy, where there is one, is written in place too.
StartSync(u) ==
  /\ updater[u].at = "sync"
  /\ \/ /\ updater' = [updater EXCEPT ![u] = [at |-> "sync fill", new |-> updater[u].new,
                                              copy |-> models]]
        /\ tapModels' = Torn /\ UNCHANGED ioFaults
     \/ GoTo(u, "patch") /\ UNCHANGED <<tapModels, ioFaults>>
     \/ IOFault /\ GoTo(u, "patch") /\ UNCHANGED tapModels
  /\ UNCHANGED <<models, backup, goMap, overlapped, runs>>

FillSync(u) ==
  /\ updater[u].at = "sync fill"
  /\ \/ tapModels' = updater[u].copy /\ UNCHANGED ioFaults
     \/ IOFault /\ UNCHANGED tapModels
  /\ GoTo(u, "patch")
  /\ UNCHANGED <<models, backup, goMap, overlapped, runs>>

\* patchFingerprintGo: the source is read, the entries are inserted, and the result
\* renamed into place; a failure leaves it unpatched.
ReadGo(u) ==
  /\ updater[u].at = "patch"
  /\ \/ /\ updater' = [updater EXCEPT ![u] = [at |-> "insert", new |-> updater[u].new,
                                              source |-> goMap]]
        /\ UNCHANGED ioFaults
     \/ IOFault /\ Done(u)
  /\ UNCHANGED <<models, backup, tapModels, goMap, overlapped, runs>>

WriteGo(u) ==
  /\ updater[u].at = "insert"
  /\ \/ /\ goMap' = [o \in OUIs |-> updater[u].source[o] + IF o \in updater[u].new THEN 1 ELSE 0]
        /\ UNCHANGED ioFaults
     \/ IOFault /\ UNCHANGED goMap
  /\ Done(u)
  /\ UNCHANGED <<models, backup, tapModels, overlapped, runs>>

UpdaterCrash(u) ==
  /\ updater[u] # NotUpdating
  /\ Done(u)
  /\ UNCHANGED <<models, backup, tapModels, goMap, overlapped, ioFaults, runs>>

IntelInit ==
  /\ models = [ouis |-> {}, whole |-> TRUE]
  /\ backup = Torn /\ tapModels = [ouis |-> {}, whole |-> TRUE]
  /\ goMap = [o \in OUIs |-> 0]
  /\ updater = [u \in Updaters |-> NotUpdating] /\ overlapped = FALSE
  /\ ioFaults = 0 /\ runs = 0

IntelNext == \E u \in Updaters :
  \/ ReadModels(u) \/ Fetch(u) \/ StartBackup(u) \/ FillBackup(u) \/ WriteModels(u)
  \/ Validate(u) \/ StartRestore(u) \/ FillRestore(u) \/ StartSync(u) \/ FillSync(u)
  \/ ReadGo(u) \/ WriteGo(u) \/ UpdaterCrash(u)

IntelSpec == IntelInit /\ [][IntelNext]_intelVars

-----------------------------------------------------------------------------
\* RunIntelUpdate (updater.go): through crashes at any step and one failed read or
\* write, drone_models.json or its backup is whole, as long as updates do not overlap.
ModelsRecoverable == ~overlapped => models.whole \/ backup.whole

\* patchFingerprintGo (updater.go): no prefix is inserted into fingerprint.go twice,
\* which would no longer compile, as long as updates do not overlap: what it inserts
\* was written to drone_models.json before.
PatchedOnce == ~overlapped => \A o \in OUIs : goMap[o] <= 1

\* The models or their backup are whole, and no prefix is patched twice.
UpdateSafe == ModelsRecoverable /\ PatchedOnce
=============================================================================
