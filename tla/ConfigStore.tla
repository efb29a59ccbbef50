----------------------------- MODULE ConfigStore -----------------------------
(***************************************************************************)
(* internal/store/store.go as internal/app/app.go runs it: the             *)
(* configuration in memory and in SQLite, the locks around them, and the   *)
(* life of the process from Load to Close, with crashes between any two    *)
(* steps.  Writers are concurrent calls of Update; loggers are concurrent  *)
(* calls that only need the database (AddRequestLog, ClearRequestLogs,     *)
(* RequestLogsWithSummary).  A transaction is one step: it commits or it   *)
(* leaves the tables alone.  Get and HasAccessKey read config under        *)
(* Store.mutex in one step, which is what reading the variable is here.    *)
(* Store.mutex and databaseMutex are no locks of the model: each is held   *)
(* for a few statements, which are one step, and no lock is taken under it.*)
(***************************************************************************)
EXTENDS ConfigData, FiniteSets

CONSTANTS
  Writers, Loggers,
  LegacyConfig,     \* what config.json of an older version holds
  EnvToken,         \* OMNI_ADMIN_TOKEN, or None
  Nobody,
  MaxUpdates, MaxLogs, MaxCrashes  \* bounds of the model

ASSUME StoreAssumption ==
  /\ Nobody \notin Writers
  /\ Writers \cap Loggers = {}
  /\ LegacyConfig \in Configs
  /\ Storable(ProxyTokenMigrated(LegacyConfig))
  /\ \A k, l \in LegacyConfig.keys : k.secret = l.secret => k = l
  /\ EnvToken \in Tokens \cup {None}
  /\ MaxUpdates \in Nat /\ MaxLogs \in Nat /\ MaxCrashes \in Nat

VARIABLES
  disk,         \* the configuration in the tables
  stored,       \* hasConfiguration: a settings row exists
  file,         \* config.json: "none", "present" or "migrated"
  life,         \* where Run is
  config,       \* Store.config
  open,         \* Store.database # nil, and not closed
  closed,       \* Store.closed
  configWrite,  \* holder of the mutex Store.configWrite
  readers,      \* holders of the read side of Store.databaseOps
  pc, request, draft, answer,  \* per writer: Update
  logging,      \* per logger: where its operation is
  updates, logs, crashes       \* counters that bound the model

durable  == <<disk, stored, file>>
handle   == <<open, closed>>
locks    == <<configWrite, readers>>
writing  == <<pc, request, draft, answer>>
counters == <<updates, logs, crashes>>
vars == <<durable, life, config, handle, locks, writing, logging, counters>>

\* Load has returned: other goroutines may run.
Up == life \in {"serving", "draining", "closing", "closed"}

Init ==
  /\ disk = EmptyConfig /\ stored = FALSE /\ file \in {"none", "present"}
  /\ life = "down" /\ config = EmptyConfig
  /\ open = FALSE /\ closed = FALSE
  /\ configWrite = Nobody /\ readers = {}
  /\ pc = [w \in Writers |-> "idle"]
  /\ request = [w \in Writers |-> CHOOSE op \in Ops : TRUE]
  /\ draft = [w \in Writers |-> EmptyConfig]
  /\ answer = [w \in Writers |-> "ok"]
  /\ logging = [g \in Loggers |-> "idle"]
  /\ updates = 0 /\ logs = 0 /\ crashes = 0

-----------------------------------------------------------------------------
\* The start of the process.  Load holds the write side of databaseOps, and
\* nothing else of the process runs yet, so it holds it unopposed.

\* New, Load up to hasConfiguration.
Open ==
  /\ life = "down"
  /\ life' = IF stored \/ file # "present" THEN "reading" ELSE "importing"
  /\ open' = TRUE
  /\ UNCHANGED <<durable, config, closed, locks, writing, logging, counters>>

\* migrateJSON: the tables, then the file's name.
Import ==
  /\ life = "importing"
  /\ disk' = LegacyConfig /\ stored' = TRUE
  /\ life' = "renaming"
  /\ UNCHANGED <<file, config, handle, locks, writing, logging, counters>>

Rename ==
  /\ life = "renaming"
  /\ file' = "migrated"
  /\ life' = "reading"
  /\ UNCHANGED <<disk, stored, config, handle, locks, writing, logging, counters>>

\* loadConfig, the proxy token made a key and written back, config published.
Read ==
  /\ life = "reading"
  /\ config' = ProxyTokenMigrated(disk)
  /\ disk' = ProxyTokenMigrated(disk)
  /\ life' = "loaded"
  /\ UNCHANGED <<stored, file, handle, locks, writing, logging, counters>>

\* Mutant: the environment's token replaces the one that is stored.
InitializeAdminTokenAlways ==
  /\ life = "loaded"
  /\ IF EnvToken # None
       THEN /\ config' = [config EXCEPT !.admin = EnvToken]
            /\ disk' = config'
            /\ stored' = TRUE
       ELSE UNCHANGED <<config, disk, stored>>
  /\ life' = "serving"
  /\ UNCHANGED <<file, handle, locks, writing, logging, counters>>

\* initializeAdminToken: an Update with nobody to compete with.
InitializeAdminToken ==
  /\ life = "loaded"
  /\ IF EnvToken # None /\ config.admin = None
       THEN /\ config' = [config EXCEPT !.admin = EnvToken]
            /\ disk' = config'
            /\ stored' = TRUE
       ELSE UNCHANGED <<config, disk, stored>>
  /\ life' = "serving"
  /\ UNCHANGED <<file, handle, locks, writing, logging, counters>>

-----------------------------------------------------------------------------
\* Update, called by AddProvider, UpdateProvider, ... for one request.

\* Go blocks new readers of an RWMutex while a writer waits for it.
MayReadLock == life # "closing"

\* An admin request reaches the handler while the server accepts them.
Ask(w, op) ==
  /\ life = "serving" /\ pc[w] = "idle" /\ updates < MaxUpdates
  /\ pc' = [pc EXCEPT ![w] = "asked"]
  /\ request' = [request EXCEPT ![w] = op]
  /\ updates' = updates + 1
  /\ UNCHANGED <<durable, life, config, handle, locks, draft, answer, logging,
                 logs, crashes>>

\* Mutant: configWrite excludes nobody.
LockConfigShared(w) ==
  /\ Up /\ pc[w] = "asked"
  /\ configWrite' = w
  /\ pc' = [pc EXCEPT ![w] = "locked"]
  /\ UNCHANGED <<durable, life, config, handle, readers, request, draft, answer,
                 logging, counters>>

LockConfig(w) ==
  /\ Up /\ pc[w] = "asked"
  /\ configWrite = Nobody
  /\ configWrite' = w
  /\ pc' = [pc EXCEPT ![w] = "locked"]
  /\ UNCHANGED <<durable, life, config, handle, readers, request, draft, answer,
                 logging, counters>>

LockDatabase(w) ==
  /\ Up /\ pc[w] = "locked"
  /\ MayReadLock
  /\ readers' = readers \cup {w}
  /\ pc' = [pc EXCEPT ![w] = "mutate"]
  /\ UNCHANGED <<durable, life, config, handle, configWrite, request, draft, answer,
                 logging, counters>>

\* Mutant: a refused update returns with its locks.
MutateReturnsLocked(w) ==
  /\ Up /\ pc[w] = "mutate"
  /\ IF Refused(request[w], config)
       THEN /\ pc' = [pc EXCEPT ![w] = "idle"]
            /\ UNCHANGED draft
       ELSE /\ draft' = [draft EXCEPT ![w] = Mutated(request[w], config)]
            /\ pc' = [pc EXCEPT ![w] = "ensure"]
  /\ UNCHANGED <<durable, life, config, handle, locks, request, answer, logging,
                 counters>>

\* The mutation, on a copy.
Mutate(w) ==
  /\ Up /\ pc[w] = "mutate"
  /\ IF Refused(request[w], config)
       THEN /\ answer' = [answer EXCEPT ![w] = "refused"]
            /\ pc' = [pc EXCEPT ![w] = "release"]
            /\ UNCHANGED draft
       ELSE /\ draft' = [draft EXCEPT ![w] = Mutated(request[w], config)]
            /\ pc' = [pc EXCEPT ![w] = "ensure"]
            /\ UNCHANGED answer
  /\ UNCHANGED <<durable, life, config, handle, locks, request, logging, counters>>

\* ensureDatabase: ErrClosed, or a handle.
Ensure(w) ==
  /\ Up /\ pc[w] = "ensure"
  /\ IF closed
       THEN /\ answer' = [answer EXCEPT ![w] = "failed"]
            /\ pc' = [pc EXCEPT ![w] = "release"]
            /\ UNCHANGED open
       ELSE /\ open' = TRUE
            /\ pc' = [pc EXCEPT ![w] = "commit"]
            /\ UNCHANGED answer
  /\ UNCHANGED <<durable, life, config, closed, locks, request, draft, logging,
                 counters>>

\* replaceConfig.  It fails on what the tables do not accept, and may fail on
\* anything (a busy database, a full disk, the key file).
Commit(w) ==
  /\ Up /\ pc[w] = "commit"
  /\ Storable(draft[w])
  /\ disk' = draft[w] /\ stored' = TRUE
  /\ pc' = [pc EXCEPT ![w] = "publish"]
  /\ UNCHANGED <<file, life, config, handle, locks, request, draft, answer, logging,
                 counters>>

\* Mutant: the configuration is published whether or not it was stored.
RollBackPublishes(w) ==
  /\ Up /\ pc[w] = "commit"
  /\ answer' = [answer EXCEPT ![w] = "failed"]
  /\ config' = draft[w]
  /\ pc' = [pc EXCEPT ![w] = "release"]
  /\ UNCHANGED <<durable, life, handle, locks, request, draft, logging, counters>>

RollBack(w) ==
  /\ Up /\ pc[w] = "commit"
  /\ answer' = [answer EXCEPT ![w] = "failed"]
  /\ pc' = [pc EXCEPT ![w] = "release"]
  /\ UNCHANGED <<durable, life, config, handle, locks, request, draft, logging,
                 counters>>

Publish(w) ==
  /\ Up /\ pc[w] = "publish"
  /\ config' = draft[w]
  /\ answer' = [answer EXCEPT ![w] = "ok"]
  /\ pc' = [pc EXCEPT ![w] = "release"]
  /\ UNCHANGED <<durable, life, handle, locks, request, draft, logging, counters>>

\* The two deferred unlocks, and the answer; the call's variables are gone.
Release(w) ==
  /\ Up /\ pc[w] = "release"
  /\ readers' = readers \ {w}
  /\ configWrite' = Nobody
  /\ pc' = [pc EXCEPT ![w] = "idle"]
  /\ draft' = [draft EXCEPT ![w] = EmptyConfig]
  /\ answer' = [answer EXCEPT ![w] = "ok"]
  /\ UNCHANGED <<durable, life, config, handle, request, logging, counters>>

-----------------------------------------------------------------------------
\* AddRequestLog, ClearRequestLogs, RequestLogsWithSummary.

LockLog(g) ==
  /\ life \in {"serving", "draining", "closed"}
  /\ logging[g] = "idle" /\ logs < MaxLogs
  /\ MayReadLock
  /\ readers' = readers \cup {g}
  /\ logging' = [logging EXCEPT ![g] = "ensure"]
  /\ logs' = logs + 1
  /\ UNCHANGED <<durable, life, config, handle, configWrite, writing, updates,
                 crashes>>

EnsureLog(g) ==
  /\ Up /\ logging[g] = "ensure"
  /\ IF closed
       THEN /\ logging' = [logging EXCEPT ![g] = "release"]
            /\ UNCHANGED open
       ELSE /\ open' = TRUE
            /\ logging' = [logging EXCEPT ![g] = "use"]
  /\ UNCHANGED <<durable, life, config, closed, locks, writing, counters>>

UseLog(g) ==
  /\ Up /\ logging[g] = "use"
  /\ logging' = [logging EXCEPT ![g] = "release"]
  /\ UNCHANGED <<durable, life, config, handle, locks, writing, counters>>

ReleaseLog(g) ==
  /\ Up /\ logging[g] = "release"
  /\ readers' = readers \ {g}
  /\ logging' = [logging EXCEPT ![g] = "idle"]
  /\ UNCHANGED <<durable, life, config, handle, configWrite, writing, counters>>

-----------------------------------------------------------------------------
\* The end of the process.

\* Run's context is cancelled: Shutdown stops accepting requests.
Stop ==
  /\ life = "serving"
  /\ life' = "draining"
  /\ UNCHANGED <<durable, config, handle, locks, writing, logging, counters>>

\* Shutdown returns, because the requests have ended or because its five
\* seconds have: the deferred Close asks for the write side of databaseOps.
LeaveShutdown ==
  /\ life = "draining"
  /\ life' = "closing"
  /\ UNCHANGED <<durable, config, handle, locks, writing, logging, counters>>

\* Mutant: Close does not wait for those who use the database.
CloseAtOnce ==
  /\ life = "closing"
  /\ open' = FALSE /\ closed' = TRUE
  /\ life' = "closed"
  /\ UNCHANGED <<durable, config, locks, writing, logging, counters>>

Close ==
  /\ life = "closing"
  /\ readers = {}
  /\ open' = FALSE /\ closed' = TRUE
  /\ life' = "closed"
  /\ UNCHANGED <<durable, config, locks, writing, logging, counters>>

\* The process is gone, and what it held in memory with it.
Vanish ==
  /\ life' = "down" /\ config' = EmptyConfig
  /\ open' = FALSE /\ closed' = FALSE
  /\ configWrite' = Nobody /\ readers' = {}
  /\ pc' = [w \in Writers |-> "idle"]
  /\ answer' = [w \in Writers |-> "ok"]
  /\ draft' = [w \in Writers |-> EmptyConfig]
  /\ logging' = [g \in Loggers |-> "idle"]
  /\ UNCHANGED <<durable, request, updates, logs>>

\* Run returns; a restart counts as a crash for the bound.
Exit ==
  /\ life = "closed" /\ crashes < MaxCrashes
  /\ crashes' = crashes + 1
  /\ Vanish

\* Killed, or an error of Load or initializeAdminToken ends Run.
Crash ==
  /\ life # "down" /\ crashes < MaxCrashes
  /\ crashes' = crashes + 1
  /\ Vanish

-----------------------------------------------------------------------------
Load == Open \/ Import \/ Rename \/ Read \/ InitializeAdminToken

Update(w) ==
  \/ LockConfig(w) \/ LockDatabase(w) \/ Mutate(w) \/ Ensure(w)
  \/ Commit(w) \/ RollBack(w) \/ Publish(w) \/ Release(w)

Log(g) == EnsureLog(g) \/ UseLog(g) \/ ReleaseLog(g)

Next ==
  \/ Load
  \/ \E w \in Writers : (\E op \in Ops : Ask(w, op)) \/ Update(w)
  \/ \E g \in Loggers : LockLog(g) \/ Log(g)
  \/ Stop \/ LeaveShutdown \/ Close \/ Exit \/ Crash

Spec == Init /\ [][Next]_vars

\* Goroutines run; a blocked Lock is granted at last when the mutex keeps
\* being freed (sync.Mutex, starvation mode); a transaction ends within
\* SQLite's busy timeout; Shutdown ends within five seconds.
Fairness ==
  /\ WF_vars(Load) /\ WF_vars(LeaveShutdown) /\ WF_vars(Close)
  /\ \A w \in Writers : WF_vars(Update(w)) /\ SF_vars(LockConfig(w))
  /\ \A g \in Loggers : WF_vars(Log(g))

FairSpec == Spec /\ Fairness

-----------------------------------------------------------------------------
\* Every variable has its type.
TypeOK ==
  /\ disk \in Configs /\ stored \in BOOLEAN /\ file \in {"none", "present", "migrated"}
  /\ life \in {"down", "importing", "renaming", "reading", "loaded", "serving",
               "draining", "closing", "closed"}
  /\ config \in Configs
  /\ open \in BOOLEAN /\ closed \in BOOLEAN
  /\ configWrite \in Writers \cup {Nobody}
  /\ readers \subseteq Writers \cup Loggers
  /\ pc \in [Writers -> {"idle", "asked", "locked", "mutate", "ensure", "commit",
                         "publish", "release"}]
  /\ request \in [Writers -> Ops]
  /\ draft \in [Writers -> Configs]
  /\ answer \in [Writers -> {"ok", "refused", "failed"}]
  /\ logging \in [Loggers -> {"idle", "ensure", "use", "release"}]
  /\ updates \in 0 .. MaxUpdates /\ logs \in 0 .. MaxLogs /\ crashes \in 0 .. MaxCrashes

\* Once Load has returned, the configuration the gateway routes and
\* authorizes by is the one a restart would load, except while one update is
\* between its commit and its publication: a failed transaction (store.go:154)
\* must not be seen in memory, a committed one must be.
MemoryMatchesDisk ==
  Up /\ (\A w \in Writers : pc[w] # "publish") => config = disk

\* Two keys never share a secret and no two rows share an id, whatever updates
\* run together and whatever config.json brought in (store.go:236-239, 65-76):
\* the check and the append are apart, and the check sees memory, not disk.
NoDuplicates ==
  \A c \in {config, disk} :
    /\ Storable(c)
    /\ \A k, l \in c.keys : k.secret = l.secret => k = l

\* Whoever got a handle from ensureDatabase (store.go:456) still has an open
\* one when the query runs, although Close runs when Shutdown gives up.
HandleOpenWhileUsed ==
  /\ \A w \in Writers : pc[w] = "commit" => open
  /\ \A g \in Loggers : logging[g] = "use" => open

\* An administrator token that is set is replaced by a request that asks for
\* it and by nothing else: not by a restart with another OMNI_ADMIN_TOKEN
\* (app.go:200), not by an import, not by another update's stale copy.
AdminTokenKept ==
  [][ disk.admin # None /\ disk'.admin # disk.admin =>
        \E w \in Writers : /\ pc[w] = "commit" /\ pc'[w] = "publish"
                           /\ request[w].kind = "setAdmin" ]_vars

\* Every update is answered or dies with the process: no order of configWrite
\* and databaseOps blocks one for ever, and Close is not held up for ever by
\* those who use the database.
LocksComeFree ==
  /\ \A w \in Writers : pc[w] = "asked" ~> pc[w] = "idle"
  /\ life = "closing" ~> life # "closing"

\* The store is one durable configuration updated in single steps: the commit
\* of the transaction is the step.
PhaseOf(w) ==
  CASE pc[w] = "idle" -> "idle"
    [] pc[w] = "publish" \/ (pc[w] = "release" /\ answer[w] = "ok") -> "applied"
    [] pc[w] = "release" /\ answer[w] # "ok" -> "refused"
    [] OTHER -> "asked"

AC == INSTANCE AtomicConfig WITH
        value <- disk, phase <- [w \in Writers |-> PhaseOf(w)]

ImplementsAtomicConfig == AC!Spec
=============================================================================
