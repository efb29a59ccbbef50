-------------------------- MODULE ConfigStoreProofs --------------------------
(***************************************************************************)
(* Proofs about ConfigStore.  Lemmas about the mutations come first, then  *)
(* the type invariant and the lock discipline, then what holds of the      *)
(* contents of memory and disk, and the refinement of AtomicConfig: all    *)
(* for any number of writers and loggers.                                  *)
(***************************************************************************)
EXTENDS ConfigStore, TLAPS

\* No two providers, keys or secrets coincide in c.
Distinct(c) ==
  /\ Storable(c)
  /\ \A k, l \in c.keys : k.secret = l.secret => k = l

-----------------------------------------------------------------------------
\* A mutation of a configuration is a configuration (store.go:162-287).
LEMMA MutatedIsConfig ==
  ASSUME NEW op \in Ops, NEW c \in Configs
  PROVE  Mutated(op, c) \in Configs
<1>1. op \in AllOps
  BY OpsAssumption
<1>2. CASE op.kind = "setAdmin"
  BY <1>1, <1>2 DEF AllOps, Configs, Mutated
<1>3. CASE op.kind = "addProvider"
  BY <1>1, <1>3 DEF AllOps, Configs, Mutated, Providers
<1>4. CASE op.kind = "updateProvider"
  <2> DEFINE After(p) == IF p.id # op.id THEN p
                         ELSE [id |-> op.id, form |-> op.form,
                               apiKey |-> IF op.submitted THEN op.apiKey ELSE p.apiKey]
  <2>1. Mutated(op, c) = [c EXCEPT !.providers = {After(p) : p \in c.providers}]
    BY <1>1, <1>4 DEF AllOps, Configs, Mutated
  <2>2. op.id \in ProviderIds /\ op.form \in Forms /\ op.apiKey \in ApiKeys \cup {None}
    BY <1>1, <1>4 DEF AllOps
  <2>3. ASSUME NEW p \in c.providers PROVE After(p) \in Providers
    BY <2>2 DEF Configs, Providers
  <2> DEFINE all == {After(p) : p \in c.providers}
  <2> HIDE DEF After
  <2>4. all \subseteq Providers
    BY <2>3
  <2>5. Mutated(op, c) = [c EXCEPT !.providers = all]
    BY <2>1
  <2> HIDE DEF all
  <2> QED
    BY <2>4, <2>5 DEF Configs
<1>5. CASE op.kind = "deleteProvider"
  BY <1>1, <1>5 DEF AllOps, Configs, Mutated, Providers
<1>6. CASE op.kind = "addKey"
  <2> DEFINE new == [id |-> op.id, secret |-> op.secret, enabled |-> TRUE]
  <2>1. op.id \in KeyIds /\ op.secret \in Secrets
    BY <1>1, <1>6 DEF AllOps
  <2>2. new \in AccessKeys
    BY <2>1 DEF AccessKeys
  <2>3. Mutated(op, c) = [c EXCEPT !.keys = @ \cup {new}]
    BY <1>1, <1>6 DEF AllOps, Configs, Mutated
  <2> HIDE DEF new
  <2> QED
    BY <2>2, <2>3 DEF Configs
<1>7. CASE op.kind = "updateKey"
  BY <1>1, <1>7 DEF AllOps, Configs, Mutated, AccessKeys
<1>8. CASE op.kind = "deleteKey"
  BY <1>1, <1>8 DEF AllOps, Configs, Mutated, AccessKeys
<1> QED
  BY <1>1, <1>2, <1>3, <1>4, <1>5, <1>6, <1>7, <1>8 DEF AllOps

\* A configuration whose proxy token has become a key is one, and has no
\* proxy token left (store.go:65-82).
LEMMA MigratedIsConfig ==
  ASSUME NEW c \in Configs
  PROVE  /\ ProxyTokenMigrated(c) \in Configs
         /\ ProxyTokenMigrated(c).proxy = None
<1>1. CASE c.proxy = None
  BY <1>1 DEF ProxyTokenMigrated
<1>2. CASE c.proxy # None
  <2> DEFINE keys == IF HasSecret(c, c.proxy) THEN c.keys
                     ELSE c.keys \cup {[id |-> LegacyKeyId, secret |-> c.proxy, enabled |-> TRUE]}
  <2>1. [id |-> LegacyKeyId, secret |-> c.proxy, enabled |-> TRUE] \in AccessKeys
    BY <1>2 DEF Configs, AccessKeys
  <2>2. keys \subseteq AccessKeys
    BY <2>1 DEF Configs
  <2>3. ProxyTokenMigrated(c) = [c EXCEPT !.proxy = None, !.keys = keys]
    BY <1>2 DEF ProxyTokenMigrated
  <2> HIDE DEF keys
  <2> QED
    BY <2>2, <2>3 DEF Configs
<1> QED
  BY <1>1, <1>2

\* Only a request for it changes the administrator token, and none touches
\* the proxy token (the server passes nil, server.go:158).
LEMMA MutatedTokens ==
  ASSUME NEW op \in Ops, NEW c \in Configs
  PROVE  /\ Mutated(op, c).proxy = c.proxy
         /\ op.kind # "setAdmin" => Mutated(op, c).admin = c.admin
<1>1. op \in AllOps
  BY OpsAssumption
<1> QED
  BY <1>1 DEF AllOps, Configs, Mutated

\* A mutation that is not refused and can be stored repeats no secret: an
\* addition was checked, an update keeps the secret of its row.
LEMMA MutatedIsDistinct ==
  ASSUME NEW op \in Ops, NEW c \in Configs, Distinct(c),
         ~ Refused(op, c), Storable(Mutated(op, c))
  PROVE  Distinct(Mutated(op, c))
<1>1. op \in AllOps
  BY OpsAssumption
<1>2. SUFFICES ASSUME NEW k \in Mutated(op, c).keys, NEW l \in Mutated(op, c).keys,
                      k.secret = l.secret
               PROVE  k = l
  BY DEF Distinct
<1>3. CASE op.kind \in {"setAdmin", "addProvider", "updateProvider", "deleteProvider"}
  <2>1. Mutated(op, c).keys = c.keys
    BY <1>1, <1>3 DEF AllOps, Configs, Mutated
  <2> QED
    BY <2>1, <1>2 DEF Distinct
<1>4. CASE op.kind = "addKey"
  <2>1. Mutated(op, c).keys =
          c.keys \cup {[id |-> op.id, secret |-> op.secret, enabled |-> TRUE]}
    BY <1>1, <1>4 DEF AllOps, Configs, Mutated
  <2> DEFINE new == [id |-> op.id, secret |-> op.secret, enabled |-> TRUE]
  <2>2. ASSUME NEW m \in c.keys PROVE m.secret # op.secret
    BY <1>4 DEF Refused, HasSecret
  <2>3. new.secret = op.secret
    OBVIOUS
  <2> HIDE DEF new
  <2>4. k \in c.keys \cup {new} /\ l \in c.keys \cup {new}
    BY <2>1, <1>2 DEF new
  <2> QED
    BY <2>2, <2>3, <2>4, <1>2 DEF Distinct
<1>5. CASE op.kind = "updateKey"
  <2> DEFINE After(m) == IF m.id # op.id THEN m ELSE [m EXCEPT !.enabled = op.enabled]
  <2>1. Mutated(op, c).keys = {After(m) : m \in c.keys}
    BY <1>1, <1>5 DEF AllOps, Configs, Mutated
  <2>2. PICK m \in c.keys, n \in c.keys : k = After(m) /\ l = After(n)
    BY <2>1, <1>2
  <2>3. \A o \in c.keys : After(o).secret = o.secret
    BY DEF Configs, AccessKeys
  <2>4. m.secret = n.secret
    BY <2>2, <2>3, <1>2
  <2>5. m = n
    BY <2>4 DEF Distinct
  <2> QED
    BY <2>2, <2>5
<1>6. CASE op.kind = "deleteKey"
  <2>1. Mutated(op, c).keys \subseteq c.keys
    BY <1>1, <1>6 DEF AllOps, Configs, Mutated
  <2> QED
    BY <2>1, <1>2 DEF Distinct
<1> QED
  BY <1>1, <1>3, <1>4, <1>5, <1>6 DEF AllOps

\* What an older version left can be loaded (the assumption on LegacyConfig),
\* before and after its proxy token is made a key.
LEMMA LegacyIsDistinct ==
  /\ Distinct(LegacyConfig)
  /\ Distinct(ProxyTokenMigrated(LegacyConfig))
<1> DEFINE L == LegacyConfig
           P == ProxyTokenMigrated(LegacyConfig)
<1>1. L \in Configs /\ Storable(P) /\ \A k, l \in L.keys : k.secret = l.secret => k = l
  BY StoreAssumption
<1>2. CASE L.proxy = None
  BY <1>1, <1>2 DEF Distinct, ProxyTokenMigrated
<1>3. CASE L.proxy # None
  <2>1. P.providers = L.providers
    BY <1>1, <1>3 DEF ProxyTokenMigrated, Configs
  <2>2. P.keys = IF HasSecret(L, L.proxy) THEN L.keys
                 ELSE L.keys \cup {[id |-> LegacyKeyId, secret |-> L.proxy, enabled |-> TRUE]}
    BY <1>1, <1>3 DEF ProxyTokenMigrated, Configs
  <2>3. Storable(L)
    BY <1>1, <2>1, <2>2 DEF Storable
  <2>4. ASSUME NEW k \in P.keys, NEW l \in P.keys, k.secret = l.secret
        PROVE  k = l
    <3> DEFINE new == [id |-> LegacyKeyId, secret |-> L.proxy, enabled |-> TRUE]
    <3>1. new.secret = L.proxy
      OBVIOUS
    <3> HIDE DEF new
    <3>2. CASE HasSecret(L, L.proxy)
      BY <1>1, <2>2, <2>4, <3>2
    <3>3. CASE ~ HasSecret(L, L.proxy)
      <4>1. ASSUME NEW m \in L.keys PROVE m.secret # L.proxy
        BY <3>3 DEF HasSecret
      <4>2. k \in L.keys \cup {new} /\ l \in L.keys \cup {new}
        BY <2>2, <3>3, <2>4 DEF new
      <4> QED
        BY <1>1, <2>4, <3>1, <4>1, <4>2
    <3> QED
      BY <3>2, <3>3
  <2> QED
    BY <1>1, <2>3, <2>4 DEF Distinct
<1> QED
  BY <1>2, <1>3

\* What the constants are, in the pieces the steps below need.
LEMMA Bounds == MaxUpdates \in Nat /\ MaxLogs \in Nat /\ MaxCrashes \in Nat
BY StoreAssumption

\* The empty configuration of a new database or process is one.
LEMMA EmptyIsConfig == EmptyConfig \in Configs /\ Distinct(EmptyConfig)
BY DEF EmptyConfig, Configs, Distinct, Storable

\* A configuration with the environment's administrator token is one.
LEMMA InitializedIsConfig ==
  ASSUME NEW c \in Configs
  PROVE  [c EXCEPT !.admin = EnvToken] \in Configs
<1>1. EnvToken \in Tokens \cup {None}
  BY StoreAssumption
<1> QED
  BY <1>1 DEF Configs

\* The end of the process leaves every variable with its type.
LEMMA VanishType ==
  ASSUME TypeOK, Vanish, crashes < MaxCrashes, crashes' = crashes + 1
  PROVE  TypeOK'
<1>1. crashes' \in 0 .. MaxCrashes
  BY Bounds DEF TypeOK
<1>2. /\ pc' \in [Writers -> {"idle", "asked", "locked", "mutate", "ensure", "commit",
                              "publish", "release"}]
      /\ answer' \in [Writers -> {"ok", "refused", "failed"}]
      /\ logging' \in [Loggers -> {"idle", "ensure", "use", "release"}]
  BY DEF Vanish
<1>3. draft' \in [Writers -> Configs]
  BY EmptyIsConfig DEF Vanish
<1>4. /\ life' = "down" /\ config' \in Configs /\ open' = FALSE /\ closed' = FALSE
      /\ configWrite' = Nobody /\ readers' = {}
  BY EmptyIsConfig DEF Vanish
<1>5. UNCHANGED <<disk, stored, file, request, updates, logs>>
  BY DEF Vanish, durable
<1> QED
  BY <1>1, <1>2, <1>3, <1>4, <1>5 DEF TypeOK

-----------------------------------------------------------------------------
\* Every step keeps the types: what is written to disk and published is a
\* configuration, whatever the update.
LEMMA TypeStep ==
  ASSUME TypeOK, [Next]_vars
  PROVE  TypeOK'
<1>1. ASSUME Open
      PROVE  TypeOK'
  BY <1>1 DEF TypeOK, durable, handle, locks, writing, counters, Open
<1>2. ASSUME Import
      PROVE  TypeOK'
  BY <1>2, StoreAssumption DEF TypeOK, durable, handle, locks, writing, counters, Import
<1>3. ASSUME Rename
      PROVE  TypeOK'
  BY <1>3 DEF TypeOK, durable, handle, locks, writing, counters, Rename
<1>4. ASSUME Read
      PROVE  TypeOK'
  BY <1>4, MigratedIsConfig DEF TypeOK, durable, handle, locks, writing, counters, Read
<1>5. ASSUME InitializeAdminToken
      PROVE  TypeOK'
  BY <1>5, InitializedIsConfig DEF TypeOK, vars, durable, handle, locks, writing, counters,
          InitializeAdminToken
<1>6. ASSUME Stop
      PROVE  TypeOK'
  BY <1>6 DEF TypeOK, durable, handle, locks, writing, counters, Stop
<1>7. ASSUME LeaveShutdown
      PROVE  TypeOK'
  BY <1>7 DEF TypeOK, durable, handle, locks, writing, counters, LeaveShutdown
<1>8. ASSUME Close
      PROVE  TypeOK'
  BY <1>8 DEF TypeOK, durable, handle, locks, writing, counters, Close
<1>9. ASSUME Exit
      PROVE  TypeOK'
  BY <1>9, VanishType DEF Exit
<1>10. ASSUME Crash
      PROVE  TypeOK'
  BY <1>10, VanishType DEF Crash
<1>11. ASSUME NEW w \in Writers, NEW op \in Ops, Ask(w, op)
      PROVE  TypeOK'
  BY <1>11, Bounds DEF TypeOK, durable, handle, locks, writing, counters, Ask
<1>12. ASSUME NEW w \in Writers, LockConfig(w)
      PROVE  TypeOK'
  BY <1>12 DEF TypeOK, durable, handle, locks, writing, counters, LockConfig
<1>13. ASSUME NEW w \in Writers, LockDatabase(w)
      PROVE  TypeOK'
  BY <1>13 DEF TypeOK, durable, handle, locks, writing, counters, LockDatabase
<1>14. ASSUME NEW w \in Writers, Mutate(w)
      PROVE  TypeOK'
  BY <1>14, MutatedIsConfig DEF TypeOK, durable, handle, locks, writing, counters, Mutate
<1>15. ASSUME NEW w \in Writers, Ensure(w)
      PROVE  TypeOK'
  BY <1>15 DEF TypeOK, durable, handle, locks, writing, counters, Ensure
<1>16. ASSUME NEW w \in Writers, Commit(w)
      PROVE  TypeOK'
  BY <1>16 DEF TypeOK, durable, handle, locks, writing, counters, Commit
<1>17. ASSUME NEW w \in Writers, RollBack(w)
      PROVE  TypeOK'
  BY <1>17 DEF TypeOK, durable, handle, locks, writing, counters, RollBack
<1>18. ASSUME NEW w \in Writers, Publish(w)
      PROVE  TypeOK'
  BY <1>18 DEF TypeOK, durable, handle, locks, writing, counters, Publish
<1>19. ASSUME NEW w \in Writers, Release(w)
      PROVE  TypeOK'
  BY <1>19, EmptyIsConfig, Bounds DEF TypeOK, durable, handle, locks, writing, counters, Release
<1>20. ASSUME NEW g \in Loggers, LockLog(g)
      PROVE  TypeOK'
  BY <1>20, Bounds DEF TypeOK, durable, handle, locks, writing, counters, LockLog
<1>21. ASSUME NEW g \in Loggers, EnsureLog(g)
      PROVE  TypeOK'
  BY <1>21 DEF TypeOK, durable, handle, locks, writing, counters, EnsureLog
<1>22. ASSUME NEW g \in Loggers, UseLog(g)
      PROVE  TypeOK'
  BY <1>22 DEF TypeOK, durable, handle, locks, writing, counters, UseLog
<1>23. ASSUME NEW g \in Loggers, ReleaseLog(g)
      PROVE  TypeOK'
  BY <1>23 DEF TypeOK, durable, handle, locks, writing, counters, ReleaseLog
<1>24. ASSUME UNCHANGED vars
      PROVE  TypeOK'
  BY <1>24 DEF TypeOK, vars, durable, handle, locks, writing, counters
<1> QED
  BY <1>1, <1>2, <1>3, <1>4, <1>5, <1>6, <1>7, <1>8, <1>9, <1>10, <1>11, <1>12, <1>13, <1>14, <1>15, <1>16, <1>17, <1>18, <1>19, <1>20, <1>21, <1>22, <1>23, <1>24
  DEF Next, Load, Update, Log

-----------------------------------------------------------------------------
\* While the process starts nothing else of it runs.
Quiet ==
  ~ Up => /\ configWrite = Nobody /\ readers = {}
          /\ \A w \in Writers : pc[w] = "idle"
          /\ \A g \in Loggers : logging[g] = "idle"

\* A writer past its locks holds them, and has an open handle when it commits.
WriterLocked(w) ==
  /\ pc[w] \notin {"idle", "asked"} => configWrite = w
  /\ pc[w] \notin {"idle", "asked", "locked"} => w \in readers
  /\ pc[w] = "commit" => open

LoggerLocked(g) ==
  /\ logging[g] # "idle" => g \in readers
  /\ logging[g] = "use" => open

LockInv ==
  /\ Quiet
  /\ \A w \in Writers : WriterLocked(w)
  /\ \A g \in Loggers : LoggerLocked(g)

LEMMA NamesDiffer == Nobody \notin Writers /\ Writers \cap Loggers = {}
BY StoreAssumption

\* Every step keeps the lock discipline.  Close finds no reader, so nobody
\* who could be using the handle.
LEMMA LockStep ==
  ASSUME TypeOK, LockInv, [Next]_vars
  PROVE  LockInv'
<1>1. ASSUME Open
      PROVE  LockInv'
  BY NamesDiffer, <1>1 DEF TypeOK, LockInv, Quiet, WriterLocked, LoggerLocked, Up, vars, durable, handle, locks, writing, Open
<1>2. ASSUME Import
      PROVE  LockInv'
  BY NamesDiffer, <1>2 DEF TypeOK, LockInv, Quiet, WriterLocked, LoggerLocked, Up, vars, durable, handle, locks, writing, Import
<1>3. ASSUME Rename
      PROVE  LockInv'
  BY NamesDiffer, <1>3 DEF TypeOK, LockInv, Quiet, WriterLocked, LoggerLocked, Up, vars, durable, handle, locks, writing, Rename
<1>4. ASSUME Read
      PROVE  LockInv'
  BY NamesDiffer, <1>4 DEF TypeOK, LockInv, Quiet, WriterLocked, LoggerLocked, Up, vars, durable, handle, locks, writing, Read
<1>5. ASSUME InitializeAdminToken
      PROVE  LockInv'
  BY NamesDiffer, <1>5 DEF TypeOK, LockInv, Quiet, WriterLocked, LoggerLocked, Up, vars, durable, handle, locks, writing, InitializeAdminToken
<1>6. ASSUME Stop
      PROVE  LockInv'
  BY NamesDiffer, <1>6 DEF TypeOK, LockInv, Quiet, WriterLocked, LoggerLocked, Up, vars, durable, handle, locks, writing, Stop
<1>7. ASSUME LeaveShutdown
      PROVE  LockInv'
  BY NamesDiffer, <1>7 DEF TypeOK, LockInv, Quiet, WriterLocked, LoggerLocked, Up, vars, durable, handle, locks, writing, LeaveShutdown
<1>8. ASSUME Close
      PROVE  LockInv'
  BY NamesDiffer, <1>8 DEF TypeOK, LockInv, Quiet, WriterLocked, LoggerLocked, Up, vars, durable, handle, locks, writing, Close
<1>9. ASSUME Exit
      PROVE  LockInv'
  BY NamesDiffer, <1>9 DEF TypeOK, LockInv, Quiet, WriterLocked, LoggerLocked, Up, vars, durable, handle, locks, writing, Exit, Vanish
<1>10. ASSUME Crash
      PROVE  LockInv'
  BY NamesDiffer, <1>10 DEF TypeOK, LockInv, Quiet, WriterLocked, LoggerLocked, Up, vars, durable, handle, locks, writing, Crash, Vanish
<1>11. ASSUME NEW w \in Writers, NEW op \in Ops, Ask(w, op)
      PROVE  LockInv'
  BY NamesDiffer, <1>11 DEF TypeOK, LockInv, Quiet, WriterLocked, LoggerLocked, Up, vars, durable, handle, locks, writing, Ask
<1>12. ASSUME NEW w \in Writers, LockConfig(w)
      PROVE  LockInv'
  BY NamesDiffer, <1>12 DEF TypeOK, LockInv, Quiet, WriterLocked, LoggerLocked, Up, vars, durable, handle, locks, writing, LockConfig
<1>13. ASSUME NEW w \in Writers, LockDatabase(w)
      PROVE  LockInv'
  BY NamesDiffer, <1>13 DEF TypeOK, LockInv, Quiet, WriterLocked, LoggerLocked, Up, vars, durable, handle, locks, writing, LockDatabase
<1>14. ASSUME NEW w \in Writers, Mutate(w)
      PROVE  LockInv'
  BY NamesDiffer, <1>14 DEF TypeOK, LockInv, Quiet, WriterLocked, LoggerLocked, Up, vars, durable, handle, locks, writing, Mutate
<1>15. ASSUME NEW w \in Writers, Ensure(w)
      PROVE  LockInv'
  BY NamesDiffer, <1>15 DEF TypeOK, LockInv, Quiet, WriterLocked, LoggerLocked, Up, vars, durable, handle, locks, writing, Ensure
<1>16. ASSUME NEW w \in Writers, Commit(w)
      PROVE  LockInv'
  BY NamesDiffer, <1>16 DEF TypeOK, LockInv, Quiet, WriterLocked, LoggerLocked, Up, vars, durable, handle, locks, writing, Commit
<1>17. ASSUME NEW w \in Writers, RollBack(w)
      PROVE  LockInv'
  BY NamesDiffer, <1>17 DEF TypeOK, LockInv, Quiet, WriterLocked, LoggerLocked, Up, vars, durable, handle, locks, writing, RollBack
<1>18. ASSUME NEW w \in Writers, Publish(w)
      PROVE  LockInv'
  BY NamesDiffer, <1>18 DEF TypeOK, LockInv, Quiet, WriterLocked, LoggerLocked, Up, vars, durable, handle, locks, writing, Publish
<1>19. ASSUME NEW w \in Writers, Release(w)
      PROVE  LockInv'
  BY NamesDiffer, <1>19 DEF TypeOK, LockInv, Quiet, WriterLocked, LoggerLocked, Up, vars, durable, handle, locks, writing, Release
<1>20. ASSUME NEW g \in Loggers, LockLog(g)
      PROVE  LockInv'
  BY NamesDiffer, <1>20 DEF TypeOK, LockInv, Quiet, WriterLocked, LoggerLocked, Up, vars, durable, handle, locks, writing, LockLog
<1>21. ASSUME NEW g \in Loggers, EnsureLog(g)
      PROVE  LockInv'
  BY NamesDiffer, <1>21 DEF TypeOK, LockInv, Quiet, WriterLocked, LoggerLocked, Up, vars, durable, handle, locks, writing, EnsureLog
<1>22. ASSUME NEW g \in Loggers, UseLog(g)
      PROVE  LockInv'
  BY NamesDiffer, <1>22 DEF TypeOK, LockInv, Quiet, WriterLocked, LoggerLocked, Up, vars, durable, handle, locks, writing, UseLog
<1>23. ASSUME NEW g \in Loggers, ReleaseLog(g)
      PROVE  LockInv'
  BY NamesDiffer, <1>23 DEF TypeOK, LockInv, Quiet, WriterLocked, LoggerLocked, Up, vars, durable, handle, locks, writing, ReleaseLog
<1>24. ASSUME UNCHANGED vars
      PROVE  LockInv'
  BY NamesDiffer, <1>24 DEF TypeOK, LockInv, Quiet, WriterLocked, LoggerLocked, Up, vars, durable, handle, locks, writing
<1> QED
  BY <1>1, <1>2, <1>3, <1>4, <1>5, <1>6, <1>7, <1>8, <1>9, <1>10, <1>11, <1>12, <1>13, <1>14, <1>15, <1>16, <1>17, <1>18, <1>19, <1>20, <1>21, <1>22, <1>23, <1>24
  DEF Next, Load, Update, Log

-----------------------------------------------------------------------------
\* Type correctness and the handle, for any number of writers and loggers.

\* Before the program is started for the first time.
THEOREM StoreInit == Init => TypeOK /\ LockInv
<1> SUFFICES ASSUME Init PROVE TypeOK /\ LockInv
  OBVIOUS
<1>1. /\ request \in [Writers -> Ops]
      /\ draft \in [Writers -> Configs] /\ disk \in Configs /\ config \in Configs
  <2>1. (CHOOSE op \in Ops : TRUE) \in Ops
    BY OpsAssumption
  <2> QED
    BY <2>1, EmptyIsConfig DEF Init
<1>2. updates \in 0 .. MaxUpdates /\ logs \in 0 .. MaxLogs /\ crashes \in 0 .. MaxCrashes
  BY Bounds DEF Init
<1>3. /\ pc \in [Writers -> {"idle", "asked", "locked", "mutate", "ensure", "commit",
                             "publish", "release"}]
      /\ answer \in [Writers -> {"ok", "refused", "failed"}]
      /\ logging \in [Loggers -> {"idle", "ensure", "use", "release"}]
  BY DEF Init
<1>4. TypeOK
  BY <1>1, <1>2, <1>3 DEF Init, TypeOK
<1>5. LockInv
  BY DEF Init, LockInv, Quiet, WriterLocked, LoggerLocked
<1> QED
  BY <1>4, <1>5

\* Every reachable state is well typed: in particular no update, import or
\* migration produces anything but a configuration.
THEOREM StoreTypeCorrect == Spec => []TypeOK
<1>1. Init => TypeOK
  BY StoreInit
<1>2. TypeOK /\ [Next]_vars => TypeOK'
  BY TypeStep
<1> QED
  BY <1>1, <1>2, PTL DEF Spec

LEMMA StoreLocks == Spec => [](TypeOK /\ LockInv)
<1>1. Init => TypeOK /\ LockInv
  BY StoreInit
<1>2. TypeOK /\ LockInv /\ [Next]_vars => (TypeOK /\ LockInv)'
  BY TypeStep, LockStep
<1> QED
  BY <1>1, <1>2, PTL DEF Spec

\* Close never pulls the database from under an operation that has a handle
\* (store.go:94-106 against 456-475), even after Shutdown gave up.
THEOREM StoreHandleOpenWhileUsed == Spec => []HandleOpenWhileUsed
<1>1. LockInv => HandleOpenWhileUsed
  BY DEF LockInv, WriterLocked, LoggerLocked, HandleOpenWhileUsed
<1> QED
  BY <1>1, StoreLocks, PTL

-----------------------------------------------------------------------------
\* What memory and disk hold.

\* A writer's copy is its mutation of what is in memory, and is what is on
\* disk once it has committed.
WriterDraft(w) ==
  /\ pc[w] \in {"ensure", "commit", "publish"} =>
       ~ Refused(request[w], config) /\ draft[w] = Mutated(request[w], config)
  /\ pc[w] = "publish" => disk = draft[w]

Loaded == Up \/ life = "loaded"

MemoryFollows == Loaded /\ (\A w \in Writers : pc[w] # "publish") => config = disk

\* Nothing is imported over a configuration, and a proxy token on disk is
\* the one the older version left.
History ==
  /\ ~ stored => disk = EmptyConfig
  /\ life = "importing" => ~ stored
  /\ disk.proxy = None \/ disk = LegacyConfig
  /\ config.proxy = None

Contents ==
  /\ \A w \in Writers : WriterDraft(w)
  /\ MemoryFollows
  /\ History
  /\ Distinct(config) /\ Distinct(disk)

\* Only one writer is between its copy and its publication.
LEMMA OneWriter ==
  ASSUME LockInv, NEW w \in Writers, pc[w] \notin {"idle", "asked"}
  PROVE  \A v \in Writers \ {w} : pc[v] \in {"idle", "asked"}
BY DEF LockInv, WriterLocked

\* A step that touches no configuration and no copy changes nothing here.
LEMMA ContentsFrame ==
  ASSUME Contents, UNCHANGED <<disk, stored, config, draft, request>>,
         Loaded' => Loaded, life' # "importing",
         \A w \in Writers :
           \/ pc'[w] = pc[w]
           \/ pc[w] # "publish" /\ pc'[w] \notin {"ensure", "publish"}
              /\ (pc'[w] = "commit" => pc[w] = "ensure")
  PROVE  Contents'
<1>1. ASSUME NEW w \in Writers PROVE WriterDraft(w)'
  BY DEF Contents, WriterDraft
<1>2. MemoryFollows'
  BY DEF Contents, MemoryFollows
<1>3. History' /\ Distinct(config)' /\ Distinct(disk)'
  BY DEF Contents, History, Distinct, Storable
<1> QED
  BY <1>1, <1>2, <1>3 DEF Contents

\* The end of the process empties memory and leaves disk alone.
LEMMA VanishContents ==
  ASSUME Contents, Vanish
  PROVE  Contents'
<1>1. /\ life' = "down" /\ config' = EmptyConfig
      /\ pc' = [w \in Writers |-> "idle"]
      /\ UNCHANGED <<disk, stored>>
  BY DEF Vanish, durable
<1>2. Distinct(disk)' /\ Distinct(config)'
  BY <1>1, EmptyIsConfig DEF Contents, Distinct, Storable
<1>3. History'
  BY <1>1 DEF Contents, History, EmptyConfig
<1>4. ~ Loaded' /\ \A w \in Writers : pc'[w] = "idle"
  BY <1>1 DEF Loaded, Up
<1> QED
  BY <1>1, <1>2, <1>3, <1>4 DEF Contents, WriterDraft, MemoryFollows

LEMMA ContentsStep ==
  ASSUME TypeOK, LockInv, Contents, [Next]_vars
  PROVE  Contents'
<1>1. ASSUME Open
      PROVE  Contents'
  <2>1. life' = "importing" => ~ stored
    BY <1>1 DEF Open
  <2>2. UNCHANGED <<disk, stored, config, draft, request, pc>> /\ ~ Loaded'
    BY <1>1 DEF Open, Loaded, Up, durable, writing
  <2> QED
    BY <2>1, <2>2 DEF Contents, WriterDraft, MemoryFollows, History, Distinct, Storable
<1>2. ASSUME Import
      PROVE  Contents'
  <2>1. \A w \in Writers : pc[w] = "idle"
    BY <1>2 DEF LockInv, Quiet, Up, Import
  <2>2. /\ disk' = LegacyConfig /\ stored' = TRUE /\ life' = "renaming"
        /\ UNCHANGED <<config, pc>>
    BY <1>2 DEF Import, writing
  <2>3. Distinct(disk)' /\ Distinct(config)'
    BY <2>2, LegacyIsDistinct DEF Contents, Distinct, Storable
  <2>4. History'
    BY <2>2 DEF Contents, History
  <2>5. ~ Loaded'
    BY <2>2 DEF Loaded, Up
  <2> QED
    BY <2>1, <2>2, <2>3, <2>4, <2>5 DEF Contents, WriterDraft, MemoryFollows
<1>3. ASSUME Rename
      PROVE  Contents'
  <2>1. /\ life' = "reading"
        /\ UNCHANGED <<disk, stored, config, draft, request, pc>>
    BY <1>3 DEF Rename, writing
  <2>2. ~ Loaded'
    BY <2>1 DEF Loaded, Up
  <2> QED
    BY <2>1, <2>2, ContentsFrame
<1>4. ASSUME Read
      PROVE  Contents'
  <2>1. \A w \in Writers : pc[w] = "idle"
    BY <1>4 DEF LockInv, Quiet, Up, Read
  <2>2. /\ disk' = ProxyTokenMigrated(disk) /\ config' = ProxyTokenMigrated(disk)
        /\ life' = "loaded" /\ UNCHANGED <<stored, pc>>
    BY <1>4 DEF Read, writing
  <2>3. Distinct(ProxyTokenMigrated(disk))
    BY LegacyIsDistinct DEF Contents, History, ProxyTokenMigrated
  <2>4. Distinct(disk)' /\ Distinct(config)'
    BY <2>2, <2>3 DEF Distinct, Storable
  <2>5. ~ stored => ProxyTokenMigrated(disk) = EmptyConfig
    BY DEF Contents, History, EmptyConfig, ProxyTokenMigrated
  <2>6. History'
    BY <2>2, <2>5, MigratedIsConfig DEF History, TypeOK
  <2> QED
    BY <2>1, <2>2, <2>4, <2>6 DEF Contents, WriterDraft, MemoryFollows
<1>5. ASSUME InitializeAdminToken
      PROVE  Contents'
  <2>1. \A w \in Writers : pc[w] = "idle"
    BY <1>5 DEF LockInv, Quiet, Up, InitializeAdminToken
  <2>2. config = disk
    BY <1>5, <2>1 DEF Contents, MemoryFollows, Loaded, InitializeAdminToken
  <2>3. life' = "serving" /\ UNCHANGED <<pc>>
    BY <1>5 DEF InitializeAdminToken, writing
  <2>4. CASE EnvToken # None /\ config.admin = None
    <3>1. config' = [config EXCEPT !.admin = EnvToken] /\ disk' = config' /\ stored' = TRUE
      BY <1>5, <2>4 DEF InitializeAdminToken
    <3>2. config'.proxy = None
      BY <3>1 DEF TypeOK, Configs, Contents, History
    <3>3. config'.keys = config.keys /\ config'.providers = config.providers
      BY <3>1 DEF TypeOK, Configs
    <3>4. Distinct(config')
      BY <3>3 DEF Distinct, Storable, Contents
    <3>5. Distinct(config)' /\ Distinct(disk)'
      BY <3>1, <3>4 DEF Distinct, Storable
    <3> QED
      BY <2>1, <2>3, <3>1, <3>2, <3>5 DEF Contents, WriterDraft, MemoryFollows, History
  <2>5. CASE ~ (EnvToken # None /\ config.admin = None)
    <3>1. UNCHANGED <<config, disk, stored>>
      BY <1>5, <2>5 DEF InitializeAdminToken
    <3> QED
      BY <2>1, <2>2, <2>3, <3>1
      DEF Contents, WriterDraft, MemoryFollows, History, Distinct, Storable
  <2> QED
    BY <2>4, <2>5
<1>6. ASSUME Stop
      PROVE  Contents'
  BY <1>6, ContentsFrame, OneWriter DEF Stop, Loaded, Up, durable, writing, TypeOK
<1>7. ASSUME LeaveShutdown
      PROVE  Contents'
  BY <1>7, ContentsFrame, OneWriter DEF LeaveShutdown, Loaded, Up, durable, writing, TypeOK
<1>8. ASSUME Close
      PROVE  Contents'
  BY <1>8, ContentsFrame, OneWriter DEF Close, Loaded, Up, durable, writing, TypeOK
<1>9. ASSUME Exit
      PROVE  Contents'
  BY <1>9, VanishContents DEF Exit
<1>10. ASSUME Crash
      PROVE  Contents'
  BY <1>10, VanishContents DEF Crash
<1>11. ASSUME NEW w \in Writers, NEW op \in Ops, Ask(w, op)
      PROVE  Contents'
  <2>1. /\ UNCHANGED <<disk, stored, life, config, draft>>
        /\ \A v \in Writers : pc'[v] # "publish" <=> pc[v] # "publish"
    BY <1>11 DEF Ask, durable, TypeOK
  <2>2. ASSUME NEW v \in Writers PROVE WriterDraft(v)'
    <3>1. CASE v = w
      BY <1>11, <3>1 DEF Ask, WriterDraft, TypeOK
    <3>2. CASE v # w
      BY <1>11, <3>2 DEF Ask, WriterDraft, TypeOK, Contents, durable
    <3> QED
      BY <3>1, <3>2
  <2>3. MemoryFollows'
    BY <2>1 DEF Contents, MemoryFollows, Loaded, Up
  <2> QED
    BY <2>1, <2>2, <2>3 DEF Contents, History, Distinct, Storable
<1>12. ASSUME NEW w \in Writers, LockConfig(w)
      PROVE  Contents'
  BY <1>12, ContentsFrame, OneWriter DEF LockConfig, Loaded, Up, durable, writing, TypeOK
<1>13. ASSUME NEW w \in Writers, LockDatabase(w)
      PROVE  Contents'
  BY <1>13, ContentsFrame, OneWriter DEF LockDatabase, Loaded, Up, durable, writing, TypeOK
<1>14. ASSUME NEW w \in Writers, Mutate(w)
      PROVE  Contents'
  <2>1. /\ UNCHANGED <<disk, stored, life, config, request>>
        /\ \A v \in Writers : pc'[v] # "publish" <=> pc[v] # "publish"
    BY <1>14 DEF Mutate, durable, TypeOK
  <2>2. ASSUME NEW v \in Writers PROVE WriterDraft(v)'
    <3>1. CASE v = w
      BY <1>14, <3>1 DEF Mutate, WriterDraft, TypeOK
    <3>2. CASE v # w
      BY <1>14, <3>2 DEF Mutate, WriterDraft, TypeOK, Contents, durable
    <3> QED
      BY <3>1, <3>2
  <2>3. MemoryFollows'
    BY <2>1 DEF Contents, MemoryFollows, Loaded, Up
  <2> QED
    BY <2>1, <2>2, <2>3 DEF Contents, History, Distinct, Storable
<1>15. ASSUME NEW w \in Writers, Ensure(w)
      PROVE  Contents'
  BY <1>15, ContentsFrame, OneWriter DEF Ensure, Loaded, Up, durable, writing, TypeOK
<1>16. ASSUME NEW w \in Writers, Commit(w)
      PROVE  Contents'
  <2>1. /\ pc[w] = "commit" /\ pc' = [pc EXCEPT ![w] = "publish"]
        /\ disk' = draft[w] /\ stored' = TRUE /\ Storable(draft[w])
        /\ UNCHANGED <<life, config, request, draft>>
    BY <1>16 DEF Commit
  <2>2. pc'[w] = "publish"
    BY <2>1 DEF TypeOK
  <2>3. draft[w] = Mutated(request[w], config) /\ ~ Refused(request[w], config)
    BY <2>1 DEF Contents, WriterDraft
  <2>4. request[w] \in Ops /\ config \in Configs
    BY DEF TypeOK
  <2>5. Distinct(draft[w]) /\ draft[w].proxy = None
    BY <2>1, <2>3, <2>4, MutatedIsDistinct, MutatedTokens DEF Contents, History
  <2>6. Distinct(disk)' /\ Distinct(config)'
    BY <2>1, <2>5 DEF Distinct, Storable, Contents
  <2>7. ASSUME NEW v \in Writers PROVE WriterDraft(v)'
    <3>1. CASE v = w
      BY <2>1, <2>3, <3>1 DEF WriterDraft
    <3>2. CASE v # w
      <4>1. pc'[v] = pc[v] /\ pc[v] \in {"idle", "asked"}
        BY <2>1, <3>2, OneWriter DEF TypeOK
      <4> QED
        BY <4>1 DEF WriterDraft
    <3> QED
      BY <3>1, <3>2
  <2>8. History'
    BY <2>1, <2>5, <1>16 DEF Commit, Up, History, Contents
  <2> QED
    BY <2>1, <2>2, <2>6, <2>7, <2>8 DEF Contents, MemoryFollows
<1>17. ASSUME NEW w \in Writers, RollBack(w)
      PROVE  Contents'
  BY <1>17, ContentsFrame, OneWriter DEF RollBack, Loaded, Up, durable, writing, TypeOK
<1>18. ASSUME NEW w \in Writers, Publish(w)
      PROVE  Contents'
  <2>1. /\ pc[w] = "publish" /\ pc' = [pc EXCEPT ![w] = "release"]
        /\ config' = draft[w]
        /\ UNCHANGED <<disk, stored, life, request, draft>>
    BY <1>18 DEF Publish, durable
  <2>2. disk = draft[w] /\ config' = disk'
    BY <2>1 DEF Contents, WriterDraft
  <2>3. draft[w].proxy = None
    BY <2>1, MutatedTokens DEF Contents, WriterDraft, History, TypeOK
  <2>4. ASSUME NEW v \in Writers PROVE pc'[v] \in {"idle", "asked", "release"}
    BY <2>1, OneWriter DEF TypeOK
  <2>5. ASSUME NEW v \in Writers PROVE WriterDraft(v)'
    BY <2>4 DEF WriterDraft
  <2>6. Distinct(disk)' /\ Distinct(config)'
    BY <2>1, <2>2 DEF Distinct, Storable, Contents
  <2>7. History'
    BY <2>1, <2>3 DEF History, Contents
  <2> QED
    BY <2>1, <2>2, <2>5, <2>6, <2>7 DEF Contents, MemoryFollows
<1>19. ASSUME NEW w \in Writers, Release(w)
      PROVE  Contents'
  <2>1. /\ pc[w] = "release" /\ pc' = [pc EXCEPT ![w] = "idle"]
        /\ UNCHANGED <<disk, stored, life, config, request>>
    BY <1>19 DEF Release, durable
  <2>2. ASSUME NEW v \in Writers PROVE pc'[v] \in {"idle", "asked"}
    BY <2>1, OneWriter DEF TypeOK
  <2>3. ASSUME NEW v \in Writers PROVE WriterDraft(v)'
    BY <2>2 DEF WriterDraft
  <2>4. config = disk
    BY <2>1, OneWriter, <1>19 DEF Release, Contents, MemoryFollows, Loaded
  <2> QED
    BY <2>1, <2>3, <2>4 DEF Contents, MemoryFollows, History, Distinct, Storable
<1>20. ASSUME NEW g \in Loggers, LockLog(g)
      PROVE  Contents'
  BY <1>20, ContentsFrame, OneWriter DEF LockLog, Loaded, Up, durable, writing, TypeOK
<1>21. ASSUME NEW g \in Loggers, EnsureLog(g)
      PROVE  Contents'
  BY <1>21, ContentsFrame, OneWriter DEF EnsureLog, Loaded, Up, durable, writing, TypeOK
<1>22. ASSUME NEW g \in Loggers, UseLog(g)
      PROVE  Contents'
  BY <1>22, ContentsFrame, OneWriter DEF UseLog, Loaded, Up, durable, writing, TypeOK
<1>23. ASSUME NEW g \in Loggers, ReleaseLog(g)
      PROVE  Contents'
  BY <1>23, ContentsFrame, OneWriter DEF ReleaseLog, Loaded, Up, durable, writing, TypeOK
<1>24. ASSUME UNCHANGED vars
      PROVE  Contents'
  <2>1. UNCHANGED <<disk, stored, life, config, draft, request, pc>>
    BY <1>24 DEF vars, durable, writing
  <2> QED
    BY <2>1 DEF Contents, WriterDraft, MemoryFollows, Loaded, Up, History, Distinct, Storable
<1> QED
  BY <1>1, <1>2, <1>3, <1>4, <1>5, <1>6, <1>7, <1>8, <1>9, <1>10, <1>11, <1>12, <1>13, <1>14, <1>15, <1>16, <1>17, <1>18, <1>19, <1>20, <1>21, <1>22, <1>23, <1>24
  DEF Next, Load, Update, Log

\* All of it together holds in every reachable state.
StoreInv == TypeOK /\ LockInv /\ Contents

LEMMA StoreInvariant ==
  Spec => []StoreInv
<1>1. Init => Contents
  BY EmptyIsConfig
  DEF Init, Contents, WriterDraft, MemoryFollows, Loaded, Up, History, EmptyConfig
<1>2. Init => StoreInv
  BY <1>1, StoreInit DEF StoreInv
<1>3. StoreInv /\ [Next]_vars => StoreInv'
  BY TypeStep, LockStep, ContentsStep DEF StoreInv
<1> QED
  BY <1>2, <1>3, PTL DEF Spec

\* Requests are authorized and routed by the configuration that is stored
\* (store.go:139-159), for any number of concurrent administrators.
THEOREM StoreMemoryMatchesDisk ==
  Spec => []MemoryMatchesDisk
<1>1. StoreInv => MemoryMatchesDisk
  BY DEF StoreInv, Contents, MemoryFollows, Loaded, MemoryMatchesDisk
<1> QED
  BY <1>1, StoreInvariant, PTL

\* No interleaving of updates, imports and restarts stores an id or a secret
\* twice (store.go:189, 236).
THEOREM StoreNoDuplicates ==
  Spec => []NoDuplicates
<1>1. StoreInv => NoDuplicates
  BY DEF StoreInv, Contents, Distinct, NoDuplicates
<1> QED
  BY <1>1, StoreInvariant, PTL

-----------------------------------------------------------------------------
\* The administrator token.

AdminStep ==
  disk.admin # None /\ disk'.admin # disk.admin =>
    \E w \in Writers : /\ pc[w] = "commit" /\ pc'[w] = "publish"
                       /\ request[w].kind = "setAdmin"

LEMMA AdminStepHolds ==
  ASSUME TypeOK, LockInv, Contents, [Next]_vars
  PROVE  AdminStep
<1>1. ASSUME Open
      PROVE  AdminStep
  BY <1>1 DEF AdminStep, Open, durable
<1>2. ASSUME Import
      PROVE  AdminStep
  BY <1>2 DEF AdminStep, Import, Contents, History, EmptyConfig
<1>3. ASSUME Rename
      PROVE  AdminStep
  BY <1>3 DEF AdminStep, Rename, durable
<1>4. ASSUME Read
      PROVE  AdminStep
  BY <1>4 DEF AdminStep, Read, ProxyTokenMigrated, TypeOK, Configs
<1>5. ASSUME InitializeAdminToken
      PROVE  AdminStep
  <2>1. config = disk
    BY <1>5 DEF LockInv, Quiet, Up, InitializeAdminToken, Contents, MemoryFollows, Loaded
  <2> QED
    BY <1>5, <2>1 DEF AdminStep, InitializeAdminToken
<1>6. ASSUME Stop
      PROVE  AdminStep
  BY <1>6 DEF AdminStep, Stop, durable
<1>7. ASSUME LeaveShutdown
      PROVE  AdminStep
  BY <1>7 DEF AdminStep, LeaveShutdown, durable
<1>8. ASSUME Close
      PROVE  AdminStep
  BY <1>8 DEF AdminStep, Close, durable
<1>9. ASSUME Exit
      PROVE  AdminStep
  BY <1>9 DEF AdminStep, Exit, durable, Vanish
<1>10. ASSUME Crash
      PROVE  AdminStep
  BY <1>10 DEF AdminStep, Crash, durable, Vanish
<1>11. ASSUME NEW w \in Writers, NEW op \in Ops, Ask(w, op)
      PROVE  AdminStep
  BY <1>11 DEF AdminStep, Ask, durable
<1>12. ASSUME NEW w \in Writers, LockConfig(w)
      PROVE  AdminStep
  BY <1>12 DEF AdminStep, LockConfig, durable
<1>13. ASSUME NEW w \in Writers, LockDatabase(w)
      PROVE  AdminStep
  BY <1>13 DEF AdminStep, LockDatabase, durable
<1>14. ASSUME NEW w \in Writers, Mutate(w)
      PROVE  AdminStep
  BY <1>14 DEF AdminStep, Mutate, durable
<1>15. ASSUME NEW w \in Writers, Ensure(w)
      PROVE  AdminStep
  BY <1>15 DEF AdminStep, Ensure, durable
<1>16. ASSUME NEW w \in Writers, Commit(w)
      PROVE  AdminStep
  <2>1. pc[w] = "commit" /\ pc'[w] = "publish" /\ disk' = draft[w]
    BY <1>16 DEF Commit, TypeOK
  <2>2. draft[w] = Mutated(request[w], config) /\ config = disk
    BY <2>1, <1>16, OneWriter DEF Commit, Contents, WriterDraft, MemoryFollows, Loaded
  <2>3. request[w].kind # "setAdmin" => disk'.admin = disk.admin
    BY <2>1, <2>2, MutatedTokens DEF TypeOK
  <2> QED
    BY <2>1, <2>3 DEF AdminStep
<1>17. ASSUME NEW w \in Writers, RollBack(w)
      PROVE  AdminStep
  BY <1>17 DEF AdminStep, RollBack, durable
<1>18. ASSUME NEW w \in Writers, Publish(w)
      PROVE  AdminStep
  BY <1>18 DEF AdminStep, Publish, durable
<1>19. ASSUME NEW w \in Writers, Release(w)
      PROVE  AdminStep
  BY <1>19 DEF AdminStep, Release, durable
<1>20. ASSUME NEW g \in Loggers, LockLog(g)
      PROVE  AdminStep
  BY <1>20 DEF AdminStep, LockLog, durable
<1>21. ASSUME NEW g \in Loggers, EnsureLog(g)
      PROVE  AdminStep
  BY <1>21 DEF AdminStep, EnsureLog, durable
<1>22. ASSUME NEW g \in Loggers, UseLog(g)
      PROVE  AdminStep
  BY <1>22 DEF AdminStep, UseLog, durable
<1>23. ASSUME NEW g \in Loggers, ReleaseLog(g)
      PROVE  AdminStep
  BY <1>23 DEF AdminStep, ReleaseLog, durable
<1>24. ASSUME UNCHANGED vars
      PROVE  AdminStep
  BY <1>24 DEF AdminStep, vars, durable
<1> QED
  BY <1>1, <1>2, <1>3, <1>4, <1>5, <1>6, <1>7, <1>8, <1>9, <1>10, <1>11, <1>12, <1>13, <1>14, <1>15, <1>16, <1>17, <1>18, <1>19, <1>20, <1>21, <1>22, <1>23, <1>24
  DEF Next, Load, Update, Log

\* A stored administrator token changes by a request for it only: no restart,
\* import or concurrent update replaces it (app.go:198-207).
THEOREM StoreAdminTokenKept ==
  Spec => AdminTokenKept
<1>1. StoreInv /\ [Next]_vars => [AdminStep]_vars
  BY AdminStepHolds DEF StoreInv
<1> QED
  BY <1>1, StoreInvariant, PTL DEF Spec, AdminTokenKept, AdminStep

-----------------------------------------------------------------------------
\* The refinement of AtomicConfig.

\* What stands for AtomicConfig's variable phase.
Phases == [w \in Writers |-> PhaseOf(w)]

LEMMA PhasesFrame ==
  ASSUME UNCHANGED <<pc, answer>>
  PROVE  Phases' = Phases
BY DEF Phases, PhaseOf

LEMMA PhasesExcept ==
  ASSUME NEW w \in Writers,
         \A v \in Writers \ {w} : pc'[v] = pc[v] /\ answer'[v] = answer[v]
  PROVE  Phases' = [Phases EXCEPT ![w] = PhaseOf(w)']
<1>1. \A v \in Writers \ {w} : PhaseOf(v)' = PhaseOf(v)
  BY DEF PhaseOf
<1> QED
  BY <1>1 DEF Phases

\* AtomicConfig reads the same operations.
LEMMA SameData ==
  \A op, c : /\ AC!Refused(op, c) = Refused(op, c)
             /\ AC!Mutated(op, c) = Mutated(op, c)
BY DEF AC!Refused, Refused, AC!Mutated, Mutated, AC!HasProvider, HasProvider,
       AC!HasSecret, HasSecret

LEMMA RefinementInit == Init => AC!Init
<1> SUFFICES ASSUME Init PROVE AC!Init
  OBVIOUS
<1>1. Phases = [w \in Writers |-> "idle"]
  BY DEF Init, Phases, PhaseOf
<1> QED
  BY <1>1 DEF Init, AC!Init, Phases, EmptyConfig, AC!EmptyConfig

LEMMA RefinementStep ==
  ASSUME TypeOK, LockInv, Contents, [Next]_vars
  PROVE  [AC!Next]_(AC!vars)
<1>1. ASSUME Open
      PROVE  [AC!Next]_(AC!vars)
  <2>1. UNCHANGED <<disk, stored, request, pc, answer>>
    BY <1>1 DEF Open, durable, writing
  <2> QED
    BY <2>1, PhasesFrame DEF AC!vars, Phases
<1>2. ASSUME Import
      PROVE  [AC!Next]_(AC!vars)
  <2>1. ~ stored /\ disk' = LegacyConfig /\ stored' = TRUE /\ UNCHANGED <<request, pc, answer>>
    BY <1>2 DEF Import, Contents, History, writing
  <2> QED
    BY <2>1, PhasesFrame DEF AC!Import, AC!Next, AC!vars, Phases
<1>3. ASSUME Rename
      PROVE  [AC!Next]_(AC!vars)
  <2>1. UNCHANGED <<disk, stored, request, pc, answer>>
    BY <1>3 DEF Rename, durable, writing
  <2> QED
    BY <2>1, PhasesFrame DEF AC!vars, Phases
<1>4. ASSUME Read
      PROVE  [AC!Next]_(AC!vars)
  <2>1. disk' = ProxyTokenMigrated(disk) /\ UNCHANGED <<stored, request, pc, answer>>
    BY <1>4 DEF Read, writing
  <2>2. AC!Migrate
    BY <2>1, PhasesFrame DEF AC!Migrate, AC!ProxyTokenMigrated, ProxyTokenMigrated, Phases,
       AC!HasSecret, HasSecret
  <2> QED
    BY <2>2 DEF AC!Next
<1>5. ASSUME InitializeAdminToken
      PROVE  [AC!Next]_(AC!vars)
  <2>1. config = disk
    BY <1>5 DEF LockInv, Quiet, Up, InitializeAdminToken, Contents, MemoryFollows, Loaded
  <2>2. UNCHANGED <<request, pc, answer>>
    BY <1>5 DEF InitializeAdminToken, writing
  <2>3. CASE EnvToken # None /\ config.admin = None
    BY <1>5, <2>1, <2>2, <2>3, PhasesFrame
    DEF InitializeAdminToken, AC!SetToken, AC!Next, Phases
  <2>4. CASE ~ (EnvToken # None /\ config.admin = None)
    BY <1>5, <2>2, <2>4, PhasesFrame DEF InitializeAdminToken, AC!vars, Phases
  <2> QED
    BY <2>3, <2>4
<1>6. ASSUME Stop
      PROVE  [AC!Next]_(AC!vars)
  <2>1. UNCHANGED <<disk, stored, request, pc, answer>>
    BY <1>6 DEF Stop, durable, writing
  <2> QED
    BY <2>1, PhasesFrame DEF AC!vars, Phases
<1>7. ASSUME LeaveShutdown
      PROVE  [AC!Next]_(AC!vars)
  <2>1. UNCHANGED <<disk, stored, request, pc, answer>>
    BY <1>7 DEF LeaveShutdown, durable, writing
  <2> QED
    BY <2>1, PhasesFrame DEF AC!vars, Phases
<1>8. ASSUME Close
      PROVE  [AC!Next]_(AC!vars)
  <2>1. UNCHANGED <<disk, stored, request, pc, answer>>
    BY <1>8 DEF Close, durable, writing
  <2> QED
    BY <2>1, PhasesFrame DEF AC!vars, Phases
<1>9. ASSUME Exit
      PROVE  [AC!Next]_(AC!vars)
  <2>1. UNCHANGED <<disk, stored, request>> /\ pc' = [w \in Writers |-> "idle"]
    BY <1>9 DEF Exit, Vanish, durable
  <2>2. Phases' = [w \in Writers |-> "idle"]
    BY <2>1 DEF Phases, PhaseOf
  <2> QED
    BY <2>1, <2>2 DEF AC!Crash, AC!Next, Phases
<1>10. ASSUME Crash
      PROVE  [AC!Next]_(AC!vars)
  <2>1. UNCHANGED <<disk, stored, request>> /\ pc' = [w \in Writers |-> "idle"]
    BY <1>10 DEF Crash, Vanish, durable
  <2>2. Phases' = [w \in Writers |-> "idle"]
    BY <2>1 DEF Phases, PhaseOf
  <2> QED
    BY <2>1, <2>2 DEF AC!Crash, AC!Next, Phases
<1>11. ASSUME NEW w \in Writers, NEW op \in Ops, Ask(w, op)
      PROVE  [AC!Next]_(AC!vars)
  <2>1. /\ pc[w] = "idle" /\ pc' = [pc EXCEPT ![w] = "asked"]
        /\ request' = [request EXCEPT ![w] = op]
        /\ UNCHANGED <<disk, stored, answer>>
    BY <1>11 DEF Ask, durable
  <2>2. PhaseOf(w) = "idle" /\ PhaseOf(w)' = "asked"
    BY <2>1 DEF TypeOK, PhaseOf
  <2>3. Phases' = [Phases EXCEPT ![w] = "asked"]
    BY <2>1, <2>2, PhasesExcept DEF TypeOK
  <2>4. AC!Ask(w, op)
    BY <2>1, <2>2, <2>3 DEF AC!Ask, Phases
  <2> QED
    BY <2>4 DEF AC!Next
<1>12. ASSUME NEW w \in Writers, LockConfig(w)
      PROVE  [AC!Next]_(AC!vars)
  <2>1. UNCHANGED <<disk, stored, request>>
    BY <1>12 DEF LockConfig, durable
  <2>2. PhaseOf(w)' = PhaseOf(w)
    BY <1>12 DEF LockConfig, TypeOK, PhaseOf
  <2>3. Phases' = [Phases EXCEPT ![w] = PhaseOf(w)]
    BY <1>12, <2>2, PhasesExcept DEF LockConfig, TypeOK
  <2>4. Phases' = Phases
    BY <2>3 DEF Phases
  <2> QED
    BY <2>1, <2>4 DEF AC!vars, Phases
<1>13. ASSUME NEW w \in Writers, LockDatabase(w)
      PROVE  [AC!Next]_(AC!vars)
  <2>1. UNCHANGED <<disk, stored, request>>
    BY <1>13 DEF LockDatabase, durable
  <2>2. PhaseOf(w)' = PhaseOf(w)
    BY <1>13 DEF LockDatabase, TypeOK, PhaseOf
  <2>3. Phases' = [Phases EXCEPT ![w] = PhaseOf(w)]
    BY <1>13, <2>2, PhasesExcept DEF LockDatabase, TypeOK
  <2>4. Phases' = Phases
    BY <2>3 DEF Phases
  <2> QED
    BY <2>1, <2>4 DEF AC!vars, Phases
<1>14. ASSUME NEW w \in Writers, Mutate(w)
      PROVE  [AC!Next]_(AC!vars)
  <2>1. UNCHANGED <<disk, stored, request>>
    BY <1>14 DEF Mutate, durable
  <2>2. PhaseOf(w) = "asked"
    BY <1>14 DEF Mutate, TypeOK, PhaseOf
  <2>3. PhaseOf(w)' \in {"asked", "refused"}
    BY <1>14 DEF Mutate, TypeOK, PhaseOf
  <2>4. Phases' = [Phases EXCEPT ![w] = PhaseOf(w)']
    BY <1>14, PhasesExcept DEF Mutate, TypeOK
  <2>5. CASE PhaseOf(w)' = "asked"
    <3>1. Phases' = Phases
      BY <2>2, <2>4, <2>5 DEF Phases
    <3> QED
      BY <2>1, <3>1 DEF AC!vars, Phases
  <2>6. CASE PhaseOf(w)' = "refused"
    <3>1. AC!Refuse(w)
      BY <2>1, <2>2, <2>4, <2>6 DEF AC!Refuse, Phases
    <3> QED
      BY <3>1 DEF AC!Next
  <2> QED
    BY <2>3, <2>5, <2>6
<1>15. ASSUME NEW w \in Writers, Ensure(w)
      PROVE  [AC!Next]_(AC!vars)
  <2>1. UNCHANGED <<disk, stored, request>>
    BY <1>15 DEF Ensure, durable
  <2>2. PhaseOf(w) = "asked"
    BY <1>15 DEF Ensure, TypeOK, PhaseOf
  <2>3. PhaseOf(w)' \in {"asked", "refused"}
    BY <1>15 DEF Ensure, TypeOK, PhaseOf
  <2>4. Phases' = [Phases EXCEPT ![w] = PhaseOf(w)']
    BY <1>15, PhasesExcept DEF Ensure, TypeOK
  <2>5. CASE PhaseOf(w)' = "asked"
    <3>1. Phases' = Phases
      BY <2>2, <2>4, <2>5 DEF Phases
    <3> QED
      BY <2>1, <3>1 DEF AC!vars, Phases
  <2>6. CASE PhaseOf(w)' = "refused"
    <3>1. AC!Refuse(w)
      BY <2>1, <2>2, <2>4, <2>6 DEF AC!Refuse, Phases
    <3> QED
      BY <3>1 DEF AC!Next
  <2> QED
    BY <2>3, <2>5, <2>6
<1>16. ASSUME NEW w \in Writers, Commit(w)
      PROVE  [AC!Next]_(AC!vars)
  <2>1. /\ pc[w] = "commit" /\ pc' = [pc EXCEPT ![w] = "publish"]
        /\ disk' = draft[w] /\ stored' = TRUE /\ UNCHANGED <<request, answer>>
    BY <1>16 DEF Commit
  <2>2. PhaseOf(w) = "asked" /\ PhaseOf(w)' = "applied"
    BY <2>1 DEF TypeOK, PhaseOf
  <2>3. Phases' = [Phases EXCEPT ![w] = "applied"]
    BY <2>1, <2>2, PhasesExcept DEF TypeOK
  <2>4. config = disk
    BY <2>1, <1>16, OneWriter DEF Commit, Contents, MemoryFollows, Loaded
  <2>5. ~ Refused(request[w], disk) /\ disk' = Mutated(request[w], disk)
    BY <2>1, <2>4 DEF Contents, WriterDraft
  <2>6. AC!Apply(w)
    BY <2>1, <2>2, <2>3, <2>5, SameData DEF AC!Apply, Phases
  <2> QED
    BY <2>6 DEF AC!Next
<1>17. ASSUME NEW w \in Writers, RollBack(w)
      PROVE  [AC!Next]_(AC!vars)
  <2>1. UNCHANGED <<disk, stored, request>>
    BY <1>17 DEF RollBack, durable
  <2>2. PhaseOf(w) = "asked"
    BY <1>17 DEF RollBack, TypeOK, PhaseOf
  <2>3. PhaseOf(w)' \in {"asked", "refused"}
    BY <1>17 DEF RollBack, TypeOK, PhaseOf
  <2>4. Phases' = [Phases EXCEPT ![w] = PhaseOf(w)']
    BY <1>17, PhasesExcept DEF RollBack, TypeOK
  <2>5. CASE PhaseOf(w)' = "asked"
    <3>1. Phases' = Phases
      BY <2>2, <2>4, <2>5 DEF Phases
    <3> QED
      BY <2>1, <3>1 DEF AC!vars, Phases
  <2>6. CASE PhaseOf(w)' = "refused"
    <3>1. AC!Refuse(w)
      BY <2>1, <2>2, <2>4, <2>6 DEF AC!Refuse, Phases
    <3> QED
      BY <3>1 DEF AC!Next
  <2> QED
    BY <2>3, <2>5, <2>6
<1>18. ASSUME NEW w \in Writers, Publish(w)
      PROVE  [AC!Next]_(AC!vars)
  <2>1. UNCHANGED <<disk, stored, request>>
    BY <1>18 DEF Publish, durable
  <2>2. PhaseOf(w)' = PhaseOf(w)
    BY <1>18 DEF Publish, TypeOK, PhaseOf
  <2>3. Phases' = [Phases EXCEPT ![w] = PhaseOf(w)]
    BY <1>18, <2>2, PhasesExcept DEF Publish, TypeOK
  <2>4. Phases' = Phases
    BY <2>3 DEF Phases
  <2> QED
    BY <2>1, <2>4 DEF AC!vars, Phases
<1>19. ASSUME NEW w \in Writers, Release(w)
      PROVE  [AC!Next]_(AC!vars)
  <2>1. /\ pc[w] = "release" /\ pc' = [pc EXCEPT ![w] = "idle"]
        /\ answer' = [answer EXCEPT ![w] = "ok"]
        /\ UNCHANGED <<disk, stored, request>>
    BY <1>19 DEF Release, durable
  <2>2. PhaseOf(w) \in {"applied", "refused"} /\ PhaseOf(w)' = "idle"
    BY <2>1 DEF TypeOK, PhaseOf
  <2>3. Phases' = [Phases EXCEPT ![w] = "idle"]
    BY <2>1, <2>2, PhasesExcept DEF TypeOK
  <2>4. AC!Answer(w)
    BY <2>1, <2>2, <2>3 DEF AC!Answer, Phases
  <2> QED
    BY <2>4 DEF AC!Next
<1>20. ASSUME NEW g \in Loggers, LockLog(g)
      PROVE  [AC!Next]_(AC!vars)
  <2>1. UNCHANGED <<disk, stored, request, pc, answer>>
    BY <1>20 DEF LockLog, durable, writing
  <2> QED
    BY <2>1, PhasesFrame DEF AC!vars, Phases
<1>21. ASSUME NEW g \in Loggers, EnsureLog(g)
      PROVE  [AC!Next]_(AC!vars)
  <2>1. UNCHANGED <<disk, stored, request, pc, answer>>
    BY <1>21 DEF EnsureLog, durable, writing
  <2> QED
    BY <2>1, PhasesFrame DEF AC!vars, Phases
<1>22. ASSUME NEW g \in Loggers, UseLog(g)
      PROVE  [AC!Next]_(AC!vars)
  <2>1. UNCHANGED <<disk, stored, request, pc, answer>>
    BY <1>22 DEF UseLog, durable, writing
  <2> QED
    BY <2>1, PhasesFrame DEF AC!vars, Phases
<1>23. ASSUME NEW g \in Loggers, ReleaseLog(g)
      PROVE  [AC!Next]_(AC!vars)
  <2>1. UNCHANGED <<disk, stored, request, pc, answer>>
    BY <1>23 DEF ReleaseLog, durable, writing
  <2> QED
    BY <2>1, PhasesFrame DEF AC!vars, Phases
<1>24. ASSUME UNCHANGED vars
      PROVE  [AC!Next]_(AC!vars)
  <2>1. UNCHANGED <<disk, stored, request, pc, answer>>
    BY <1>24 DEF vars, durable, writing
  <2> QED
    BY <2>1, PhasesFrame DEF AC!vars, Phases
<1> QED
  BY <1>1, <1>2, <1>3, <1>4, <1>5, <1>6, <1>7, <1>8, <1>9, <1>10, <1>11, <1>12, <1>13, <1>14, <1>15, <1>16, <1>17, <1>18, <1>19, <1>20, <1>21, <1>22, <1>23, <1>24
  DEF Next, Load, Update, Log

\* Every update is applied at one instant between request and answer, none is
\* lost or half applied, and a crash at any point leaves a configuration that
\* some order of the updates explains (store.go:47-91, 139-159).
THEOREM StoreImplementsAtomicConfig ==
  Spec => ImplementsAtomicConfig
<1>1. StoreInv /\ [Next]_vars => [AC!Next]_(AC!vars)
  BY RefinementStep DEF StoreInv
<1> QED
  BY <1>1, RefinementInit, StoreInvariant, PTL DEF Spec, ImplementsAtomicConfig, AC!Spec
=============================================================================
