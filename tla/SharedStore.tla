----------------------------- MODULE SharedStore -----------------------------
(***************************************************************************)
(* Two instances of the program on one data directory (README.md:21: they  *)
(* share its configuration and database).  Each keeps a copy of the        *)
(* configuration in memory and writes it whole.  One is ConfigStore, step  *)
(* by step; of the other only what reaches the shared tables is here, its  *)
(* Load and its Updates, as one step each.                                 *)
(***************************************************************************)
EXTENDS ConfigStore

VARIABLE foreign    \* Store.config of the other instance, or None

sharedVars == <<vars, foreign>>

SharedInit == Init /\ foreign = None

ForeignLoad ==
  /\ life = "serving" /\ foreign = None
  /\ foreign' = ProxyTokenMigrated(disk)
  /\ disk' = ProxyTokenMigrated(disk)
  /\ UNCHANGED <<stored, file, life, config, handle, locks, writing, logging, counters>>

ForeignUpdate(op) ==
  /\ foreign # None /\ updates < MaxUpdates
  /\ ~ Refused(op, foreign)
  /\ foreign' = Mutated(op, foreign)
  /\ disk' = foreign' /\ stored' = TRUE
  /\ updates' = updates + 1
  /\ UNCHANGED <<file, life, config, handle, locks, writing, logging, logs, crashes>>

SharedNext ==
  \/ Next /\ UNCHANGED foreign
  \/ ForeignLoad \/ \E op \in Ops : ForeignUpdate(op)

SharedSpec == SharedInit /\ [][SharedNext]_sharedVars

-----------------------------------------------------------------------------
\* store.go:186, "AddProvider persists a provider without overwriting
\* concurrent config changes": what a commit changes on disk is what its own
\* update asked for.
ChangesOnlyWhatIsAsked ==
  [][ \A w \in Writers :
        pc[w] = "commit" /\ pc'[w] = "publish" => disk' = Mutated(request[w], disk) ]_sharedVars
=============================================================================
