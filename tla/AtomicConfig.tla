---------------------------- MODULE AtomicConfig ----------------------------
(***************************************************************************)
(* What the configuration store promises: one durable configuration.  Each *)
(* update that succeeds is applied to it in one step between the moment it *)
(* is asked for and the moment it is answered, one that is refused leaves  *)
(* it alone, and it survives a crash.  The configuration left by an older  *)
(* version is imported only while nothing has ever been stored.            *)
(***************************************************************************)
EXTENDS ConfigData

CONSTANTS Writers, LegacyConfig, EnvToken

VARIABLES
  value,    \* the configuration
  stored,   \* whether anything has ever been stored
  phase,    \* phase[w] \in {"idle", "asked", "applied", "refused"}
  request   \* request[w]: the update w asks for

vars == <<value, stored, phase, request>>

Init ==
  /\ value = EmptyConfig
  /\ stored = FALSE
  /\ phase = [w \in Writers |-> "idle"]
  /\ request = [w \in Writers |-> CHOOSE op \in Ops : TRUE]

Ask(w, op) ==
  /\ phase[w] = "idle"
  /\ phase' = [phase EXCEPT ![w] = "asked"]
  /\ request' = [request EXCEPT ![w] = op]
  /\ UNCHANGED <<value, stored>>

Apply(w) ==
  /\ phase[w] = "asked"
  /\ ~ Refused(request[w], value)
  /\ value' = Mutated(request[w], value)
  /\ stored' = TRUE
  /\ phase' = [phase EXCEPT ![w] = "applied"]
  /\ UNCHANGED request

Refuse(w) ==
  /\ phase[w] = "asked"
  /\ phase' = [phase EXCEPT ![w] = "refused"]
  /\ UNCHANGED <<value, stored, request>>

Answer(w) ==
  /\ phase[w] \in {"applied", "refused"}
  /\ phase' = [phase EXCEPT ![w] = "idle"]
  /\ UNCHANGED <<value, stored, request>>

\* At a start: import the legacy configuration once, turn a proxy token into a
\* key, set the administrator token of the environment if there is none.
Import ==
  /\ ~ stored
  /\ value' = LegacyConfig
  /\ stored' = TRUE
  /\ UNCHANGED <<phase, request>>

Migrate ==
  /\ value' = ProxyTokenMigrated(value)
  /\ UNCHANGED <<stored, phase, request>>

SetToken ==
  /\ value.admin = None
  /\ value' = [value EXCEPT !.admin = EnvToken]
  /\ stored' = TRUE
  /\ UNCHANGED <<phase, request>>

\* A crash forgets who asked for what, and nothing else.
Crash ==
  /\ phase' = [w \in Writers |-> "idle"]
  /\ UNCHANGED <<value, stored, request>>

Next ==
  \/ \E w \in Writers :
       \/ \E op \in Ops : Ask(w, op)
       \/ Apply(w) \/ Refuse(w) \/ Answer(w)
  \/ Import \/ Migrate \/ SetToken \/ Crash

Spec == Init /\ [][Next]_vars
=============================================================================
