----------------------------- MODULE ConfigData -----------------------------
(***************************************************************************)
(* The gateway configuration (internal/model/config.go) and the mutations  *)
(* the store applies to it (the callers of Store.Update in                 *)
(* internal/store/store.go), as values: what each mutation refuses and     *)
(* what it makes of a configuration.  A provider keeps its key apart from  *)
(* the rest of its fields (name, base URL, models, enabled), which a form  *)
(* submits together and which is one value here.  Order within the lists   *)
(* is left out: no property of the store depends on it.                    *)
(***************************************************************************)
EXTENDS Integers

CONSTANTS
  Tokens,       \* administrator tokens
  Secrets,      \* access key secrets
  ProviderIds, Forms, ApiKeys,
  KeyIds,       \* ids the server generates for access keys
  LegacyKeyId,  \* "legacy-proxy-token"
  None,         \* an empty string, or a field that was not submitted
  Ops           \* the mutations that are asked for

ASSUME DataAssumption ==
  /\ None \notin Tokens \cup Secrets \cup ApiKeys
  /\ LegacyKeyId \notin KeyIds

Providers == [id : ProviderIds, form : Forms, apiKey : ApiKeys \cup {None}]
AccessKeys == [id : KeyIds \cup {LegacyKeyId}, secret : Secrets, enabled : BOOLEAN]

Configs == [admin     : Tokens \cup {None},
            proxy     : Secrets \cup {None},
            providers : SUBSET Providers,
            keys      : SUBSET AccessKeys]

EmptyConfig == [admin |-> None, proxy |-> None, providers |-> {}, keys |-> {}]

AllOps ==
       [kind : {"setAdmin"}, token : Tokens \cup {None}]
  \cup [kind : {"addProvider"}, id : ProviderIds, form : Forms, apiKey : ApiKeys \cup {None}]
  \cup [kind : {"updateProvider"}, id : ProviderIds, form : Forms,
        apiKey : ApiKeys \cup {None}, submitted : BOOLEAN]
  \cup [kind : {"deleteProvider"}, id : ProviderIds]
  \cup [kind : {"addKey"}, id : KeyIds, secret : Secrets]
  \cup [kind : {"updateKey"}, id : KeyIds \cup {LegacyKeyId}, enabled : BOOLEAN]
  \cup [kind : {"deleteKey"}, id : KeyIds \cup {LegacyKeyId}]

ASSUME OpsAssumption == Ops \subseteq AllOps /\ Ops # {}

HasProvider(c, id)   == \E p \in c.providers : p.id = id
HasSecret(c, secret) == \E k \in c.keys : k.secret = secret

\* Mutant: a secret that is already registered is registered again.
RefusedNoDuplicateCheck(op, c) ==
  \/ op.kind = "addProvider" /\ HasProvider(c, op.id)
  \/ op.kind \in {"updateProvider", "deleteProvider"} /\ ~ HasProvider(c, op.id)

\* The mutations that return an error and leave the configuration alone.
Refused(op, c) ==
  \/ op.kind = "addProvider" /\ HasProvider(c, op.id)
  \/ op.kind \in {"updateProvider", "deleteProvider"} /\ ~ HasProvider(c, op.id)
  \/ op.kind = "addKey" /\ HasSecret(c, op.secret)

\* A new key is enabled; an update keeps a provider's key unless one was
\* submitted; updating or deleting a key that is not there changes nothing.
Mutated(op, c) ==
  CASE op.kind = "setAdmin" -> [c EXCEPT !.admin = op.token]
    [] op.kind = "addProvider" ->
         [c EXCEPT !.providers =
            @ \cup {[id |-> op.id, form |-> op.form, apiKey |-> op.apiKey]}]
    [] op.kind = "updateProvider" ->
         [c EXCEPT !.providers =
            {IF p.id # op.id THEN p
             ELSE [id |-> op.id, form |-> op.form,
                   apiKey |-> IF op.submitted THEN op.apiKey ELSE p.apiKey] : p \in @}]
    [] op.kind = "deleteProvider" ->
         [c EXCEPT !.providers = {p \in @ : p.id # op.id}]
    [] op.kind = "addKey" ->
         [c EXCEPT !.keys =
            @ \cup {[id |-> op.id, secret |-> op.secret, enabled |-> TRUE]}]
    [] op.kind = "updateKey" ->
         [c EXCEPT !.keys =
            {IF k.id # op.id THEN k ELSE [k EXCEPT !.enabled = op.enabled] : k \in @}]
    [] op.kind = "deleteKey" -> [c EXCEPT !.keys = {k \in @ : k.id # op.id}]

\* What the tables' primary keys accept.
Storable(c) ==
  /\ \A p, q \in c.providers : p.id = q.id => p = q
  /\ \A k, l \in c.keys : k.id = l.id => k = l

\* Load turns a stored proxy token into an access key, unless its secret is
\* one already.
ProxyTokenMigrated(c) ==
  IF c.proxy = None THEN c
  ELSE [c EXCEPT !.proxy = None,
                 !.keys = IF HasSecret(c, c.proxy) THEN @
                          ELSE @ \cup {[id |-> LegacyKeyId, secret |-> c.proxy,
                                        enabled |-> TRUE]}]
=============================================================================
