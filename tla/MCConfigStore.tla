---------------------------- MODULE MCConfigStore ----------------------------
(* A small instance of ConfigStore: the values a data directory of an older  *)
(* version, an environment and four administrators' requests can have.       *)
EXTENDS ConfigStore, TLC

CONSTANTS t1, t2, s1, s2, p1, p2, f1, f2, k1, k2, a1

\* config.json: one provider, a proxy token, no administrator token.
OldConfig ==
  [admin |-> None, proxy |-> s1,
   providers |-> {[id |-> p1, form |-> f1, apiKey |-> a1]}, keys |-> {}]

\* One request of each kind; made twice at once, those that add compete for an
\* id, a secret or a row.  The key of secret s1 may be the one Load made.
MCOps ==
  { [kind |-> "setAdmin", token |-> t2],
    [kind |-> "addProvider", id |-> p2, form |-> f1, apiKey |-> None],
    [kind |-> "updateProvider", id |-> p1, form |-> f2, apiKey |-> None, submitted |-> FALSE],
    [kind |-> "deleteProvider", id |-> p1],
    [kind |-> "addKey", id |-> k1, secret |-> s1],
    [kind |-> "updateKey", id |-> k1, enabled |-> FALSE],
    [kind |-> "deleteKey", id |-> LegacyKeyId] }

\* Fewer requests, for two instances on one directory.
FewOps ==
  { [kind |-> "setAdmin", token |-> t2],
    [kind |-> "updateProvider", id |-> p1, form |-> f2, apiKey |-> None, submitted |-> FALSE],
    [kind |-> "addKey", id |-> k2, secret |-> s2] }
=============================================================================
