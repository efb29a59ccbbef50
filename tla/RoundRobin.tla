----------------------------- MODULE RoundRobin -----------------------------
(***************************************************************************)
(* What the router promises its callers, without its mutex, its loop or    *)
(* its status codes.  A request for an exposed name draws ONE turn in one  *)
(* indivisible step: the turn after the one drawn before it, folded into   *)
(* the request's own target list, whose length may differ from that of the *)
(* request before (the configuration changes between requests).  It then   *)
(* visits targets it has not visited yet, the drawn one first, until one   *)
(* of them serves it, one of them makes it give up, or none is left.       *)
(***************************************************************************)
EXTENDS Integers

CONSTANTS
  Requests,    \* the requests that are routed
  Names,       \* the exposed model names they ask for
  MaxTargets   \* the longest target list a name has

VARIABLES
  next,        \* next[n]: the turn the next request for n draws
  phase,       \* phase[r] \in {"idle", "trying", "served", "refused"}
  turn,        \* turn[r]: the turn r drew
  untried      \* untried[r]: the targets r has not visited yet

vars == <<next, phase, turn, untried>>

Init ==
  /\ next    = [n \in Names |-> 0]
  /\ phase   = [r \in Requests |-> "idle"]
  /\ turn    = [r \in Requests |-> 0]
  /\ untried = [r \in Requests |-> {}]

\* A name without targets refuses the request and takes no turn.
RefuseEmpty(r) ==
  /\ phase[r] = "idle"
  /\ phase' = [phase EXCEPT ![r] = "refused"]
  /\ UNCHANGED <<next, turn, untried>>

\* Draw a turn among L targets and pass the next one on.
Draw(r, n, L) ==
  LET drawn == IF next[n] >= L THEN 0 ELSE next[n] IN
  /\ phase[r] = "idle"
  /\ next'    = [next EXCEPT ![n] = IF drawn + 1 = L THEN 0 ELSE drawn + 1]
  /\ turn'    = [turn EXCEPT ![r] = drawn]
  /\ untried' = [untried EXCEPT ![r] = 0 .. L - 1]
  /\ phase'   = [phase EXCEPT ![r] = "trying"]

\* Visit target t: never twice, and the drawn one before any other.
Visit(r, t) ==
  /\ phase[r] = "trying"
  /\ t \in untried[r]
  /\ turn[r] \in untried[r] => t = turn[r]
  /\ untried' = [untried EXCEPT ![r] = @ \ {t}]
  /\ UNCHANGED <<next, turn>>

Serve(r, t)   == Visit(r, t) /\ phase' = [phase EXCEPT ![r] = "served"]
GiveUp(r, t)  == Visit(r, t) /\ phase' = [phase EXCEPT ![r] = "refused"]
TryNext(r, t) == /\ Visit(r, t)
                 /\ untried'[r] # {}
                 /\ UNCHANGED phase

Next ==
  \E r \in Requests :
    \/ RefuseEmpty(r)
    \/ \E n \in Names, L \in 1 .. MaxTargets : Draw(r, n, L)
    \/ \E t \in 0 .. MaxTargets - 1 : Serve(r, t) \/ GiveUp(r, t) \/ TryNext(r, t)

Spec == Init /\ [][Next]_vars
=============================================================================
