------------------------------- MODULE Router -------------------------------
(***************************************************************************)
(* internal/routing/router.go: Router.Execute run by concurrent requests.  *)
(* Each request walks the snapshot of targets it was given, from a cursor  *)
(* shared by every request for the same exposed name and guarded by a      *)
(* mutex.  The snapshot is taken by the caller from the configuration of   *)
(* that moment, so its length differs from request to request.  The cursor *)
(* map has no entry for a name until it is first advanced; Go reads a      *)
(* missing entry as 0.  Targets are their indices 0 .. length-1.           *)
(***************************************************************************)
EXTENDS Integers, Sequences

CONSTANTS
  Requests,    \* concurrent calls of Execute
  Names,       \* exposed model names
  MaxTargets,  \* longest target list: bounds the model
  Statuses,    \* statuses an upstream can answer with
  Free         \* the mutex is not held

ASSUME RouterAssumption ==
  /\ MaxTargets \in Nat \ {0}
  /\ Statuses \subseteq Nat
  /\ Free \notin Requests

VARIABLES
  mutex,     \* Router.mutex: its holder, or Free
  cursor,    \* Router.cursor
  pc,        \* where each Execute is
  name,      \* exposed.Name
  length,    \* len(exposed.Targets)
  start,     \* start
  offset,    \* loop variable
  last,      \* last.Status
  attempts,  \* history: the calls made, <<[target, status, ok], ...>>
  turns      \* history: per name, the starts handed out, in order

vars == <<mutex, cursor, pc, name, length, start, offset, last, attempts, turns>>

\* What one call returns: a result, an *upstream.Failure or another error.
Outcomes == [kind : {"result", "failure", "error"}, status : Statuses]

Succeeds(o) == o.kind = "result" /\ o.status \in 200 .. 299

\* The status Execute takes from an outcome that is not a success.
FailureStatus(o) ==
  IF o.kind = "result" \/ (o.kind = "failure" /\ o.status # 0)
    THEN o.status
    ELSE 502

IsSwitchableStatus(status) ==
  status \in {0, 401, 403, 404, 408, 429} \/ status >= 500

Init ==
  /\ mutex    = Free
  /\ cursor   = [n \in Names |-> 0]
  /\ pc       = [r \in Requests |-> "idle"]
  /\ name     \in [Requests -> Names]
  /\ length   \in [Requests -> 0 .. MaxTargets]
  /\ start    = [r \in Requests |-> 0]
  /\ offset   = [r \in Requests |-> 0]
  /\ last     = [r \in Requests |-> 503]
  /\ attempts = [r \in Requests |-> <<>>]
  /\ turns    = [n \in Names |-> <<>>]

-----------------------------------------------------------------------------
\* Execute is entered: without targets it fails at once.
Enter(r) ==
  /\ pc[r] = "idle"
  /\ pc' = [pc EXCEPT ![r] = IF length[r] = 0 THEN "failed" ELSE "advance"]
  /\ UNCHANGED <<mutex, cursor, name, length, start, offset, last, attempts, turns>>

\* Mutant: the mutex is not waited for.
ReadCursorUnlocked(r) ==
  /\ pc[r] = "advance"
  /\ mutex' = r
  /\ start' = [start EXCEPT ![r] = IF cursor[name[r]] >= length[r]
                                     THEN 0 ELSE cursor[name[r]]]
  /\ pc' = [pc EXCEPT ![r] = "store"]
  /\ UNCHANGED <<cursor, name, length, offset, last, attempts, turns>>

\* advance, first half: take the mutex, read the cursor, fold it into the
\* caller's own list.
ReadCursor(r) ==
  /\ pc[r] = "advance"
  /\ mutex = Free
  /\ mutex' = r
  /\ start' = [start EXCEPT ![r] = IF cursor[name[r]] >= length[r]
                                     THEN 0 ELSE cursor[name[r]]]
  /\ pc' = [pc EXCEPT ![r] = "store"]
  /\ UNCHANGED <<cursor, name, length, offset, last, attempts, turns>>

\* advance, second half: store the successor and release the mutex.
StoreCursor(r) ==
  /\ pc[r] = "store"
  /\ cursor' = [cursor EXCEPT ![name[r]] = (start[r] + 1) % length[r]]
  /\ mutex' = Free
  /\ turns' = [turns EXCEPT ![name[r]] =
                 Append(@, [start |-> start[r], length |-> length[r]])]
  /\ pc' = [pc EXCEPT ![r] = "call"]
  /\ UNCHANGED <<name, length, start, offset, last, attempts>>

\* Mutant: the walk does not wrap around the list.
TargetNoWrap(r) == start[r] + offset[r]

\* Mutant: every walk begins with the first target.
TargetFromFirst(r) == offset[r]

Target(r) == (start[r] + offset[r]) % length[r]

Attempted(r, o) ==
  attempts' = [attempts EXCEPT ![r] =
     Append(@, [target |-> Target(r), ok |-> Succeeds(o),
                status |-> IF Succeeds(o) THEN o.status ELSE FailureStatus(o)])]

\* call returns a 2xx result: Execute returns it.
CallSucceeds(r, o) ==
  /\ pc[r] = "call"
  /\ Succeeds(o)
  /\ Attempted(r, o)
  /\ pc' = [pc EXCEPT ![r] = "served"]
  /\ UNCHANGED <<mutex, cursor, name, length, start, offset, last, turns>>

\* call returns a status that does not justify another provider.
CallRefused(r, o) ==
  /\ pc[r] = "call"
  /\ ~ Succeeds(o)
  /\ ~ IsSwitchableStatus(FailureStatus(o))
  /\ Attempted(r, o)
  /\ last' = [last EXCEPT ![r] = FailureStatus(o)]
  /\ pc' = [pc EXCEPT ![r] = "failed"]
  /\ UNCHANGED <<mutex, cursor, name, length, start, offset, turns>>

\* Mutant: any failure moves on to the next target.
CallSwitchesAlways(r, o) ==
  /\ pc[r] = "call"
  /\ ~ Succeeds(o)
  /\ Attempted(r, o)
  /\ last' = [last EXCEPT ![r] = FailureStatus(o)]
  /\ offset' = [offset EXCEPT ![r] = @ + 1]
  /\ pc' = [pc EXCEPT ![r] = IF offset[r] + 1 < length[r] THEN "call" ELSE "failed"]
  /\ UNCHANGED <<mutex, cursor, name, length, start, turns>>

\* call returns a switchable failure: the loop goes on, or has no target left.
CallSwitches(r, o) ==
  /\ pc[r] = "call"
  /\ ~ Succeeds(o)
  /\ IsSwitchableStatus(FailureStatus(o))
  /\ Attempted(r, o)
  /\ last' = [last EXCEPT ![r] = FailureStatus(o)]
  /\ offset' = [offset EXCEPT ![r] = @ + 1]
  /\ pc' = [pc EXCEPT ![r] = IF offset[r] + 1 < length[r] THEN "call" ELSE "failed"]
  /\ UNCHANGED <<mutex, cursor, name, length, start, turns>>

Return(r) ==
  \E o \in Outcomes : CallSucceeds(r, o) \/ CallRefused(r, o) \/ CallSwitches(r, o)

Ended(r) == pc[r] \in {"served", "failed"}

\* Every request has been answered; nothing is left to do.
Quiescent ==
  /\ \A r \in Requests : Ended(r)
  /\ UNCHANGED vars

Step(r) == Enter(r) \/ ReadCursor(r) \/ StoreCursor(r) \/ Return(r)

Next == (\E r \in Requests : Step(r)) \/ Quiescent

Spec == Init /\ [][Next]_vars
-----------------------------------------------------------------------------
TypeOK ==
  /\ mutex    \in Requests \cup {Free}
  /\ cursor   \in [Names -> 0 .. MaxTargets - 1]
  /\ pc       \in [Requests -> {"idle", "advance", "store", "call", "served", "failed"}]
  /\ name     \in [Requests -> Names]
  /\ length   \in [Requests -> 0 .. MaxTargets]
  /\ start    \in [Requests -> 0 .. MaxTargets - 1]
  /\ offset   \in [Requests -> 0 .. MaxTargets]
  /\ last     \in [Requests -> Nat]
  /\ attempts \in [Requests ->
                     Seq([target : 0 .. MaxTargets - 1, ok : BOOLEAN, status : Nat])]
  /\ turns    \in [Names -> Seq([start : 0 .. MaxTargets - 1, length : 1 .. MaxTargets])]

\* No request calls one target twice, even when the cursor it started from was
\* stored by a request with a longer or shorter list; every target it calls is
\* in its own list (an index past it would panic in Go).
EachTargetOnce ==
  \A r \in Requests : \A i, j \in 1 .. Len(attempts[r]) :
    /\ attempts[r][i].target < length[r]
    /\ attempts[r][i].target = attempts[r][j].target => i = j

\* What FailoverDiscipline says of one request.
Disciplined(r) ==
  LET n == Len(attempts[r]) IN
  /\ \A i \in 1 .. n - 1 : /\ ~ attempts[r][i].ok
                           /\ IsSwitchableStatus(attempts[r][i].status)
  /\ pc[r] = "served" => n > 0 /\ attempts[r][n].ok
  /\ pc[r] = "failed" =>
       IF n = 0 THEN length[r] = 0 /\ last[r] = 503
       ELSE /\ ~ attempts[r][n].ok
            /\ last[r] = attempts[r][n].status
            /\ n = length[r] \/ ~ IsSwitchableStatus(last[r])

\* Execute goes past a target only after a failure that justifies it, stops at
\* the first success or refusal, fails only when the last attempt refused or no
\* target is left, and reports exactly the status of that last attempt.
FailoverDiscipline == \A r \in Requests : Disciplined(r)

\* The round robin is fair under concurrency: among consecutive requests for
\* one name with the same number L of targets, any L in a row start at L
\* different targets, whatever the interleaving of their advances.
FairTurns ==
  \A n \in Names : \A i, j \in 1 .. Len(turns[n]) :
    /\ i < j
    /\ \A k \in i .. j : turns[n][k].length = turns[n][i].length
    /\ j - i < turns[n][i].length
    => turns[n][i].start # turns[n][j].start

-----------------------------------------------------------------------------
\* The router implements RoundRobin: a turn is drawn when the cursor is stored.
Drawn(r) == pc[r] \notin {"idle", "advance", "store"}

PhaseOf(r) ==
  CASE pc[r] = "call"   -> "trying"
    [] pc[r] = "served" -> "served"
    [] pc[r] = "failed" -> "refused"
    [] OTHER            -> "idle"

TurnOf(r) == IF Drawn(r) THEN start[r] ELSE 0

UntriedOf(r) ==
  {t \in 0 .. length[r] - 1 :
     Drawn(r) /\ \A i \in 1 .. Len(attempts[r]) : attempts[r][i].target # t}

RR == INSTANCE RoundRobin WITH
  next    <- cursor,
  phase   <- [r \in Requests |-> PhaseOf(r)],
  turn    <- [r \in Requests |-> TurnOf(r)],
  untried <- [r \in Requests |-> UntriedOf(r)]

\* Each request draws its turn in one indivisible step and visits each target
\* of its list at most once, the drawn one first.
ImplementsRoundRobin == RR!Spec
=============================================================================
