---------------------------- MODULE MCMonitorPage ----------------------------
(* Instances of MonitorPage: on a quiet day one request is recorded while    *)
(* the user acts on the page, on a busy day all are and nobody looks.        *)
EXTENDS MonitorPage

\* Within two seconds, one of the instants a whole second.
MCInstants == {5, 10, 15}
\* The filter "from 1 s".
MCFilters == {10}
\* The filter "from 0 s", within whose second a request began.
StartOfSecond == {0}

\* The others have ended without a row, after the last restart.
QuietInit ==
    LET e == CHOOSE x \in Entries : TRUE IN
        /\ startedAt \in {[f \in Entries |-> IF f = e THEN t ELSE 5] : t \in {5, 15}}
        /\ writer = [f \in Entries |-> IF f = e THEN "serving" ELSE "done"]
        /\ rows = {} /\ requestWrites = 0 /\ debt = 0
        /\ restarts = MaxRestarts
        /\ PageInit /\ clicks = 0

BusyInit == LogInit /\ PageInit /\ clicks = MaxClicks

MCSpec == (QuietInit \/ BusyInit) /\ [][Next]_vars /\ Fairness
=============================================================================
