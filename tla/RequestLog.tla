----------------------------- MODULE RequestLog -----------------------------
(***************************************************************************)
(* The request log of src/internal/store/store.go: the table request_logs, *)
(* the proxied requests that each write one row when they end, and the     *)
(* trimming that every Batch-th write performs.  Many requests end at      *)
(* once: insert, count and trim are separate steps of each of them.        *)
(*                                                                         *)
(* An instant is a number of tenths of a second.  The column started_at    *)
(* is TEXT in the format RFC3339Nano, which drops trailing zeros and with  *)
(* them the point of a whole second, and SQLite compares it as text.  All  *)
(* that matters of a row is which request wrote it and when that began.    *)
(***************************************************************************)
EXTENDS Integers, FiniteSets

CONSTANTS
    Entries,        \* the requests, each of which is recorded once
    Instants,       \* when a request may have begun, in tenths of a second
    Keep,           \* rows a trim leaves (10000)
    Batch,          \* writes from one trim to the next (100)
    MaxRestarts     \* bound: restarts of the process

ASSUME RequestLogAssumption ==
    /\ IsFiniteSet(Entries)
    /\ Instants \subseteq Nat
    /\ Keep \in Nat \ {0} /\ Batch \in Nat \ {0} /\ MaxRestarts \in Nat

VARIABLES
    startedAt,      \* request -> the instant it began
    writer,         \* request -> how far its AddRequestLog has come
    rows,           \* the requests that have a row in request_logs
    requestWrites,  \* Store.requestWrites
    restarts,
    debt            \* history: rows that lost or failed trims may have left

logVars == <<startedAt, writer, rows, requestWrites, restarts, debt>>

Stages == {"serving", "inserted", "trimming", "done"}

(* The order of the stored texts: "05Z" sorts after "05.9Z", because '.'   *)
(* comes before 'Z'; fractions sort as their digits.                        *)
TextKey(t) == 11 * (t \div 10) + IF t % 10 = 0 THEN 10 ELSE t % 10

RowKey(e) == TextKey(startedAt[e])

LeastOf(a, b) == IF a <= b THEN a ELSE b

(* top holds the first n of S in ORDER BY started_at DESC; SQLite promises  *)
(* no order among equal texts.                                              *)
AreFirst(top, S, n) ==
    /\ top \subseteq S
    /\ Cardinality(top) = LeastOf(n, Cardinality(S))
    /\ \A e \in top, f \in S \ top : RowKey(f) <= RowKey(e)

LogInit ==
    /\ startedAt \in [Entries -> Instants]
    /\ writer = [e \in Entries |-> "serving"]
    /\ rows = {}
    /\ requestWrites = 0
    /\ restarts = 0
    /\ debt = 0

WriterAt(stage) == {e \in Entries : writer[e] = stage}

(***************************************************************************)
(* AddRequestLog, step by step.                                            *)
(***************************************************************************)
Insert(e) ==
    /\ writer[e] = "serving"
    /\ rows' = rows \cup {e}
    /\ writer' = [writer EXCEPT ![e] = "inserted"]
    /\ UNCHANGED <<startedAt, requestWrites, restarts, debt>>

(* The database is closed, busy or broken: recordRequest logs it, no more. *)
InsertFails(e) ==
    /\ writer[e] = "serving"
    /\ writer' = [writer EXCEPT ![e] = "done"]
    /\ UNCHANGED <<startedAt, rows, requestWrites, restarts, debt>>

(* For a mutant: off by one.                                               *)
TrimDueAtOne(writes) == writes % Batch = 1 \/ Batch = 1

TrimDue(writes) == writes % Batch = 0

CountWrite(e) ==
    /\ writer[e] = "inserted"
    /\ requestWrites' = requestWrites + 1
    /\ writer' = [writer EXCEPT ![e] =
                     IF TrimDue(requestWrites') THEN "trimming" ELSE "done"]
    /\ UNCHANGED <<startedAt, rows, restarts, debt>>

(* For a mutant: ORDER BY started_at, ascending.                           *)
KeptOldest ==
    {top \in SUBSET rows :
        /\ Cardinality(top) = LeastOf(Keep, Cardinality(rows))
        /\ \A e \in top, f \in rows \ top : RowKey(e) <= RowKey(f)}

(* What the DELETE keeps: everything but the rows from OFFSET Keep on.      *)
Kept == {top \in SUBSET rows : AreFirst(top, rows, Keep)}

Trim(e) ==
    /\ writer[e] = "trimming"
    /\ rows' \in Kept
    /\ writer' = [writer EXCEPT ![e] = "done"]
    /\ debt' = 0
    /\ UNCHANGED <<startedAt, requestWrites, restarts>>

TrimFails(e) ==
    /\ writer[e] = "trimming"
    /\ writer' = [writer EXCEPT ![e] = "done"]
    /\ debt' = debt + Batch
    /\ UNCHANGED <<startedAt, rows, requestWrites, restarts>>

ClearRequestLogs ==
    /\ rows # {}
    /\ rows' = {}
    /\ UNCHANGED <<startedAt, writer, requestWrites, restarts, debt>>

(* Rows not yet covered by a completed trim.                               *)
Unsettled ==
    (requestWrites % Batch) + Cardinality(WriterAt("inserted"))
        + Batch * Cardinality(WriterAt("trimming"))

(* The counter lives in memory: after a restart it starts from zero.       *)
RestartProcess ==
    /\ restarts < MaxRestarts
    /\ restarts' = restarts + 1
    /\ requestWrites' = 0
    /\ writer' = [e \in Entries |->
                     IF writer[e] = "serving" THEN "serving" ELSE "done"]
    /\ debt' = debt + Unsettled
    /\ UNCHANGED <<startedAt, rows>>

WriterStep(e) ==
    \/ Insert(e) \/ InsertFails(e) \/ CountWrite(e) \/ Trim(e) \/ TrimFails(e)

LogNext == (\E e \in Entries : WriterStep(e)) \/ ClearRequestLogs \/ RestartProcess

LogSpec == LogInit /\ [][LogNext]_logVars

(* Every variable has its type.                                            *)
LogTypeOK ==
    /\ startedAt \in [Entries -> Instants]
    /\ writer \in [Entries -> Stages]
    /\ rows \subseteq Entries
    /\ requestWrites \in Nat
    /\ restarts \in 0..MaxRestarts
    /\ debt \in Nat

(* The table never holds more than Keep rows and those written since the   *)
(* last trim: concurrent writers, a clear in between and a failed insert   *)
(* do not let it grow beyond what the counter accounts for.  Only a trim   *)
(* that failed or a restart that forgot the counter leaves more, once      *)
(* (store.go:323-328).                                                      *)
RetentionBound == Cardinality(rows) <= Keep + Unsettled + debt

(* A trim removes the oldest rows, to the second: no row goes while one    *)
(* that began in an earlier second stays (store.go:326-328).                *)
TrimsTheOldest ==
    [][\A kept \in rows', gone \in rows \ rows' :
          startedAt[gone] \div 10 <= startedAt[kept] \div 10]_logVars
=============================================================================
