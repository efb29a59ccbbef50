-------------------------- MODULE MonitorPageProofs --------------------------
(***************************************************************************)
(* The request log and the monitoring page that shows it, for any number   *)
(* of requests, any batch and any number of rows kept, and for any number  *)
(* of calls under way, filters, pages and clicks.                          *)
(*                                                                         *)
(* The log comes first.  Its bound is its own inductive invariant: at each *)
(* step of a writer what Unsettled gains or loses is what the table may.   *)
(* Trimming by text removes the oldest rows because the order of the texts *)
(* refines the order of the seconds.                                       *)
(*                                                                         *)
(* What the page shows once it is at rest depends on its loads: at most    *)
(* one is obeyed, it asks for what was chosen unless the page's watcher is *)
(* due, and it is the one that stops the spinner.                          *)
(***************************************************************************)
EXTENDS MonitorPage, FiniteSetTheorems, TLAPS

-----------------------------------------------------------------------------
(* THE REQUEST LOG.  Its inductive invariant.                              *)

\* The bound on the rows is inductive as it stands, given the types.
LogInv == LogTypeOK /\ RetentionBound

-----------------------------------------------------------------------------
(* Arithmetic.                                                             *)

\* Zero is the only multiple of B strictly between -B and B.
LEMMA MultipleOf ==
    ASSUME NEW B \in Nat \ {0}, NEW k \in Int, -B < B * k, B * k < B
    PROVE  k = 0
<1>1. ASSUME k >= 1 PROVE B * k >= B
  BY <1>1, SMT
<1>2. ASSUME k <= -1 PROVE B * k <= -B
  BY <1>2, SMT
<1> QED
  BY <1>1, <1>2, SMT

\* A number is its quotient times the divisor, and its remainder.
LEMMA Division ==
    ASSUME NEW B \in Nat \ {0}, NEW n \in Nat
    PROVE  /\ n % B \in 0 .. B - 1
           /\ n \div B \in Int
           /\ n = B * (n \div B) + (n % B)
    BY SMT

\* A remainder grows by one until it falls to zero: every Batch-th write trims.
LEMMA NextRemainder ==
    ASSUME NEW B \in Nat \ {0}, NEW n \in Nat
    PROVE  /\ n % B \in Nat /\ (n + 1) % B \in Nat
           /\ (n + 1) % B = 0 => n % B = B - 1
           /\ (n + 1) % B # 0 => (n + 1) % B = (n % B) + 1
<1> DEFINE r == n % B
           s == (n + 1) % B
           k == ((n + 1) \div B) - (n \div B)
<1>1. /\ r \in 0 .. B - 1 /\ s \in 0 .. B - 1 /\ k \in Int
      /\ B * k = r + 1 - s
  <2>1. /\ s \in 0 .. B - 1 /\ (n + 1) \div B \in Int
        /\ n + 1 = B * ((n + 1) \div B) + s
    BY n + 1 \in Nat, Division
  <2>2. /\ r \in 0 .. B - 1 /\ n \div B \in Int
        /\ n = B * (n \div B) + r
    BY Division
  <2> HIDE DEF r, s
  <2>3. B * k = B * ((n + 1) \div B) - B * (n \div B)
    BY <2>1, <2>2, SMT
  <2> QED
    BY <2>1, <2>2, <2>3, SMT
<1> HIDE DEF r, s, k
<1>2. CASE s = 0 /\ r < B - 1
  <2>1. -B < B * k /\ B * k < B /\ B * k # 0
    BY <1>1, <1>2, SMT
  <2>2. k = 0
    BY <1>1, <2>1, MultipleOf
  <2> QED
    BY <2>1, <2>2, SMT
<1>3. CASE s # 0
  <2>1. -B < B * k /\ B * k < B
    BY <1>1, <1>3, SMT
  <2>2. k = 0
    BY <1>1, <2>1, MultipleOf
  <2> QED
    BY <1>1, <1>3, <2>2, SMT DEF r, s
<1> QED
  BY <1>1, <1>2, <1>3, SMT DEF r, s

\* One more trim under way is one more batch.
LEMMA OneMoreTime ==
    ASSUME NEW B \in Nat, NEW n \in Nat
    PROVE  B * n \in Nat /\ B * (n + 1) = B * n + B
    BY SMT

\* A counter that starts again has nothing counted.
LEMMA ZeroRemainder == ASSUME NEW B \in Nat \ {0} PROVE 0 % B = 0 /\ B * 0 = 0
    BY SMT

(* Texts of a later second sort after those of an earlier one.             *)
LEMMA TextFollowsSeconds ==
    ASSUME NEW t \in Nat, NEW u \in Nat, TextKey(t) <= TextKey(u)
    PROVE  t \div 10 <= u \div 10
    BY SMT DEF TextKey

-----------------------------------------------------------------------------
(* Counting writers.                                                       *)

\* The writers at a stage can be counted.
LEMMA WritersFinite ==
    ASSUME NEW stage
    PROVE  /\ IsFiniteSet(WriterAt(stage))
           /\ Cardinality(WriterAt(stage)) \in Nat
<1>1. WriterAt(stage) \subseteq Entries
  BY DEF WriterAt
<1> QED
  BY <1>1, RequestLogAssumption, FS_Subset, FS_CardinalityType

\* The rows can be counted.
LEMMA RowsFinite ==
    ASSUME LogTypeOK
    PROVE  IsFiniteSet(rows) /\ Cardinality(rows) \in Nat
  BY RequestLogAssumption, FS_Subset, FS_CardinalityType DEF LogTypeOK

\* What is not yet settled by a trim is a number.
LEMMA Unsettles ==
    ASSUME LogTypeOK
    PROVE  /\ requestWrites % Batch \in Nat
           /\ Batch * Cardinality(WriterAt("trimming")) \in Nat
           /\ Unsettled \in Nat
<1>1. requestWrites % Batch \in Nat
  BY NextRemainder, RequestLogAssumption DEF LogTypeOK
<1>2. Batch * Cardinality(WriterAt("trimming")) \in Nat
  BY WritersFinite, OneMoreTime, RequestLogAssumption
<1> QED
  BY <1>1, <1>2, WritersFinite, SMT DEF Unsettled

(* A writer that moves on leaves the stage it was in and enters the next.  *)
LEMMA WriterMoves ==
    ASSUME LogTypeOK, NEW e \in Entries, NEW from, NEW to, writer[e] = from, from # to,
           writer' = [writer EXCEPT ![e] = to]
    PROVE  /\ Cardinality(WriterAt(to))' = Cardinality(WriterAt(to)) + 1
           /\ Cardinality(WriterAt(from)) = Cardinality(WriterAt(from))' + 1
           /\ \A stage : stage \notin {from, to} => WriterAt(stage)' = WriterAt(stage)
<1>1. WriterAt(to)' = WriterAt(to) \cup {e} /\ e \notin WriterAt(to)
  BY DEF LogTypeOK, WriterAt
<1>2. WriterAt(from)' = WriterAt(from) \ {e} /\ e \in WriterAt(from)
  BY DEF LogTypeOK, WriterAt
<1>3. \A stage : stage \notin {from, to} => WriterAt(stage)' = WriterAt(stage)
  BY DEF LogTypeOK, WriterAt
<1>4. Cardinality(WriterAt(to) \cup {e}) = Cardinality(WriterAt(to)) + 1
  BY <1>1, WritersFinite, FS_AddElement
<1>5. Cardinality(WriterAt(from) \ {e}) = Cardinality(WriterAt(from)) - 1
  BY <1>2, WritersFinite, FS_RemoveElement
<1> QED
  BY <1>1, <1>2, <1>3, <1>4, <1>5, WritersFinite

-----------------------------------------------------------------------------
(* Each step keeps the bound.                                              *)

\* A row more is a writer more that has inserted.
LEMMA InsertInv == ASSUME LogInv, NEW e \in Entries, Insert(e) PROVE LogInv'
<1>1. LogTypeOK'
  BY DEF LogInv, LogTypeOK, Insert, Stages
<1>2. /\ Cardinality(WriterAt("inserted"))' = Cardinality(WriterAt("inserted")) + 1
      /\ WriterAt("trimming")' = WriterAt("trimming")
  <2>1. /\ LogTypeOK /\ writer[e] = "serving"
        /\ writer' = [writer EXCEPT ![e] = "inserted"]
    BY DEF LogInv, Insert
  <2>2. "serving" # "inserted" /\ "trimming" \notin {"serving", "inserted"}
    OBVIOUS
  <2> QED
    BY <2>1, <2>2, WriterMoves
<1>3. Cardinality(rows') <= Cardinality(rows) + 1
  <2>1. rows' = rows \cup {e} /\ IsFiniteSet(rows) /\ Cardinality(rows) \in Nat
    BY RowsFinite DEF LogInv, Insert
  <2>2. CASE e \in rows
    <3>1. rows' = rows
      BY <2>1, <2>2
    <3>2. Cardinality(rows') = Cardinality(rows)
      BY <3>1
    <3> QED
      BY <2>1, <3>2
  <2>3. CASE e \notin rows
    <3>1. Cardinality(rows \cup {e}) = Cardinality(rows) + 1
      BY <2>1, <2>3, FS_AddElement
    <3> QED
      BY <2>1, <3>1
  <2> QED
    BY <2>2, <2>3
<1>4. Unsettled' = Unsettled + 1
  BY <1>2, Unsettles, WritersFinite DEF LogInv, Unsettled, Insert
<1>5. Cardinality(rows') \in Nat
  BY <1>1, RequestLogAssumption, FS_Subset, FS_CardinalityType DEF LogTypeOK
<1>6. RetentionBound'
  BY <1>3, <1>4, <1>5, Unsettles, RowsFinite, RequestLogAssumption
  DEF LogInv, LogTypeOK, RetentionBound, Insert
<1> QED
  BY <1>1, <1>6 DEF LogInv

\* A failed insert ends its writer and leaves the rows.
LEMMA InsertFailsInv == ASSUME LogInv, NEW e \in Entries, InsertFails(e) PROVE LogInv'
<1>1. LogTypeOK'
  BY DEF LogInv, LogTypeOK, InsertFails, Stages
<1>2. /\ WriterAt("inserted")' = WriterAt("inserted")
      /\ WriterAt("trimming")' = WriterAt("trimming")
  <2>1. /\ LogTypeOK /\ writer[e] = "serving"
        /\ writer' = [writer EXCEPT ![e] = "done"]
    BY DEF LogInv, InsertFails
  <2>2. /\ "serving" # "done" /\ "inserted" \notin {"serving", "done"}
        /\ "trimming" \notin {"serving", "done"}
    OBVIOUS
  <2> QED
    BY <2>1, <2>2, WriterMoves
<1>3. RetentionBound'
  BY <1>2 DEF LogInv, RetentionBound, Unsettled, InsertFails
<1> QED
  BY <1>1, <1>3 DEF LogInv

(* The write moves from the inserted to the remainder, or completes a      *)
(* batch, which then counts as a trim under way.                           *)
LEMMA CountWriteInv == ASSUME LogInv, NEW e \in Entries, CountWrite(e) PROVE LogInv'
<1>1. LogTypeOK'
  BY DEF LogInv, LogTypeOK, CountWrite, Stages
<1>2. /\ requestWrites \in Nat /\ requestWrites' = requestWrites + 1
      /\ requestWrites % Batch \in Nat /\ (requestWrites + 1) % Batch \in Nat
      /\ (requestWrites + 1) % Batch = 0 => requestWrites % Batch = Batch - 1
      /\ (requestWrites + 1) % Batch # 0 =>
           (requestWrites + 1) % Batch = (requestWrites % Batch) + 1
  BY NextRemainder, RequestLogAssumption DEF LogInv, LogTypeOK, CountWrite
<1>3. CASE TrimDue(requestWrites')
  <2>1. /\ Cardinality(WriterAt("trimming"))' = Cardinality(WriterAt("trimming")) + 1
        /\ Cardinality(WriterAt("inserted")) = Cardinality(WriterAt("inserted"))' + 1
    <3>1. /\ LogTypeOK /\ writer[e] = "inserted"
          /\ writer' = [writer EXCEPT ![e] = "trimming"]
      BY <1>3 DEF LogInv, CountWrite
    <3>2. "inserted" # "trimming"
      OBVIOUS
    <3> QED
      BY <3>1, <3>2, WriterMoves
  <2>2. Batch * Cardinality(WriterAt("trimming"))'
          = Batch * Cardinality(WriterAt("trimming")) + Batch
    BY <2>1, OneMoreTime, WritersFinite, RequestLogAssumption
  <2>3. Unsettled' = Unsettled
    <3>1. requestWrites' % Batch = 0 /\ requestWrites % Batch = Batch - 1
      BY <1>2, <1>3 DEF TrimDue
    <3>2. /\ Batch \in Nat
          /\ Batch * Cardinality(WriterAt("trimming")) \in Nat
          /\ Cardinality(WriterAt("inserted"))' \in Nat
      <4>1. WriterAt("inserted")' \subseteq Entries
        BY DEF WriterAt
      <4> QED
        BY <4>1, Unsettles, RequestLogAssumption, FS_Subset, FS_CardinalityType DEF LogInv
    <3> QED
      BY <2>1, <2>2, <3>1, <3>2 DEF Unsettled
  <2>4. rows' = rows /\ debt' = debt
    BY DEF CountWrite
  <2> QED
    BY <1>1, <2>3, <2>4 DEF LogInv, RetentionBound
<1>4. CASE ~ TrimDue(requestWrites')
  <2>1. /\ WriterAt("trimming")' = WriterAt("trimming")
        /\ Cardinality(WriterAt("inserted")) = Cardinality(WriterAt("inserted"))' + 1
    <3>1. /\ LogTypeOK /\ writer[e] = "inserted"
          /\ writer' = [writer EXCEPT ![e] = "done"]
      BY <1>4 DEF LogInv, CountWrite
    <3>2. "inserted" # "done" /\ "trimming" \notin {"inserted", "done"}
      OBVIOUS
    <3> QED
      BY <3>1, <3>2, WriterMoves
  <2>2. Unsettled' = Unsettled
    <3>1. requestWrites' % Batch = (requestWrites % Batch) + 1
      BY <1>2, <1>4 DEF TrimDue
    <3>2. /\ Batch * Cardinality(WriterAt("trimming")) \in Nat
          /\ Cardinality(WriterAt("inserted"))' \in Nat
      <4>1. WriterAt("inserted")' \subseteq Entries
        BY DEF WriterAt
      <4> QED
        BY <4>1, Unsettles, RequestLogAssumption, FS_Subset, FS_CardinalityType DEF LogInv
    <3> QED
      BY <1>2, <2>1, <3>1, <3>2 DEF Unsettled
  <2>3. rows' = rows /\ debt' = debt
    BY DEF CountWrite
  <2> QED
    BY <1>1, <2>2, <2>3 DEF LogInv, RetentionBound
<1> QED
  BY <1>1, <1>3, <1>4 DEF LogInv

\* A trim leaves at most Keep rows.
LEMMA TrimInv == ASSUME LogInv, NEW e \in Entries, Trim(e) PROVE LogInv'
<1>1. LogTypeOK'
  BY DEF LogInv, LogTypeOK, Trim, Kept, Stages
<1>2. Cardinality(rows') <= Keep
  BY RowsFinite, RequestLogAssumption DEF LogInv, Trim, Kept, AreFirst, LeastOf
<1>3. Unsettled' \in Nat
  <2>1. /\ requestWrites' \in Nat /\ requestWrites' % Batch \in Nat
    BY <1>1, NextRemainder, RequestLogAssumption DEF LogTypeOK
  <2>2. /\ Cardinality(WriterAt("inserted"))' \in Nat
        /\ Cardinality(WriterAt("trimming"))' \in Nat
    <3>1. \A stage : WriterAt(stage)' \subseteq Entries
      BY DEF WriterAt
    <3> QED
      BY <3>1, RequestLogAssumption, FS_Subset, FS_CardinalityType
  <2>3. Batch * Cardinality(WriterAt("trimming"))' \in Nat
    BY <2>2, OneMoreTime, RequestLogAssumption
  <2> QED
    BY <2>1, <2>2, <2>3 DEF Unsettled
<1>4. Cardinality(rows') \in Nat
  BY <1>1, RequestLogAssumption, FS_Subset, FS_CardinalityType DEF LogTypeOK
<1> QED
  BY <1>1, <1>2, <1>3, <1>4, RequestLogAssumption DEF LogInv, RetentionBound, Trim

\* A failed trim makes a debt of the batch that it leaves.
LEMMA TrimFailsInv == ASSUME LogInv, NEW e \in Entries, TrimFails(e) PROVE LogInv'
<1>1. LogTypeOK'
  BY RequestLogAssumption DEF LogInv, LogTypeOK, TrimFails, Stages
<1>2. /\ Cardinality(WriterAt("trimming")) = Cardinality(WriterAt("trimming"))' + 1
      /\ WriterAt("inserted")' = WriterAt("inserted")
  <2>1. /\ LogTypeOK /\ writer[e] = "trimming"
        /\ writer' = [writer EXCEPT ![e] = "done"]
    BY DEF LogInv, TrimFails
  <2>2. "trimming" # "done" /\ "inserted" \notin {"trimming", "done"}
    OBVIOUS
  <2> QED
    BY <2>1, <2>2, WriterMoves
<1>3. Cardinality(WriterAt("trimming"))' \in Nat
  <2>1. WriterAt("trimming")' \subseteq Entries
    BY DEF WriterAt
  <2> QED
    BY <2>1, RequestLogAssumption, FS_Subset, FS_CardinalityType
<1>4. Batch * Cardinality(WriterAt("trimming"))
        = Batch * Cardinality(WriterAt("trimming"))' + Batch
  BY <1>2, <1>3, OneMoreTime, RequestLogAssumption
<1>5. Batch * Cardinality(WriterAt("trimming"))' \in Nat
  BY <1>3, OneMoreTime, RequestLogAssumption
<1>6. Unsettled' + Batch = Unsettled
  BY <1>2, <1>4, <1>5, Unsettles, WritersFinite, RequestLogAssumption
  DEF LogInv, Unsettled, TrimFails
<1>7. Unsettled' \in Int
  BY <1>2, <1>5, Unsettles, WritersFinite DEF LogInv, Unsettled, TrimFails
<1>8. RetentionBound'
  BY <1>6, <1>7, Unsettles, RequestLogAssumption
  DEF LogInv, LogTypeOK, RetentionBound, TrimFails
<1> QED
  BY <1>1, <1>8 DEF LogInv

\* A cleared table is within the bound.
LEMMA ClearInv == ASSUME LogInv, ClearRequestLogs PROVE LogInv'
<1>1. LogTypeOK'
  BY DEF LogInv, LogTypeOK, ClearRequestLogs
<1>2. Cardinality(rows') = 0
  BY FS_EmptySet DEF ClearRequestLogs
<1>3. Unsettled' = Unsettled
  BY DEF ClearRequestLogs, Unsettled, WriterAt
<1> QED
  BY <1>1, <1>2, <1>3, Unsettles, RequestLogAssumption
  DEF LogInv, LogTypeOK, RetentionBound, ClearRequestLogs

(* What the counter accounted for becomes debt.                            *)
LEMMA RestartInv == ASSUME LogInv, RestartProcess PROVE LogInv'
<1>1. LogTypeOK'
  <2>1. debt' \in Nat
    BY Unsettles DEF LogInv, LogTypeOK, RestartProcess
  <2>2. restarts' \in 0..MaxRestarts
    BY RequestLogAssumption DEF LogInv, LogTypeOK, RestartProcess
  <2> QED
    BY <2>1, <2>2 DEF LogInv, LogTypeOK, RestartProcess, Stages
<1>2. WriterAt("inserted")' = {} /\ WriterAt("trimming")' = {}
  BY DEF RestartProcess, WriterAt
<1>3. Unsettled' = 0
  <2>1. requestWrites' = 0 /\ 0 % Batch = 0 /\ Batch * 0 = 0
    BY ZeroRemainder, RequestLogAssumption DEF RestartProcess
  <2>2. /\ Cardinality(WriterAt("inserted"))' = 0
        /\ Cardinality(WriterAt("trimming"))' = 0
    BY <1>2, FS_EmptySet
  <2> QED
    BY <2>1, <2>2 DEF Unsettled
<1>4. Cardinality(rows) <= Keep + (debt + Unsettled)
  BY Unsettles, RowsFinite, RequestLogAssumption DEF LogInv, LogTypeOK, RetentionBound
<1> QED
  BY <1>1, <1>3, <1>4, Unsettles, RequestLogAssumption
  DEF LogInv, LogTypeOK, RetentionBound, RestartProcess

\* The table starts empty.
LEMMA InitInv == LogInit => LogInv
<1> SUFFICES ASSUME LogInit PROVE LogInv
  OBVIOUS
<1>1. LogTypeOK
  BY RequestLogAssumption DEF LogInit, LogTypeOK, Stages
<1>2. Cardinality(rows) = 0
  BY FS_EmptySet DEF LogInit
<1> QED
  BY <1>1, <1>2, Unsettles, RequestLogAssumption DEF LogInv, LogInit, LogTypeOK, RetentionBound

\* Every step of the writers, of clearing and of a restart keeps the bound
\* (store.go:303-331).
THEOREM RequestLogInv == LogSpec => []LogInv
<1>1. LogInv /\ [LogNext]_logVars => LogInv'
  <2> SUFFICES ASSUME LogInv, [LogNext]_logVars PROVE LogInv'
    OBVIOUS
  <2>1. ASSUME NEW e \in Entries, WriterStep(e) PROVE LogInv'
    BY <2>1, InsertInv, InsertFailsInv, CountWriteInv, TrimInv, TrimFailsInv DEF WriterStep
  <2>2. CASE UNCHANGED logVars
    BY <2>2 DEF logVars, LogInv, LogTypeOK, RetentionBound, Unsettled, WriterAt
  <2> QED
    BY <2>1, <2>2, ClearInv, RestartInv DEF LogNext
<1> QED
  BY <1>1, InitInv, PTL DEF LogSpec

(* However many requests end at once and whatever fails, the table holds   *)
(* no more rows than the counter of store.go:323 accounts for.             *)
THEOREM RequestLogBounded == LogSpec => []RetentionBound
  BY RequestLogInv, PTL DEF LogInv

(* No trim removes a row while one of an earlier second stays, although    *)
(* the rows are ordered as text (store.go:326-328).                         *)
THEOREM RequestLogTrimsTheOldest == LogSpec => TrimsTheOldest
<1> DEFINE Oldest == \A kept \in rows', gone \in rows \ rows' :
                        startedAt[gone] \div 10 <= startedAt[kept] \div 10
<1>1. LogInv /\ [LogNext]_logVars => [Oldest]_logVars
  <2> SUFFICES ASSUME LogInv, LogNext PROVE Oldest
    OBVIOUS
  <2>1. ASSUME NEW e \in Entries, Trim(e) PROVE Oldest
    <3> SUFFICES ASSUME NEW kept \in rows', NEW gone \in rows \ rows'
                 PROVE  startedAt[gone] \div 10 <= startedAt[kept] \div 10
      OBVIOUS
    <3>1. TextKey(startedAt[gone]) <= TextKey(startedAt[kept])
      BY <2>1 DEF Trim, Kept, AreFirst, RowKey
    <3>2. kept \in Entries /\ gone \in Entries
      BY <2>1 DEF LogInv, LogTypeOK, Trim, Kept
    <3>3. startedAt[gone] \in Nat /\ startedAt[kept] \in Nat
      BY <3>2, RequestLogAssumption DEF LogInv, LogTypeOK
    <3> QED
      BY <3>1, <3>3, TextFollowsSeconds
  <2>2. ASSUME NEW e \in Entries,
               Insert(e) \/ InsertFails(e) \/ CountWrite(e) \/ TrimFails(e)
        PROVE  Oldest
    BY <2>2 DEF Insert, InsertFails, CountWrite, TrimFails
  <2>3. CASE ClearRequestLogs
    BY <2>3 DEF ClearRequestLogs
  <2>4. CASE RestartProcess
    BY <2>4 DEF RestartProcess
  <2> QED
    BY <2>1, <2>2, <2>3, <2>4 DEF LogNext, WriterStep
<1>2. LogSpec => [][Oldest]_logVars
  <2> HIDE DEF Oldest
  <2> QED
    BY <1>1, RequestLogInv, PTL DEF LogSpec
<1> QED
  BY <1>2 DEF TrimsTheOldest

-----------------------------------------------------------------------------
(* THE MONITORING PAGE.  Its inductive invariant.                          *)

Call == [stage : {"asked", "counted"}, newest : BOOLEAN, silent : BOOLEAN,
         filter : AnyFilter, page : Nat, total : Nat]

PageTypeOK ==
    /\ filters \in AnyFilter /\ page \in Nat
    /\ pageWatch \in BOOLEAN /\ open \in BOOLEAN /\ loading \in BOOLEAN
    /\ calls \in [Slots -> Call \cup {NoCall}]
    /\ settled \in {"none", "shown", "failed"}

\* A load that starts outdates those before it.
NewestIsOne == \A s, q \in Newest : s = q

\* Only the watcher's load is still to ask for what was chosen.
NewestAsksChoice ==
    ~pageWatch => \A s \in Newest : calls[s].filter = filters /\ calls[s].page = page

\* The newest load has ended exactly once nothing is under way for it.
SettledMeansEnded == settled # "none" => Newest = {}

PageInv ==
    /\ PageTypeOK
    /\ NewestIsOne
    /\ NewestAsksChoice
    /\ SettledMeansEnded
    /\ SpinnerMeansCall
    /\ ShownAnswersChoice

-----------------------------------------------------------------------------
(* Calls.                                                                  *)

\* A slot that is in use holds a load.
LEMMA CallsAreCalls ==
    ASSUME PageTypeOK, NEW s \in Slots
    PROVE  /\ calls[s] # NoCall <=> calls[s] \in Call
           /\ calls[s].stage \in {"asked", "counted"} => calls[s] \in Call
  BY DEF PageTypeOK, Call, NoCall

\* An outdated load is a load that is not the newest.
LEMMA OutdatedIsACall ==
    ASSUME NEW c \in Call \cup {NoCall}
    PROVE  /\ Outdated(c) \in Call \cup {NoCall}
           /\ Outdated(c) = NoCall \/ ~Outdated(c).newest
<1>1. CASE c = NoCall
  BY <1>1 DEF Outdated
<1>2. CASE c # NoCall
  <2>1. c \in Call /\ Outdated(c) = [c EXCEPT !.newest = FALSE]
    BY <1>2 DEF Outdated
  <2> QED
    BY <2>1 DEF Call
<1> QED
  BY <1>1, <1>2

(* A load that starts is the only one the page will obey, and asks for     *)
(* what is chosen.                                                         *)
LEMMA Loads ==
    ASSUME PageInv, NEW silent \in BOOLEAN, loadRequestLogs(silent),
           filters' \in AnyFilter, page' \in Nat, pageWatch' \in BOOLEAN, open' \in BOOLEAN
    PROVE  PageInv'
<1>1. PICK s \in Slots :
         calls' = [q \in Slots |-> IF q = s THEN Asked(silent) ELSE Outdated(calls[q])]
  BY DEF loadRequestLogs
<1>2. /\ Asked(silent) \in Call /\ Asked(silent).newest
      /\ Asked(silent).filter = filters' /\ Asked(silent).page = page'
  BY DEF Asked, Call
<1>3. Asked(silent) # NoCall
  BY DEF Asked, NoCall
<1>4. \A q \in Slots : calls[q] \in Call \cup {NoCall}
  BY DEF PageInv, PageTypeOK
<1>5. \A q \in Slots : /\ calls'[q] \in Call \cup {NoCall}
                       /\ calls'[q] # NoCall /\ calls'[q].newest <=> q = s
  BY <1>1, <1>2, <1>3, <1>4, OutdatedIsACall
<1>6. Newest' = {s} /\ calls'[s] = Asked(silent)
  BY <1>1, <1>5 DEF Newest
<1>7. PageTypeOK'
  BY <1>1, <1>5 DEF PageInv, PageTypeOK, loadRequestLogs
<1>8. NewestIsOne' /\ NewestAsksChoice' /\ SpinnerMeansCall'
  BY <1>2, <1>6 DEF NewestIsOne, NewestAsksChoice, SpinnerMeansCall
<1>9. SettledMeansEnded' /\ ShownAnswersChoice'
  BY DEF loadRequestLogs, SettledMeansEnded, ShownAnswersChoice
<1> QED
  BY <1>7, <1>8, <1>9 DEF PageInv

(* A load that ends shows what it asked for, if it is the newest, and      *)
(* nothing otherwise.                                                      *)
LEMMA Settles ==
    ASSUME PageInv, NEW s \in Slots, NEW how \in {"shown", "failed"}, calls[s] # NoCall,
           Settle(s, how),
           calls[s].newest /\ how = "shown" =>
               shown'.filter = calls[s].filter /\ shown'.page = calls[s].page,
           ~calls[s].newest => shown' = shown
    PROVE  PageInv'
<1>1. calls[s] \in Call
  BY CallsAreCalls DEF PageInv
<1>2. Newest' = Newest \ {s}
  BY DEF PageInv, PageTypeOK, Settle, Newest
<1>3. \A q \in Newest' : calls'[q] = calls[q]
  BY <1>2 DEF PageInv, PageTypeOK, Settle, Newest
<1>4. PageTypeOK'
  BY <1>1 DEF PageInv, PageTypeOK, Settle, Call
<1>5. NewestIsOne' /\ NewestAsksChoice'
  BY <1>2, <1>3 DEF PageInv, Settle, NewestIsOne, NewestAsksChoice
<1>6. CASE calls[s].newest
  <2>1. s \in Newest /\ Newest' = {}
    BY <1>2, <1>6 DEF PageInv, NewestIsOne, Newest
  <2>2. SettledMeansEnded' /\ SpinnerMeansCall'
    BY <1>6, <2>1 DEF Settle, EndsSpinner, SettledMeansEnded, SpinnerMeansCall
  <2>3. ShownAnswersChoice'
    BY <1>6, <2>1 DEF PageInv, Settle, NewestAsksChoice, ShownAnswersChoice
  <2> QED
    BY <1>4, <1>5, <2>2, <2>3 DEF PageInv
<1>7. CASE ~calls[s].newest
  <2>1. Newest' = Newest /\ settled' = settled /\ shown' = shown
    BY <1>2, <1>7 DEF Settle, Newest
  <2>2. loading' => loading
    BY DEF Settle
  <2>3. SettledMeansEnded' /\ SpinnerMeansCall' /\ ShownAnswersChoice'
    BY <2>1, <2>2
       DEF PageInv, Settle, SettledMeansEnded, SpinnerMeansCall, ShownAnswersChoice
  <2> QED
    BY <1>4, <1>5, <2>3 DEF PageInv
<1> QED
  BY <1>6, <1>7

-----------------------------------------------------------------------------
(* Steps.                                                                  *)

(* The log and the timer's switch are no part of the invariant.            *)
LEMMA Apart ==
    ASSUME PageInv, open' \in BOOLEAN,
           UNCHANGED <<filters, page, pageWatch, calls, shown, loading, settled>>
    PROVE  PageInv'
  BY DEF PageInv, PageTypeOK, NewestIsOne, NewestAsksChoice, SettledMeansEnded,
         SpinnerMeansCall, ShownAnswersChoice, Newest

(* Another choice whose watcher is due.                                    *)
LEMMA Chooses ==
    ASSUME PageInv, filters' \in AnyFilter, page' \in Nat, pageWatch' = TRUE,
           UNCHANGED <<open, calls, shown, loading, settled>>
    PROVE  PageInv'
  BY DEF PageInv, PageTypeOK, NewestIsOne, NewestAsksChoice, SettledMeansEnded,
         SpinnerMeansCall, ShownAnswersChoice, Newest

\* Counting rows moves a load on and changes neither what it asks nor whether it
\* is obeyed.
LEMMA Counts ==
    ASSUME PageInv, LogTypeOK, NEW s \in Slots, CountRows(s)
    PROVE  PageInv'
<1>1. calls[s] \in Call
  BY CallsAreCalls DEF PageInv, CountRows
<1>2. Cardinality(Matching(calls[s].filter)) \in Nat
  <2>1. Matching(calls[s].filter) \subseteq rows
    BY DEF Matching
  <2> QED
    BY <2>1, RowsFinite, FS_Subset, FS_CardinalityType
<1> DEFINE n == Cardinality(Matching(calls[s].filter))
           c == [calls[s] EXCEPT !.stage = "counted", !.total = n]
<1>3. calls' = [calls EXCEPT ![s] = c]
  BY <1>1 DEF PageInv, PageTypeOK, CountRows, Call
<1> HIDE DEF n
<1>4. /\ c \in Call /\ c.newest = calls[s].newest
      /\ c.filter = calls[s].filter /\ c.page = calls[s].page
  BY <1>1, <1>2 DEF Call, n
<1>5. c # NoCall /\ calls[s] # NoCall
  BY <1>1, <1>4 DEF Call, NoCall
<1> HIDE DEF c
<1>6. calls' \in [Slots -> Call \cup {NoCall}]
  BY <1>3, <1>4 DEF PageInv, PageTypeOK
<1>7. \A q \in Slots : /\ calls'[q] # NoCall <=> calls[q] # NoCall
                       /\ calls'[q].newest = calls[q].newest
                       /\ calls'[q].filter = calls[q].filter /\ calls'[q].page = calls[q].page
  BY <1>3, <1>4, <1>5 DEF PageInv, PageTypeOK
<1>8. Newest' = Newest
  BY <1>7 DEF Newest
<1> QED
  BY <1>6, <1>7, <1>8 DEF CountRows, PageInv, PageTypeOK, NewestIsOne, NewestAsksChoice,
     SettledMeansEnded, SpinnerMeansCall, ShownAnswersChoice, Newest

\* The page starts at rest with nothing shown.
LEMMA PageInitInv == PageInit => PageInv
<1> SUFFICES ASSUME PageInit PROVE PageInv
  OBVIOUS
<1>1. Newest = {}
  BY DEF PageInit, Newest
<1> QED
  BY <1>1 DEF PageInit, PageInv, PageTypeOK, AnyFilter, NewestIsOne, NewestAsksChoice,
     SettledMeansEnded, SpinnerMeansCall, ShownAnswersChoice

\* Every step of the page and of the log keeps the page's invariant.
LEMMA PageNextInv ==
    ASSUME PageInv, LogTypeOK, [Next]_vars
    PROVE  PageInv'
<1> USE DEF Click, Act
<1>1. CASE LogNext /\ UNCHANGED pageVars
  BY <1>1, Apart DEF pageVars, PageInv, PageTypeOK
<1>2. ASSUME NEW filter \in AnyFilter, ApplyFilters(filter) PROVE PageInv'
  <2>1. filters' \in AnyFilter /\ page' \in Nat /\ open' \in BOOLEAN
    BY <1>2 DEF ApplyFilters, PageInv, PageTypeOK
  <2>2. CASE page = 1
    BY <1>2, <2>1, <2>2, Loads DEF ApplyFilters, PageInv, PageTypeOK
  <2>3. CASE page # 1
    BY <1>2, <2>1, <2>3, Chooses DEF ApplyFilters
  <2> QED
    BY <2>2, <2>3
<1>3. ASSUME NEW n \in 1..MaxPages, ChoosePage(n) PROVE PageInv'
  <2>1. page' \in Nat
    BY <1>3 DEF ChoosePage
  <2> QED
    BY <1>3, <2>1, Chooses DEF ChoosePage, PageInv, PageTypeOK
<1>4. CASE WatchPage
  BY <1>4, Loads DEF WatchPage, PageInv, PageTypeOK
<1>5. CASE ClickRefresh
  BY <1>5, Loads DEF ClickRefresh, PageInv, PageTypeOK
<1>6. CASE SilentRefresh
  BY <1>6, Loads DEF SilentRefresh, PageInv, PageTypeOK
<1>7. CASE Enter
  BY <1>7, Loads DEF Enter, PageInv, PageTypeOK
<1>8. CASE Leave
  BY <1>8, Apart DEF Leave
<1>9. ASSUME NEW s \in Slots, CountRows(s) PROVE PageInv'
  BY <1>9, Counts
<1>10. ASSUME NEW s \in Slots, ShowReply(s) PROVE PageInv'
  <2>1. calls[s] # NoCall /\ Settle(s, "shown")
    BY <1>10 DEF ShowReply, NoCall
  <2>2. calls[s].newest =>
          shown'.filter = calls[s].filter /\ shown'.page = calls[s].page
    BY <1>10 DEF ShowReply, Obeyed
  <2>3. ~calls[s].newest => shown' = shown
    BY <1>10 DEF ShowReply, Obeyed
  <2> QED
    BY <2>1, <2>2, <2>3, Settles
<1>11. ASSUME NEW s \in Slots, LoadFails(s) PROVE PageInv'
  BY <1>11, Settles DEF LoadFails
<1>12. CASE Hide
  BY <1>12, Apart DEF Hide, PageInv, PageTypeOK
<1>13. CASE Show
  <2>1. CASE open
    BY <1>13, <2>1, Loads DEF Show, PageInv, PageTypeOK
  <2>2. CASE ~open
    BY <1>13, <2>2, Apart DEF Show, PageInv, PageTypeOK
  <2> QED
    BY <2>1, <2>2
<1>14. CASE UNCHANGED vars
  BY <1>14, Apart DEF vars, pageVars, PageInv, PageTypeOK
<1> QED
  BY <1>1, <1>2, <1>3, <1>4, <1>5, <1>6, <1>7, <1>8, <1>9, <1>10, <1>11, <1>12,
     <1>13, <1>14 DEF Next, Serve

-----------------------------------------------------------------------------
(* The page only reads the log, so that what holds of the log holds here.  *)
LEMMA LogBelow == Spec => LogSpec
<1>1. Init => LogInit
  BY DEF Init
<1>2. [Next]_vars => [LogNext]_logVars
  <2> SUFFICES ASSUME [Next]_vars PROVE [LogNext]_logVars
    OBVIOUS
  <2>1. ASSUME NEW s \in Slots, Serve(s) \/ LoadFails(s) PROVE UNCHANGED logVars
    BY <2>1 DEF Serve, CountRows, ShowReply, LoadFails, Settle
  <2>2. ASSUME NEW filter \in AnyFilter, ApplyFilters(filter) PROVE UNCHANGED logVars
    BY <2>2 DEF ApplyFilters
  <2>3. ASSUME NEW n \in 1..MaxPages, ChoosePage(n) PROVE UNCHANGED logVars
    BY <2>3 DEF ChoosePage
  <2>4. CASE WatchPage \/ ClickRefresh \/ SilentRefresh \/ Hide \/ Show \/ Enter \/ Leave
    BY <2>4 DEF WatchPage, ClickRefresh, SilentRefresh, Hide, Show, Enter, Leave
  <2>5. CASE UNCHANGED vars
    BY <2>5 DEF vars
  <2> QED
    BY <2>1, <2>2, <2>3, <2>4, <2>5 DEF Next
<1> QED
  BY <1>1, <1>2, PTL DEF Spec, LogSpec

\* At most one load is obeyed, it asks for what is chosen unless the watcher is
\* due, and it is the one that stops the spinner (App.vue:272-316, 575).
THEOREM PageInvariant == Spec => []PageInv
<1>1. Init => PageInv
  BY PageInitInv DEF Init
<1>2. PageInv /\ LogInv /\ [Next]_vars => PageInv'
  BY PageNextInv DEF LogInv
<1> QED
  BY <1>1, <1>2, LogBelow, RequestLogInv, PTL DEF Spec

\* A page at rest shows the answer to the filters and the page number that are
\* chosen, in whatever order replies came (App.vue:271-289).
THEOREM RestingPageAnswers == Spec => []ShownAnswersChoice
  BY PageInvariant, PTL DEF PageInv

\* The spinner never turns without a load that will stop it (App.vue:276, 287).
THEOREM SpinnerIsStopped == Spec => []SpinnerMeansCall
  BY PageInvariant, PTL DEF PageInv
=============================================================================
