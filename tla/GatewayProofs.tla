---------------------------- MODULE GatewayProofs ----------------------------
(***************************************************************************)
(* The gateway handler, for any number of requests, providers, frames,     *)
(* reports and configuration changes.  The requests share nothing that     *)
(* these properties depend on, so that the invariant is one of each        *)
(* request (RequestInv): for every place of its handler what has been      *)
(* started, sent, recorded and tried by then.                              *)
(***************************************************************************)
EXTENDS Gateway, FiniteSetTheorems, SequenceTheorems, TLAPS

-----------------------------------------------------------------------------
(* Places.                                                                 *)

\* A reporter runs beside the handler.
Accompanied == {"reading", "headers", "cancelled", "peek", "write", "frame"}

\* Where the handler goes once it has joined its reporter.
Goals == {"bad", "lookup", "accepted", "body", "ready", "failed", "log"}

Places == Accompanied \cup Goals \cup {"new", "join", "call", "save", "done"}

\* Nothing has been sent to the client yet.
Early == {"new", "reading", "bad", "lookup", "call", "headers", "cancelled", "accepted",
          "peek", "body", "failed", "ready"}

\* The answer is over.
Over == {"log", "save", "done"}

\* Where the handler is, a join counting as where it leads.
at(r) == IF pc[r] = "join" THEN after[r] ELSE pc[r]

-----------------------------------------------------------------------------
(* The inductive invariant.                                                *)

Upstreams == {"none", "open", "complete", "failed"}
Ends == {"open", "complete", "error", "lost"}

Types ==
  /\ pc \in [Requests -> Places] /\ after \in [Requests -> Places]
  /\ stream \in [Requests -> BOOLEAN] /\ gone \in [Requests -> BOOLEAN]
  /\ failure \in [Requests -> Nat] /\ head \in [Requests -> Nat]
  /\ reporter \in [Requests -> {"none", "select", "log"}]
  /\ stopping \in [Requests -> BOOLEAN] /\ storeOpen \in BOOLEAN
  /\ reports \in [Requests -> Nat] /\ frames \in [Requests -> Nat]
  /\ last \in [Requests -> Ends]
  /\ upstream \in [Requests -> Upstreams]
  /\ completed \in [Requests -> Nat] /\ recorded \in [Requests -> Seq(Nat)]
  /\ selected = [r \in Requests |-> selected[r]]
  /\ \A r \in Requests : \E S : selected[r] \in Seq(S)

\* A reporter runs, and its channel is open, exactly where one is due.
ReporterInv(r) ==
  /\ pc[r] \in Accompanied => reporter[r] # "none" /\ ~ stopping[r]
  /\ pc[r] = "join" => stopping[r] /\ after[r] \in Goals
  /\ pc[r] \notin Accompanied \cup {"join"} => reporter[r] = "none"

\* What has reached the client, and what is known of the upstream.
AnswerInv(r) ==
  /\ at(r) \in Early => head[r] = 0 /\ last[r] = "open"
  /\ at(r) = "headers" => failure[r] = 0
  /\ at(r) \in {"accepted", "peek", "body"} =>
       /\ failure[r] = 0 /\ upstream[r] = "open"
       /\ stream[r] <=> at(r) # "body"
  /\ at(r) = "ready" =>
       failure[r] = 0 /\ upstream[r] = IF stream[r] THEN "open" ELSE "complete"
  /\ at(r) \in {"write", "frame"} =>
       head[r] = 200 /\ last[r] = "open" /\ failure[r] = 0 /\ upstream[r] = "open"
  /\ at(r) = "frame" => frames[r] > 0
  /\ at(r) \in Over =>
       /\ head[r] # 0
       /\ head[r] = 200 =>
            /\ failure[r] = 0 <=> upstream[r] = "complete"
            /\ failure[r] = 0 => last[r] \in {"complete", "lost"}
            /\ last[r] = "complete" => failure[r] = 0
            /\ frames[r] = 0 => upstream[r] \in {"open", "complete"}

\* The completion entry comes before the row, and the row tells the answer.
RecordInv(r) ==
  /\ completed[r] = IF at(r) \in {"save", "done"} THEN 1 ELSE 0
  /\ at(r) # "done" => recorded[r] = <<>>
  /\ at(r) = "done" => \/ recorded[r] = <<>> /\ ~ storeOpen
                       \/ recorded[r] = <<RecordedStatus(r)>>

\* An attempt begun after the client left is the last one, and fails with a
\* status that ends the request.
LateInv(r) ==
  \A i \in 1 .. Len(selected[r]) :
    selected[r][i].late =>
      /\ i = Len(selected[r])
      /\ \/ at(r) = "cancelled"
         \/ at(r) = "failed" /\ failure[r] \in {400, 499}
         \/ at(r) \in Over

RequestInv(r) == ReporterInv(r) /\ AnswerInv(r) /\ RecordInv(r) /\ LateInv(r)

IInv == Types /\ ~ paniced /\ \A r \in Requests : RequestInv(r)

-----------------------------------------------------------------------------
(* Steps.                                                                  *)

\* What the invariant of a request speaks of.
State(r) == <<pc[r], after[r], stream[r], gone[r], failure[r], head[r], reporter[r], stopping[r],
              frames[r], last[r], upstream[r], completed[r], recorded[r], selected[r]>>

(* A step of one request leaves the invariants of the others alone.        *)
LEMMA Untouched ==
  ASSUME NEW r, RequestInv(r), UNCHANGED State(r), storeOpen' => storeOpen
  PROVE  RequestInv(r)'
  BY DEF State, RequestInv, ReporterInv, AnswerInv, RecordInv, LateInv, at, RecordedStatus

LEMMA OneRequest ==
  ASSUME IInv, NEW r \in Requests, \A q \in Requests \ {r} : UNCHANGED State(q),
         storeOpen' => storeOpen, Types', ~ paniced', RequestInv(r)'
  PROVE  IInv'
<1>1. ASSUME NEW q \in Requests, q # r PROVE RequestInv(q)'
  BY <1>1, Untouched DEF IInv
<1> QED
  BY <1>1 DEF IInv

(* Most steps are far from the records and from late attempts.             *)
LEMMA NotRecordedYet ==
  ASSUME NEW r, RecordInv(r), at(r) \notin {"save", "done"}, at(r)' \notin {"save", "done"},
         UNCHANGED <<completed[r], recorded[r]>>
  PROVE  RecordInv(r)'
  BY DEF RecordInv

LEMMA OnTime ==
  ASSUME NEW r, LateInv(r), at(r) \notin {"cancelled", "failed"} \cup Over,
         UNCHANGED selected[r]
  PROVE  LateInv(r)'
  BY DEF LateInv

LEMMA EndingLate ==
  ASSUME NEW r, LateInv(r), UNCHANGED selected[r],
         at(r)' \in Over \/ (at(r)' = "failed" /\ failure'[r] \in {400, 499})
  PROVE  LateInv(r)'
  BY DEF LateInv

(* So a step that is no attempt's beginning or late end and writes no      *)
(* record has only its reporter and the answer to account for.             *)
LEMMA PlainStep ==
  ASSUME IInv, NEW r \in Requests, \A q \in Requests \ {r} : UNCHANGED State(q),
         UNCHANGED <<storeOpen, completed[r], recorded[r], selected[r]>>,
         at(r) \notin {"cancelled", "failed"} \cup Over, at(r)' \notin {"save", "done"},
         Types', ReporterInv(r)', ~ paniced', AnswerInv(r)'
  PROVE  IInv'
<1>1. RecordInv(r)'
  BY NotRecordedYet DEF IInv, RequestInv, Over
<1>2. LateInv(r)'
  BY OnTime DEF IInv, RequestInv
<1> QED
  BY <1>1, <1>2, OneRequest DEF RequestInv

LEMMA RecordedIsNat == ASSUME Types, NEW r \in Requests PROVE RecordedStatus(r) \in Nat
  BY SMT DEF Types, RecordedStatus

LEMMA InitInv == Init => IInv
<1> SUFFICES ASSUME Init PROVE IInv
  OBVIOUS
<1>1. \A r \in Requests : <<>> \in Seq({}) /\ <<>> \in Seq(Nat)
  BY EmptySeq
<1>2. selected = [r \in Requests |-> selected[r]] /\ \A r \in Requests : selected[r] \in Seq({})
  BY <1>1 DEF Init
<1>3. Types
  BY <1>1, <1>2 DEF Init, Types, Places, Upstreams, Ends
<1>4. ASSUME NEW r \in Requests PROVE RequestInv(r)
  BY EmptySeq, SMT DEF Init, RequestInv, ReporterInv, AnswerInv, RecordInv, LateInv, at,
     Accompanied,
     Goals, Early, Over
<1> QED
  BY <1>3, <1>4 DEF Init, IInv

LEMMA JoinInv == ASSUME IInv, NEW r \in Requests, Join(r) PROVE IInv'
<1> USE DEF Join, configuration, router, request, waiting, client
<1>1. Types' /\ (storeOpen' => storeOpen)
  BY DEF IInv, Types, Places, Accompanied, Goals, Upstreams
<1>2. \A q \in Requests \ {r} : UNCHANGED State(q)
  BY DEF IInv, Types, State
<1>3. ReporterInv(r)' /\ ~ paniced'
  BY DEF IInv, Types, RequestInv, ReporterInv, Places, Accompanied, Goals
<1>4. AnswerInv(r)'
  BY SMT DEF IInv, Types, RequestInv, ReporterInv, AnswerInv, at, Early, Over, Places,
     Accompanied, Goals, Upstreams
<1>5. RecordInv(r)'
  BY DEF IInv, Types, RequestInv, ReporterInv, RecordInv, RecordedStatus, at, Places,
     Accompanied, Goals
<1>6. LateInv(r)'
  BY DEF IInv, Types, RequestInv, ReporterInv, LateInv, at, Over, Places, Accompanied, Goals
<1> QED
  BY <1>1, <1>2, <1>3, <1>4, <1>5, <1>6, OneRequest DEF RequestInv

LEMMA TickInv == ASSUME IInv, NEW r \in Requests, Tick(r) PROVE IInv'
<1> USE DEF Tick, configuration, router, request, waiting, client
<1>1. Types' /\ (storeOpen' => storeOpen)
  BY SMTT(30) DEF IInv, Types, Places, Accompanied, Goals, Upstreams
<1>2. \A q \in Requests \ {r} : UNCHANGED State(q)
  BY DEF IInv, Types, State
<1>3. ReporterInv(r)' /\ ~ paniced'
  BY DEF IInv, Types, RequestInv, ReporterInv, Places, Accompanied, Goals
<1>4. AnswerInv(r)'
  BY SMT DEF IInv, Types, RequestInv, ReporterInv, AnswerInv, at, Early, Over, Places,
     Accompanied, Goals, Upstreams
<1>5. RecordInv(r)'
  BY DEF IInv, Types, RequestInv, ReporterInv, RecordInv, RecordedStatus, at, Places,
     Accompanied, Goals
<1>6. LateInv(r)'
  BY DEF IInv, Types, RequestInv, ReporterInv, LateInv, at, Over, Places, Accompanied, Goals
<1> QED
  BY <1>1, <1>2, <1>3, <1>4, <1>5, <1>6, OneRequest DEF RequestInv

LEMMA ReportInv == ASSUME IInv, NEW r \in Requests, Report(r) PROVE IInv'
<1> USE DEF Report, configuration, router, request, waiting, client
<1>1. Types' /\ (storeOpen' => storeOpen)
  BY SMTT(30) DEF IInv, Types, Places, Accompanied, Goals, Upstreams
<1>2. \A q \in Requests \ {r} : UNCHANGED State(q)
  BY DEF IInv, Types, State
<1>3. ReporterInv(r)' /\ ~ paniced'
  BY DEF IInv, Types, RequestInv, ReporterInv, Places, Accompanied, Goals
<1>4. AnswerInv(r)'
  BY SMT DEF IInv, Types, RequestInv, ReporterInv, AnswerInv, at, Early, Over, Places,
     Accompanied, Goals, Upstreams
<1>5. RecordInv(r)'
  BY DEF IInv, Types, RequestInv, ReporterInv, RecordInv, RecordedStatus, at, Places,
     Accompanied, Goals
<1>6. LateInv(r)'
  BY DEF IInv, Types, RequestInv, ReporterInv, LateInv, at, Over, Places, Accompanied, Goals
<1> QED
  BY <1>1, <1>2, <1>3, <1>4, <1>5, <1>6, OneRequest DEF RequestInv

LEMMA LeaveInv == ASSUME IInv, NEW r \in Requests, Leave(r) PROVE IInv'
<1> USE DEF Leave, configuration, router, request, waiting, client
<1>1. Types' /\ (storeOpen' => storeOpen)
  BY SMTT(30) DEF IInv, Types, Places, Accompanied, Goals, Upstreams
<1>2. \A q \in Requests \ {r} : UNCHANGED State(q)
  BY DEF IInv, Types, State
<1>3. ReporterInv(r)' /\ ~ paniced'
  BY DEF IInv, Types, RequestInv, ReporterInv, Places, Accompanied, Goals
<1>4. AnswerInv(r)'
  BY SMT DEF IInv, Types, RequestInv, ReporterInv, AnswerInv, at, Early, Over, Places,
     Accompanied, Goals, Upstreams
<1>5. RecordInv(r)'
  BY DEF IInv, Types, RequestInv, ReporterInv, RecordInv, RecordedStatus, at, Places,
     Accompanied, Goals
<1>6. LateInv(r)'
  BY DEF IInv, Types, RequestInv, ReporterInv, LateInv, at, Over, Places, Accompanied, Goals
<1> QED
  BY <1>1, <1>2, <1>3, <1>4, <1>5, <1>6, OneRequest DEF RequestInv

LEMMA AuthorizeInv == ASSUME IInv, NEW r \in Requests, Authorize(r) PROVE IInv'
<1>1. CASE keyValid
  <2>1. /\ pc[r] = "new"
        /\ pc' = [pc EXCEPT ![r] = "reading"]
        /\ reporter' = [reporter EXCEPT ![r] = "select"]
        /\ stopping' = [stopping EXCEPT ![r] = FALSE]
        /\ UNCHANGED <<after, stream, gone, failure, head, frames, last, upstream, completed,
                        recorded, selected, storeOpen, paniced, reports>>
    BY <1>1 DEF Authorize, StartReporter, Answer, WriteEnd, configuration, router, request, waiting,
       client
  <2>2. Types'
    BY <2>1, SMTT(30) DEF IInv, Types, Places, Accompanied, Goals, Upstreams, Ends
  <2>3. \A q \in Requests \ {r} : UNCHANGED State(q)
    BY <2>1 DEF IInv, Types, State
  <2>4. ReporterInv(r)' /\ ~ paniced'
    BY <2>1 DEF IInv, Types, RequestInv, ReporterInv, Places, Accompanied, Goals
  <2>5. AnswerInv(r)'
    BY <1>1, <2>1, SMT DEF IInv, Types, RequestInv, ReporterInv, AnswerInv, at, Early, Over,
       Places, Accompanied, Goals, Upstreams, Ends
  <2>6. /\ at(r) \notin {"cancelled", "failed"} \cup Over /\ at(r)' \notin {"save", "done"}
        /\ UNCHANGED <<storeOpen, completed[r], recorded[r], selected[r]>>
    BY <2>1 DEF IInv, Types, at, Over, Places, Accompanied, Goals
  <2> QED
    BY <2>2, <2>3, <2>4, <2>5, <2>6, PlainStep
<1>2. CASE ~ keyValid
  <2>1. /\ pc[r] = "new"
        /\ pc' = [pc EXCEPT ![r] = "log"]
        /\ head' = [head EXCEPT ![r] = 401]
        /\ last' = [last EXCEPT ![r] = IF gone[r] THEN "lost" ELSE "complete"]
        /\ UNCHANGED <<after, stream, gone, failure, reporter, stopping, frames, upstream,
                        completed, recorded, selected, storeOpen, paniced, reports>>
    BY <1>2 DEF Authorize, StartReporter, Answer, WriteEnd, configuration, router, request, waiting,
       client
  <2>2. Types'
    BY <2>1, SMTT(30) DEF IInv, Types, Places, Accompanied, Goals, Upstreams, Ends
  <2>3. \A q \in Requests \ {r} : UNCHANGED State(q)
    BY <2>1 DEF IInv, Types, State
  <2>4. ReporterInv(r)' /\ ~ paniced'
    BY <2>1 DEF IInv, Types, RequestInv, ReporterInv, Places, Accompanied, Goals
  <2>5. AnswerInv(r)'
    BY <1>2, <2>1, SMT DEF IInv, Types, RequestInv, ReporterInv, AnswerInv, at, Early, Over,
       Places, Accompanied, Goals, Upstreams, Ends
  <2>6. /\ at(r) \notin {"cancelled", "failed"} \cup Over /\ at(r)' \notin {"save", "done"}
        /\ UNCHANGED <<storeOpen, completed[r], recorded[r], selected[r]>>
    BY <2>1 DEF IInv, Types, at, Over, Places, Accompanied, Goals
  <2> QED
    BY <2>2, <2>3, <2>4, <2>5, <2>6, PlainStep
<1> QED
  BY <1>1, <1>2

LEMMA ReadBodyInv ==
  ASSUME IInv, NEW r \in Requests, NEW good \in BOOLEAN, ReadBody(r, good)
  PROVE  IInv'
<1> USE DEF ReadBody, StopReporter, configuration, router, request, waiting, client
<1>1. Types' /\ (storeOpen' => storeOpen)
  BY SMTT(30) DEF IInv, Types, Places, Accompanied, Goals, Upstreams
<1>2. \A q \in Requests \ {r} : UNCHANGED State(q)
  BY DEF IInv, Types, State
<1>3. ReporterInv(r)' /\ ~ paniced'
  BY DEF IInv, Types, RequestInv, ReporterInv, Places, Accompanied, Goals
<1>4. AnswerInv(r)'
  BY SMT DEF IInv, Types, RequestInv, ReporterInv, AnswerInv, at, Early, Over, Places,
     Accompanied, Goals, Upstreams
<1>5. /\ at(r) \notin {"cancelled", "failed"} \cup Over /\ at(r)' \notin {"save", "done"}
      /\ UNCHANGED <<storeOpen, completed[r], recorded[r], selected[r]>>
  BY DEF IInv, Types, at, Over, Places, Accompanied, Goals
<1> QED
  BY <1>1, <1>2, <1>3, <1>4, <1>5, PlainStep

LEMMA RejectBodyInv == ASSUME IInv, NEW r \in Requests, RejectBody(r) PROVE IInv'
<1> USE DEF RejectBody, Answer, WriteEnd, configuration, router, request, waiting, client
<1>1. Types' /\ (storeOpen' => storeOpen)
  BY SMTT(30) DEF IInv, Types, Places, Accompanied, Goals, Upstreams, Ends
<1>2. \A q \in Requests \ {r} : UNCHANGED State(q)
  BY DEF IInv, Types, State
<1>3. ReporterInv(r)' /\ ~ paniced'
  BY DEF IInv, Types, RequestInv, ReporterInv, Places, Accompanied, Goals
<1>4. AnswerInv(r)'
  BY SMT DEF IInv, Types, RequestInv, ReporterInv, AnswerInv, at, Early, Over, Places,
     Accompanied, Goals, Upstreams, Ends
<1>5. /\ at(r) \notin {"cancelled", "failed"} \cup Over /\ at(r)' \notin {"save", "done"}
      /\ UNCHANGED <<storeOpen, completed[r], recorded[r], selected[r]>>
  BY DEF IInv, Types, at, Over, Places, Accompanied, Goals
<1> QED
  BY <1>1, <1>2, <1>3, <1>4, <1>5, PlainStep

LEMMA LookupInv == ASSUME IInv, NEW r \in Requests, Lookup(r) PROVE IInv'
<1>1. CASE SelectSeq(Order, LAMBDA p : p \in enabled) = <<>>
  <2>1. /\ pc[r] = "lookup"
        /\ pc' = [pc EXCEPT ![r] = "log"]
        /\ head' = [head EXCEPT ![r] = 404]
        /\ last' = [last EXCEPT ![r] = IF gone[r] THEN "lost" ELSE "complete"]
        /\ UNCHANGED <<after, stream, gone, failure, reporter, stopping, frames, upstream,
                        completed, recorded, selected, storeOpen, paniced, reports>>
    BY <1>1 DEF Lookup, Answer, WriteEnd, configuration, router, request, waiting, client
  <2>2. Types'
    BY <2>1, SMTT(30) DEF IInv, Types, Places, Accompanied, Goals, Upstreams, Ends
  <2>3. \A q \in Requests \ {r} : UNCHANGED State(q)
    BY <2>1 DEF IInv, Types, State
  <2>4. ReporterInv(r)' /\ ~ paniced'
    BY <2>1 DEF IInv, Types, RequestInv, ReporterInv, Places, Accompanied, Goals
  <2>5. AnswerInv(r)'
    BY <1>1, <2>1, SMT DEF IInv, Types, RequestInv, ReporterInv, AnswerInv, at, Early, Over,
       Places, Accompanied, Goals, Upstreams, Ends
  <2>6. /\ at(r) \notin {"cancelled", "failed"} \cup Over /\ at(r)' \notin {"save", "done"}
        /\ UNCHANGED <<storeOpen, completed[r], recorded[r], selected[r]>>
    BY <2>1 DEF IInv, Types, at, Over, Places, Accompanied, Goals
  <2> QED
    BY <2>2, <2>3, <2>4, <2>5, <2>6, PlainStep
<1>2. CASE SelectSeq(Order, LAMBDA p : p \in enabled) # <<>>
  <2>1. /\ pc[r] = "lookup"
        /\ pc' = [pc EXCEPT ![r] = "call"]
        /\ UNCHANGED <<after, stream, gone, failure, head, reporter, stopping, frames, last,
                        upstream, completed, recorded, selected, storeOpen, paniced, reports>>
    BY <1>2 DEF Lookup, Answer, WriteEnd, configuration, router, request, waiting, client
  <2>2. Types'
    BY <2>1, SMTT(30) DEF IInv, Types, Places, Accompanied, Goals, Upstreams, Ends
  <2>3. \A q \in Requests \ {r} : UNCHANGED State(q)
    BY <2>1 DEF IInv, Types, State
  <2>4. ReporterInv(r)' /\ ~ paniced'
    BY <2>1 DEF IInv, Types, RequestInv, ReporterInv, Places, Accompanied, Goals
  <2>5. AnswerInv(r)'
    BY <1>2, <2>1, SMT DEF IInv, Types, RequestInv, ReporterInv, AnswerInv, at, Early, Over,
       Places, Accompanied, Goals, Upstreams, Ends
  <2>6. /\ at(r) \notin {"cancelled", "failed"} \cup Over /\ at(r)' \notin {"save", "done"}
        /\ UNCHANGED <<storeOpen, completed[r], recorded[r], selected[r]>>
    BY <2>1 DEF IInv, Types, at, Over, Places, Accompanied, Goals
  <2> QED
    BY <2>2, <2>3, <2>4, <2>5, <2>6, PlainStep
<1> QED
  BY <1>1, <1>2

LEMMA NoResponseInv ==
  ASSUME IInv, NEW r \in Requests, NEW status \in {400, 499, 502, 504}, NoResponse(r, status)
  PROVE  IInv'
<1>1. CASE pc[r] = "headers"
  <2>1. /\ pc' = [pc EXCEPT ![r] = "join"]
        /\ after' = [after EXCEPT ![r] = "failed"]
        /\ failure' = [failure EXCEPT ![r] = status]
        /\ stopping' = [stopping EXCEPT ![r] = TRUE]
        /\ paniced' = (paniced \/ stopping[r])
        /\ UNCHANGED <<stream, gone, head, reporter, frames, last, upstream, completed,
                        recorded, selected, storeOpen, reports>>
    BY <1>1 DEF NoResponse, StopReporter, configuration, router, request, waiting, client
  <2>2. Types'
    <3>1. status \in Nat
      OBVIOUS
    <3> QED
      BY <2>1, <3>1, SMTT(30) DEF IInv, Types, Places, Accompanied, Goals, Upstreams
  <2>3. \A q \in Requests \ {r} : UNCHANGED State(q)
    BY <2>1 DEF IInv, Types, State
  <2>4. ReporterInv(r)' /\ ~ paniced'
    BY <1>1, <2>1 DEF IInv, Types, RequestInv, ReporterInv, Places, Accompanied, Goals
  <2>5. AnswerInv(r)'
    BY <1>1, <2>1, SMT DEF IInv, Types, RequestInv, ReporterInv, AnswerInv, at, Early, Over,
       Places, Accompanied, Goals, Upstreams
  <2>6. /\ at(r) \notin {"cancelled", "failed"} \cup Over /\ at(r)' \notin {"save", "done"}
        /\ UNCHANGED <<storeOpen, completed[r], recorded[r], selected[r]>>
    BY <1>1, <2>1 DEF IInv, Types, at, Over, Places, Accompanied, Goals
  <2> QED
    BY <2>2, <2>3, <2>4, <2>5, <2>6, PlainStep
<1>2. CASE pc[r] = "cancelled" /\ status \in {400, 499}
  <2>1. /\ pc' = [pc EXCEPT ![r] = "join"]
        /\ after' = [after EXCEPT ![r] = "failed"]
        /\ failure' = [failure EXCEPT ![r] = status]
        /\ stopping' = [stopping EXCEPT ![r] = TRUE]
        /\ paniced' = (paniced \/ stopping[r])
        /\ UNCHANGED <<stream, gone, head, reporter, frames, last, upstream, completed,
                        recorded, selected, storeOpen, reports>>
    BY <1>2 DEF NoResponse, StopReporter, configuration, router, request, waiting, client
  <2>2. Types'
    <3>1. status \in Nat
      OBVIOUS
    <3> QED
      BY <2>1, <3>1, SMTT(30) DEF IInv, Types, Places, Accompanied, Goals, Upstreams
  <2>3. \A q \in Requests \ {r} : UNCHANGED State(q)
    BY <2>1 DEF IInv, Types, State
  <2>4. ReporterInv(r)' /\ ~ paniced'
    BY <1>2, <2>1 DEF IInv, Types, RequestInv, ReporterInv, Places, Accompanied, Goals
  <2>5. AnswerInv(r)'
    BY <1>2, <2>1, SMT DEF IInv, Types, RequestInv, ReporterInv, AnswerInv, at, Early, Over,
       Places, Accompanied, Goals, Upstreams
  <2>6. RecordInv(r)'
    <3>1. /\ at(r) \notin {"save", "done"} /\ at(r)' \notin {"save", "done"}
          /\ UNCHANGED <<completed[r], recorded[r]>>
      BY <1>2, <2>1 DEF IInv, Types, at, Places, Accompanied, Goals
    <3> QED
      BY <3>1, NotRecordedYet DEF IInv, RequestInv
  <2>7. LateInv(r)'
    <3>1. at(r)' = "failed" /\ failure'[r] \in {400, 499} /\ UNCHANGED selected[r]
      BY <1>2, <2>1 DEF IInv, Types, at, Over, Places, Accompanied, Goals
    <3> QED
      BY <3>1, EndingLate DEF IInv, RequestInv
  <2> QED
    BY <2>1, <2>2, <2>3, <2>4, <2>5, <2>6, <2>7, OneRequest DEF RequestInv
<1> QED
  BY <1>1, <1>2 DEF NoResponse

LEMMA ResponseInv ==
  ASSUME IInv, NEW r \in Requests, NEW status \in {200, 304, 400, 503}, Response(r, status)
  PROVE  IInv'
<1>1. CASE status \in 200 .. 299 /\ stream[r]
  <2>1. /\ pc[r] = "headers"
        /\ pc' = [pc EXCEPT ![r] = "join"]
        /\ after' = [after EXCEPT ![r] = "accepted"]
        /\ stopping' = [stopping EXCEPT ![r] = TRUE]
        /\ upstream' = [upstream EXCEPT ![r] = "open"]
        /\ paniced' = (paniced \/ stopping[r])
        /\ UNCHANGED <<stream, gone, failure, head, reporter, frames, last, completed,
                        recorded, selected, storeOpen, reports>>
    BY <1>1 DEF Response, StopReporter, configuration, router, request, waiting, client
  <2>2. Types'
    <3>1. status \in Nat
      OBVIOUS
    <3> QED
      BY <2>1, <3>1 DEF IInv, Types, Places, Accompanied, Goals, Upstreams
  <2>3. \A q \in Requests \ {r} : UNCHANGED State(q)
    BY <2>1 DEF IInv, Types, State
  <2>4. ReporterInv(r)' /\ ~ paniced'
    BY <2>1 DEF IInv, Types, RequestInv, ReporterInv, Places, Accompanied, Goals
  <2>5. AnswerInv(r)'
    BY <1>1, <2>1, SMT DEF IInv, Types, RequestInv, ReporterInv, AnswerInv, at, Early, Over,
       Places, Accompanied, Goals, Upstreams
  <2>6. /\ at(r) \notin {"cancelled", "failed"} \cup Over /\ at(r)' \notin {"save", "done"}
        /\ UNCHANGED <<storeOpen, completed[r], recorded[r], selected[r]>>
    BY <2>1 DEF IInv, Types, at, Over, Places, Accompanied, Goals
  <2> QED
    BY <2>2, <2>3, <2>4, <2>5, <2>6, PlainStep
<1>2. CASE status \in 200 .. 299 /\ ~ stream[r]
  <2>1. /\ pc[r] = "headers"
        /\ pc' = [pc EXCEPT ![r] = "join"]
        /\ after' = [after EXCEPT ![r] = "body"]
        /\ stopping' = [stopping EXCEPT ![r] = TRUE]
        /\ upstream' = [upstream EXCEPT ![r] = "open"]
        /\ paniced' = (paniced \/ stopping[r])
        /\ UNCHANGED <<stream, gone, failure, head, reporter, frames, last, completed,
                        recorded, selected, storeOpen, reports>>
    BY <1>2 DEF Response, StopReporter, configuration, router, request, waiting, client
  <2>2. Types'
    <3>1. status \in Nat
      OBVIOUS
    <3> QED
      BY <2>1, <3>1 DEF IInv, Types, Places, Accompanied, Goals, Upstreams
  <2>3. \A q \in Requests \ {r} : UNCHANGED State(q)
    BY <2>1 DEF IInv, Types, State
  <2>4. ReporterInv(r)' /\ ~ paniced'
    BY <2>1 DEF IInv, Types, RequestInv, ReporterInv, Places, Accompanied, Goals
  <2>5. AnswerInv(r)'
    BY <1>2, <2>1, SMT DEF IInv, Types, RequestInv, ReporterInv, AnswerInv, at, Early, Over,
       Places, Accompanied, Goals, Upstreams
  <2>6. /\ at(r) \notin {"cancelled", "failed"} \cup Over /\ at(r)' \notin {"save", "done"}
        /\ UNCHANGED <<storeOpen, completed[r], recorded[r], selected[r]>>
    BY <2>1 DEF IInv, Types, at, Over, Places, Accompanied, Goals
  <2> QED
    BY <2>2, <2>3, <2>4, <2>5, <2>6, PlainStep
<1>3. CASE status \notin 200 .. 299
  <2>1. /\ pc[r] = "headers"
        /\ pc' = [pc EXCEPT ![r] = "join"]
        /\ after' = [after EXCEPT ![r] = "failed"]
        /\ failure' = [failure EXCEPT ![r] = status]
        /\ stopping' = [stopping EXCEPT ![r] = TRUE]
        /\ paniced' = (paniced \/ stopping[r])
        /\ UNCHANGED <<stream, gone, head, reporter, frames, last, upstream, completed,
                        recorded, selected, storeOpen, reports>>
    BY <1>3 DEF Response, StopReporter, configuration, router, request, waiting, client
  <2>2. Types'
    <3>1. status \in Nat
      OBVIOUS
    <3> QED
      BY <2>1, <3>1 DEF IInv, Types, Places, Accompanied, Goals, Upstreams
  <2>3. \A q \in Requests \ {r} : UNCHANGED State(q)
    BY <2>1 DEF IInv, Types, State
  <2>4. ReporterInv(r)' /\ ~ paniced'
    BY <2>1 DEF IInv, Types, RequestInv, ReporterInv, Places, Accompanied, Goals
  <2>5. AnswerInv(r)'
    BY <1>3, <2>1, SMT DEF IInv, Types, RequestInv, ReporterInv, AnswerInv, at, Early, Over,
       Places, Accompanied, Goals, Upstreams
  <2>6. /\ at(r) \notin {"cancelled", "failed"} \cup Over /\ at(r)' \notin {"save", "done"}
        /\ UNCHANGED <<storeOpen, completed[r], recorded[r], selected[r]>>
    BY <2>1 DEF IInv, Types, at, Over, Places, Accompanied, Goals
  <2> QED
    BY <2>2, <2>3, <2>4, <2>5, <2>6, PlainStep
<1> QED
  BY <1>1, <1>2, <1>3

LEMMA AwaitFirstFrameInv == ASSUME IInv, NEW r \in Requests, AwaitFirstFrame(r) PROVE IInv'
<1> USE DEF AwaitFirstFrame, StartReporter, configuration, router, request, waiting, client
<1>1. Types' /\ (storeOpen' => storeOpen)
  BY SMTT(30) DEF IInv, Types, Places, Accompanied, Goals, Upstreams
<1>2. \A q \in Requests \ {r} : UNCHANGED State(q)
  BY DEF IInv, Types, State
<1>3. ReporterInv(r)' /\ ~ paniced'
  BY DEF IInv, Types, RequestInv, ReporterInv, Places, Accompanied, Goals
<1>4. AnswerInv(r)'
  BY SMT DEF IInv, Types, RequestInv, ReporterInv, AnswerInv, at, Early, Over, Places,
     Accompanied, Goals, Upstreams
<1>5. /\ at(r) \notin {"cancelled", "failed"} \cup Over /\ at(r)' \notin {"save", "done"}
      /\ UNCHANGED <<storeOpen, completed[r], recorded[r], selected[r]>>
  BY DEF IInv, Types, at, Over, Places, Accompanied, Goals
<1> QED
  BY <1>1, <1>2, <1>3, <1>4, <1>5, PlainStep

LEMMA FirstFrameInv ==
  ASSUME IInv, NEW r \in Requests, NEW ok \in BOOLEAN, FirstFrame(r, ok)
  PROVE  IInv'
<1>1. CASE ok
  <2>1. /\ pc[r] = "peek"
        /\ pc' = [pc EXCEPT ![r] = "join"]
        /\ after' = [after EXCEPT ![r] = "ready"]
        /\ stopping' = [stopping EXCEPT ![r] = TRUE]
        /\ paniced' = (paniced \/ stopping[r])
        /\ UNCHANGED <<stream, gone, failure, head, reporter, frames, last, upstream,
                        completed, recorded, selected, storeOpen, reports>>
    BY <1>1 DEF FirstFrame, StopReporter, configuration, router, request, waiting, client
  <2>2. Types'
    BY <2>1, SMTT(30) DEF IInv, Types, Places, Accompanied, Goals, Upstreams
  <2>3. \A q \in Requests \ {r} : UNCHANGED State(q)
    BY <2>1 DEF IInv, Types, State
  <2>4. ReporterInv(r)' /\ ~ paniced'
    BY <2>1 DEF IInv, Types, RequestInv, ReporterInv, Places, Accompanied, Goals
  <2>5. AnswerInv(r)'
    BY <1>1, <2>1, SMT DEF IInv, Types, RequestInv, ReporterInv, AnswerInv, at, Early, Over,
       Places, Accompanied, Goals, Upstreams
  <2>6. /\ at(r) \notin {"cancelled", "failed"} \cup Over /\ at(r)' \notin {"save", "done"}
        /\ UNCHANGED <<storeOpen, completed[r], recorded[r], selected[r]>>
    BY <2>1 DEF IInv, Types, at, Over, Places, Accompanied, Goals
  <2> QED
    BY <2>2, <2>3, <2>4, <2>5, <2>6, PlainStep
<1>2. CASE ~ ok
  <2>1. /\ pc[r] = "peek"
        /\ pc' = [pc EXCEPT ![r] = "join"]
        /\ after' = [after EXCEPT ![r] = "failed"]
        /\ failure' = [failure EXCEPT ![r] = 502]
        /\ stopping' = [stopping EXCEPT ![r] = TRUE]
        /\ upstream' = [upstream EXCEPT ![r] = "failed"]
        /\ paniced' = (paniced \/ stopping[r])
        /\ UNCHANGED <<stream, gone, head, reporter, frames, last, completed, recorded,
                        selected, storeOpen, reports>>
    BY <1>2 DEF FirstFrame, StopReporter, configuration, router, request, waiting, client
  <2>2. Types'
    BY <2>1, SMTT(30) DEF IInv, Types, Places, Accompanied, Goals, Upstreams
  <2>3. \A q \in Requests \ {r} : UNCHANGED State(q)
    BY <2>1 DEF IInv, Types, State
  <2>4. ReporterInv(r)' /\ ~ paniced'
    BY <2>1 DEF IInv, Types, RequestInv, ReporterInv, Places, Accompanied, Goals
  <2>5. AnswerInv(r)'
    BY <1>2, <2>1, SMT DEF IInv, Types, RequestInv, ReporterInv, AnswerInv, at, Early, Over,
       Places, Accompanied, Goals, Upstreams
  <2>6. /\ at(r) \notin {"cancelled", "failed"} \cup Over /\ at(r)' \notin {"save", "done"}
        /\ UNCHANGED <<storeOpen, completed[r], recorded[r], selected[r]>>
    BY <2>1 DEF IInv, Types, at, Over, Places, Accompanied, Goals
  <2> QED
    BY <2>2, <2>3, <2>4, <2>5, <2>6, PlainStep
<1> QED
  BY <1>1, <1>2

LEMMA WholeBodyInv ==
  ASSUME IInv, NEW r \in Requests, NEW ok \in BOOLEAN, WholeBody(r, ok)
  PROVE  IInv'
<1>1. CASE ok
  <2>1. /\ pc[r] = "body"
        /\ pc' = [pc EXCEPT ![r] = "ready"]
        /\ upstream' = [upstream EXCEPT ![r] = "complete"]
        /\ UNCHANGED <<after, stream, gone, failure, head, reporter, stopping, frames, last,
                        completed, recorded, selected, storeOpen, paniced, reports>>
    BY <1>1 DEF WholeBody, configuration, router, request, waiting, client
  <2>2. Types'
    BY <2>1, SMTT(30) DEF IInv, Types, Places, Accompanied, Goals, Upstreams
  <2>3. \A q \in Requests \ {r} : UNCHANGED State(q)
    BY <2>1 DEF IInv, Types, State
  <2>4. ReporterInv(r)' /\ ~ paniced'
    BY <2>1 DEF IInv, Types, RequestInv, ReporterInv, Places, Accompanied, Goals
  <2>5. AnswerInv(r)'
    BY <1>1, <2>1, SMT DEF IInv, Types, RequestInv, ReporterInv, AnswerInv, at, Early, Over,
       Places, Accompanied, Goals, Upstreams
  <2>6. /\ at(r) \notin {"cancelled", "failed"} \cup Over /\ at(r)' \notin {"save", "done"}
        /\ UNCHANGED <<storeOpen, completed[r], recorded[r], selected[r]>>
    BY <2>1 DEF IInv, Types, at, Over, Places, Accompanied, Goals
  <2> QED
    BY <2>2, <2>3, <2>4, <2>5, <2>6, PlainStep
<1>2. CASE ~ ok
  <2>1. /\ pc[r] = "body"
        /\ pc' = [pc EXCEPT ![r] = "failed"]
        /\ failure' = [failure EXCEPT ![r] = 502]
        /\ upstream' = [upstream EXCEPT ![r] = "failed"]
        /\ UNCHANGED <<after, stream, gone, head, reporter, stopping, frames, last, completed,
                        recorded, selected, storeOpen, paniced, reports>>
    BY <1>2 DEF WholeBody, configuration, router, request, waiting, client
  <2>2. Types'
    BY <2>1, SMTT(30) DEF IInv, Types, Places, Accompanied, Goals, Upstreams
  <2>3. \A q \in Requests \ {r} : UNCHANGED State(q)
    BY <2>1 DEF IInv, Types, State
  <2>4. ReporterInv(r)' /\ ~ paniced'
    BY <2>1 DEF IInv, Types, RequestInv, ReporterInv, Places, Accompanied, Goals
  <2>5. AnswerInv(r)'
    BY <1>2, <2>1, SMT DEF IInv, Types, RequestInv, ReporterInv, AnswerInv, at, Early, Over,
       Places, Accompanied, Goals, Upstreams
  <2>6. /\ at(r) \notin {"cancelled", "failed"} \cup Over /\ at(r)' \notin {"save", "done"}
        /\ UNCHANGED <<storeOpen, completed[r], recorded[r], selected[r]>>
    BY <2>1 DEF IInv, Types, at, Over, Places, Accompanied, Goals
  <2> QED
    BY <2>2, <2>3, <2>4, <2>5, <2>6, PlainStep
<1> QED
  BY <1>1, <1>2

LEMMA SwitchProviderInv == ASSUME IInv, NEW r \in Requests, SwitchProvider(r) PROVE IInv'
<1>1. /\ pc[r] = "failed"
      /\ pc' = [pc EXCEPT ![r] = "call"]
      /\ UNCHANGED <<after, stream, gone, failure, head, reporter, stopping, frames, last,
                      upstream, completed, recorded, selected, storeOpen, paniced, reports>>
  BY DEF SwitchProvider, configuration, router, request, waiting, client
<1>2. Types'
  BY <1>1, SMT DEF IInv, Types, Places, Accompanied, Goals, Upstreams
<1>3. \A q \in Requests \ {r} : UNCHANGED State(q)
  BY <1>1 DEF IInv, Types, State
<1>4. ReporterInv(r)' /\ ~ paniced'
  BY <1>1 DEF IInv, Types, RequestInv, ReporterInv, Places, Accompanied, Goals
<1>5. AnswerInv(r)'
  BY <1>1, SMT DEF IInv, Types, RequestInv, ReporterInv, AnswerInv, at, Early, Over, Places,
     Accompanied, Goals, Upstreams
<1>6. RecordInv(r)'
  <2>1. /\ at(r) \notin {"save", "done"} /\ at(r)' \notin {"save", "done"}
        /\ UNCHANGED <<completed[r], recorded[r]>>
    BY <1>1 DEF IInv, Types, at, Places, Accompanied, Goals
  <2> QED
    BY <2>1, NotRecordedYet DEF IInv, RequestInv
<1>7. LateInv(r)'
  <2>1. IsSwitchableStatus(failure[r])
    BY DEF SwitchProvider
  <2>2. failure[r] \notin {400, 499}
    BY <2>1, SMT DEF IsSwitchableStatus
  <2>3. at(r) = "failed" /\ UNCHANGED selected[r]
    BY <1>1 DEF IInv, Types, at
  <2> QED
    BY <2>2, <2>3 DEF IInv, RequestInv, LateInv, Over
<1> QED
  BY <1>1, <1>2, <1>3, <1>4, <1>5, <1>6, <1>7, OneRequest DEF RequestInv

LEMMA GiveUpInv == ASSUME IInv, NEW r \in Requests, GiveUp(r) PROVE IInv'
<1>1. CASE failure[r] \in 400 .. 599
  <2>1. /\ pc[r] = "failed"
        /\ pc' = [pc EXCEPT ![r] = "log"]
        /\ head' = [head EXCEPT ![r] = failure[r]]
        /\ last' = [last EXCEPT ![r] = IF gone[r] THEN "lost" ELSE "complete"]
        /\ UNCHANGED <<after, stream, gone, failure, reporter, stopping, frames, upstream,
                        completed, recorded, selected, storeOpen, paniced, reports>>
    BY <1>1 DEF GiveUp, Answer, WriteEnd, configuration, router, request, waiting, client
  <2>2. Types'
    BY <2>1, SMTT(30) DEF IInv, Types, Places, Accompanied, Goals, Upstreams, Ends
  <2>3. \A q \in Requests \ {r} : UNCHANGED State(q)
    BY <2>1 DEF IInv, Types, State
  <2>4. ReporterInv(r)' /\ ~ paniced'
    BY <2>1 DEF IInv, Types, RequestInv, ReporterInv, Places, Accompanied, Goals
  <2>5. AnswerInv(r)'
    <3>1. failure[r] # 0 /\ failure[r] # 200
      BY <1>1, SMT
    <3> QED
      BY <2>1, <3>1 DEF IInv, Types, AnswerInv, at, Early, Over
  <2>6. RecordInv(r)'
    <3>1. /\ at(r) \notin {"save", "done"} /\ at(r)' \notin {"save", "done"}
          /\ UNCHANGED <<completed[r], recorded[r]>>
      BY <1>1, <2>1 DEF IInv, Types, at, Places, Accompanied, Goals
    <3> QED
      BY <3>1, NotRecordedYet DEF IInv, RequestInv
  <2>7. LateInv(r)'
    <3>1. at(r)' \in Over /\ UNCHANGED selected[r]
      BY <1>1, <2>1 DEF IInv, Types, at, Over, Places, Accompanied, Goals
    <3> QED
      BY <3>1, EndingLate DEF IInv, RequestInv
  <2> QED
    BY <2>1, <2>2, <2>3, <2>4, <2>5, <2>6, <2>7, OneRequest DEF RequestInv
<1>2. CASE failure[r] \notin 400 .. 599
  <2>1. /\ pc[r] = "failed"
        /\ pc' = [pc EXCEPT ![r] = "log"]
        /\ head' = [head EXCEPT ![r] = 502]
        /\ last' = [last EXCEPT ![r] = IF gone[r] THEN "lost" ELSE "complete"]
        /\ UNCHANGED <<after, stream, gone, failure, reporter, stopping, frames, upstream,
                        completed, recorded, selected, storeOpen, paniced, reports>>
    BY <1>2 DEF GiveUp, Answer, WriteEnd, configuration, router, request, waiting, client
  <2>2. Types'
    BY <2>1, SMTT(30) DEF IInv, Types, Places, Accompanied, Goals, Upstreams, Ends
  <2>3. \A q \in Requests \ {r} : UNCHANGED State(q)
    BY <2>1 DEF IInv, Types, State
  <2>4. ReporterInv(r)' /\ ~ paniced'
    BY <2>1 DEF IInv, Types, RequestInv, ReporterInv, Places, Accompanied, Goals
  <2>5. AnswerInv(r)'
    <3>1. 502 # 0 /\ 502 # 200
      BY <1>2, SMT
    <3> QED
      BY <2>1, <3>1 DEF IInv, Types, AnswerInv, at, Early, Over
  <2>6. RecordInv(r)'
    <3>1. /\ at(r) \notin {"save", "done"} /\ at(r)' \notin {"save", "done"}
          /\ UNCHANGED <<completed[r], recorded[r]>>
      BY <1>2, <2>1 DEF IInv, Types, at, Places, Accompanied, Goals
    <3> QED
      BY <3>1, NotRecordedYet DEF IInv, RequestInv
  <2>7. LateInv(r)'
    <3>1. at(r)' \in Over /\ UNCHANGED selected[r]
      BY <1>2, <2>1 DEF IInv, Types, at, Over, Places, Accompanied, Goals
    <3> QED
      BY <3>1, EndingLate DEF IInv, RequestInv
  <2> QED
    BY <2>1, <2>2, <2>3, <2>4, <2>5, <2>6, <2>7, OneRequest DEF RequestInv
<1> QED
  BY <1>1, <1>2

LEMMA ServeInv == ASSUME IInv, NEW r \in Requests, Serve(r) PROVE IInv'
<1>1. CASE stream[r]
  <2>1. /\ pc[r] = "ready"
        /\ pc' = [pc EXCEPT ![r] = "write"]
        /\ head' = [head EXCEPT ![r] = 200]
        /\ reporter' = [reporter EXCEPT ![r] = "select"]
        /\ stopping' = [stopping EXCEPT ![r] = FALSE]
        /\ UNCHANGED <<after, stream, gone, failure, frames, last, upstream, completed,
                        recorded, selected, storeOpen, paniced, reports>>
    BY <1>1 DEF Serve, StartReporter, Answer, WriteEnd, configuration, router, request, waiting, client
  <2>2. Types'
    BY <2>1, SMTT(30) DEF IInv, Types, Places, Accompanied, Goals, Upstreams, Ends
  <2>3. \A q \in Requests \ {r} : UNCHANGED State(q)
    BY <2>1 DEF IInv, Types, State
  <2>4. ReporterInv(r)' /\ ~ paniced'
    BY <2>1 DEF IInv, Types, RequestInv, ReporterInv, Places, Accompanied, Goals
  <2>5. AnswerInv(r)'
    BY <1>1, <2>1, SMT DEF IInv, Types, RequestInv, ReporterInv, AnswerInv, at, Early, Over,
       Places, Accompanied, Goals, Upstreams, Ends
  <2>6. /\ at(r) \notin {"cancelled", "failed"} \cup Over /\ at(r)' \notin {"save", "done"}
        /\ UNCHANGED <<storeOpen, completed[r], recorded[r], selected[r]>>
    BY <2>1 DEF IInv, Types, at, Over, Places, Accompanied, Goals
  <2> QED
    BY <2>2, <2>3, <2>4, <2>5, <2>6, PlainStep
<1>2. CASE ~ stream[r]
  <2>1. /\ pc[r] = "ready"
        /\ pc' = [pc EXCEPT ![r] = "log"]
        /\ head' = [head EXCEPT ![r] = 200]
        /\ last' = [last EXCEPT ![r] = IF gone[r] THEN "lost" ELSE "complete"]
        /\ UNCHANGED <<after, stream, gone, failure, reporter, stopping, frames, upstream,
                        completed, recorded, selected, storeOpen, paniced, reports>>
    BY <1>2 DEF Serve, StartReporter, Answer, WriteEnd, configuration, router, request, waiting, client
  <2>2. Types'
    BY <2>1, SMTT(30) DEF IInv, Types, Places, Accompanied, Goals, Upstreams, Ends
  <2>3. \A q \in Requests \ {r} : UNCHANGED State(q)
    BY <2>1 DEF IInv, Types, State
  <2>4. ReporterInv(r)' /\ ~ paniced'
    BY <2>1 DEF IInv, Types, RequestInv, ReporterInv, Places, Accompanied, Goals
  <2>5. AnswerInv(r)'
    BY <1>2, <2>1, SMT DEF IInv, Types, RequestInv, ReporterInv, AnswerInv, at, Early, Over,
       Places, Accompanied, Goals, Upstreams, Ends
  <2>6. /\ at(r) \notin {"cancelled", "failed"} \cup Over /\ at(r)' \notin {"save", "done"}
        /\ UNCHANGED <<storeOpen, completed[r], recorded[r], selected[r]>>
    BY <2>1 DEF IInv, Types, at, Over, Places, Accompanied, Goals
  <2> QED
    BY <2>2, <2>3, <2>4, <2>5, <2>6, PlainStep
<1> QED
  BY <1>1, <1>2

LEMMA WriteFrameInv == ASSUME IInv, NEW r \in Requests, WriteFrame(r) PROVE IInv'
<1> USE DEF WriteFrame, configuration, router, request, waiting, client
<1>1. Types' /\ (storeOpen' => storeOpen)
  BY SMTT(30) DEF IInv, Types, Places, Accompanied, Goals, Upstreams
<1>2. \A q \in Requests \ {r} : UNCHANGED State(q)
  BY DEF IInv, Types, State
<1>3. ReporterInv(r)' /\ ~ paniced'
  BY DEF IInv, Types, RequestInv, ReporterInv, Places, Accompanied, Goals
<1>4. AnswerInv(r)'
  BY SMT DEF IInv, Types, RequestInv, ReporterInv, AnswerInv, at, Early, Over, Places,
     Accompanied, Goals, Upstreams
<1>5. /\ at(r) \notin {"cancelled", "failed"} \cup Over /\ at(r)' \notin {"save", "done"}
      /\ UNCHANGED <<storeOpen, completed[r], recorded[r], selected[r]>>
  BY DEF IInv, Types, at, Over, Places, Accompanied, Goals
<1> QED
  BY <1>1, <1>2, <1>3, <1>4, <1>5, PlainStep

LEMMA WriteFailsInv == ASSUME IInv, NEW r \in Requests, WriteFails(r) PROVE IInv'
<1> USE DEF WriteFails, StopReporter, configuration, router, request, waiting, client
<1>1. Types' /\ (storeOpen' => storeOpen)
  BY SMTT(30) DEF IInv, Types, Places, Accompanied, Goals, Upstreams
<1>2. \A q \in Requests \ {r} : UNCHANGED State(q)
  BY DEF IInv, Types, State
<1>3. ReporterInv(r)' /\ ~ paniced'
  BY DEF IInv, Types, RequestInv, ReporterInv, Places, Accompanied, Goals
<1>4. AnswerInv(r)'
  BY SMT DEF IInv, Types, RequestInv, ReporterInv, AnswerInv, at, Early, Over, Places,
     Accompanied, Goals, Upstreams
<1>5. /\ at(r) \notin {"cancelled", "failed"} \cup Over /\ at(r)' \notin {"save", "done"}
      /\ UNCHANGED <<storeOpen, completed[r], recorded[r], selected[r]>>
  BY DEF IInv, Types, at, Over, Places, Accompanied, Goals
<1> QED
  BY <1>1, <1>2, <1>3, <1>4, <1>5, PlainStep

LEMMA MoreFramesInv == ASSUME IInv, NEW r \in Requests, MoreFrames(r) PROVE IInv'
<1> USE DEF MoreFrames, configuration, router, request, waiting, client
<1>1. Types' /\ (storeOpen' => storeOpen)
  BY SMTT(30) DEF IInv, Types, Places, Accompanied, Goals, Upstreams
<1>2. \A q \in Requests \ {r} : UNCHANGED State(q)
  BY DEF IInv, Types, State
<1>3. ReporterInv(r)' /\ ~ paniced'
  BY DEF IInv, Types, RequestInv, ReporterInv, Places, Accompanied, Goals
<1>4. AnswerInv(r)'
  BY SMT DEF IInv, Types, RequestInv, ReporterInv, AnswerInv, at, Early, Over, Places,
     Accompanied, Goals, Upstreams
<1>5. /\ at(r) \notin {"cancelled", "failed"} \cup Over /\ at(r)' \notin {"save", "done"}
      /\ UNCHANGED <<storeOpen, completed[r], recorded[r], selected[r]>>
  BY DEF IInv, Types, at, Over, Places, Accompanied, Goals
<1> QED
  BY <1>1, <1>2, <1>3, <1>4, <1>5, PlainStep

LEMMA StreamEndsInv == ASSUME IInv, NEW r \in Requests, StreamEnds(r) PROVE IInv'
<1> USE DEF StreamEnds, WriteEnd, StopReporter, configuration, router, request, waiting, client
<1>1. Types' /\ (storeOpen' => storeOpen)
  BY SMTT(30) DEF IInv, Types, Places, Accompanied, Goals, Upstreams, Ends
<1>2. \A q \in Requests \ {r} : UNCHANGED State(q)
  BY DEF IInv, Types, State
<1>3. ReporterInv(r)' /\ ~ paniced'
  BY DEF IInv, Types, RequestInv, ReporterInv, Places, Accompanied, Goals
<1>4. AnswerInv(r)'
  BY SMT DEF IInv, Types, RequestInv, ReporterInv, AnswerInv, at, Early, Over, Places,
     Accompanied, Goals, Upstreams, Ends
<1>5. /\ at(r) \notin {"cancelled", "failed"} \cup Over /\ at(r)' \notin {"save", "done"}
      /\ UNCHANGED <<storeOpen, completed[r], recorded[r], selected[r]>>
  BY DEF IInv, Types, at, Over, Places, Accompanied, Goals
<1> QED
  BY <1>1, <1>2, <1>3, <1>4, <1>5, PlainStep

LEMMA StreamFailsInv == ASSUME IInv, NEW r \in Requests, StreamFails(r) PROVE IInv'
<1> USE DEF StreamFails, WriteEnd, StopReporter, configuration, router, request, waiting, client
<1>1. Types' /\ (storeOpen' => storeOpen)
  BY SMTT(30) DEF IInv, Types, Places, Accompanied, Goals, Upstreams, Ends
<1>2. \A q \in Requests \ {r} : UNCHANGED State(q)
  BY DEF IInv, Types, State
<1>3. ReporterInv(r)' /\ ~ paniced'
  BY DEF IInv, Types, RequestInv, ReporterInv, Places, Accompanied, Goals
<1>4. AnswerInv(r)'
  BY SMT DEF IInv, Types, RequestInv, ReporterInv, AnswerInv, at, Early, Over, Places,
     Accompanied, Goals, Upstreams, Ends
<1>5. /\ at(r) \notin {"cancelled", "failed"} \cup Over /\ at(r)' \notin {"save", "done"}
      /\ UNCHANGED <<storeOpen, completed[r], recorded[r], selected[r]>>
  BY DEF IInv, Types, at, Over, Places, Accompanied, Goals
<1> QED
  BY <1>1, <1>2, <1>3, <1>4, <1>5, PlainStep

LEMMA LogCompletionInv == ASSUME IInv, NEW r \in Requests, LogCompletion(r) PROVE IInv'
<1>1. /\ pc[r] = "log"
      /\ pc' = [pc EXCEPT ![r] = "save"]
      /\ completed' = [completed EXCEPT ![r] = completed[r] + 1]
      /\ UNCHANGED <<after, stream, gone, failure, head, reporter, stopping, frames, last,
                      upstream, recorded, selected, storeOpen, paniced, reports>>
  BY DEF LogCompletion, configuration, router, request, waiting, client
<1>2. Types'
  BY <1>1, SMT DEF IInv, Types, Places, Accompanied, Goals, Upstreams
<1>3. \A q \in Requests \ {r} : UNCHANGED State(q)
  BY <1>1 DEF IInv, Types, State
<1>4. ReporterInv(r)' /\ ~ paniced'
  BY <1>1 DEF IInv, Types, RequestInv, ReporterInv, Places, Accompanied, Goals
<1>5. AnswerInv(r)'
  BY <1>1, SMT DEF IInv, Types, RequestInv, ReporterInv, AnswerInv, at, Early, Over, Places,
     Accompanied, Goals, Upstreams
<1>6. RecordInv(r)'
  <2>1. at(r) = "log" /\ completed[r] = 0 /\ recorded[r] = <<>>
    BY <1>1 DEF IInv, Types, RequestInv, RecordInv, at
  <2>2. at(r)' = "save" /\ completed'[r] = 1 /\ recorded'[r] = <<>>
    BY <1>1, <2>1, SMT DEF IInv, Types, at
  <2>3. RecordedStatus(r)' = RecordedStatus(r)
    BY <1>1 DEF RecordedStatus
  <2> QED
    BY <2>2, <2>3 DEF RecordInv
<1>7. LateInv(r)'
  <2>1. at(r)' \in Over /\ UNCHANGED selected[r]
    BY <1>1 DEF IInv, Types, at, Over, Places, Accompanied, Goals
  <2> QED
    BY <2>1, EndingLate DEF IInv, RequestInv
<1> QED
  BY <1>1, <1>2, <1>3, <1>4, <1>5, <1>6, <1>7, OneRequest DEF RequestInv

LEMMA SaveInv == ASSUME IInv, NEW r \in Requests, Save(r) PROVE IInv'
<1>1. CASE storeOpen
  <2>1. /\ pc[r] = "save"
        /\ pc' = [pc EXCEPT ![r] = "done"]
        /\ recorded' = [recorded EXCEPT ![r] = Append(recorded[r], RecordedStatus(r))]
        /\ UNCHANGED <<after, stream, gone, failure, head, reporter, stopping, frames, last,
                        upstream, completed, selected, storeOpen, paniced, reports>>
    BY <1>1 DEF Save, configuration, router, request, waiting, client
  <2>2. Types'
    <3>1. recorded'[r] \in Seq(Nat)
      BY <2>1, RecordedIsNat, AppendProperties DEF IInv, Types
    <3>2. recorded' \in [Requests -> Seq(Nat)]
      BY <2>1, <3>1 DEF IInv, Types
    <3> QED
      BY <2>1, <3>2 DEF IInv, Types, Places, Accompanied, Goals
  <2>3. \A q \in Requests \ {r} : UNCHANGED State(q)
    BY <2>1 DEF IInv, Types, State
  <2>4. ReporterInv(r)' /\ ~ paniced'
    BY <2>1 DEF IInv, Types, RequestInv, ReporterInv, Places, Accompanied, Goals
  <2>5. AnswerInv(r)'
    BY <1>1, <2>1, SMT DEF IInv, Types, RequestInv, ReporterInv, AnswerInv, at, Early, Over,
       Places, Accompanied, Goals, Upstreams
  <2>6. RecordInv(r)'
    <3>1. at(r) = "save" /\ completed[r] = 1 /\ recorded[r] = <<>>
      BY <2>1 DEF IInv, Types, RequestInv, RecordInv, at
    <3>2. at(r)' = "done" /\ completed'[r] = 1 /\ recorded'[r] = <<RecordedStatus(r)>>
      BY <1>1, <2>1, <3>1, SMT DEF IInv, Types, at
    <3>3. RecordedStatus(r)' = RecordedStatus(r)
      BY <2>1 DEF RecordedStatus
    <3> QED
      BY <3>2, <3>3 DEF RecordInv
  <2>7. LateInv(r)'
    <3>1. at(r)' \in Over /\ UNCHANGED selected[r]
      BY <1>1, <2>1 DEF IInv, Types, at, Over, Places, Accompanied, Goals
    <3> QED
      BY <3>1, EndingLate DEF IInv, RequestInv
  <2> QED
    BY <2>1, <2>2, <2>3, <2>4, <2>5, <2>6, <2>7, OneRequest DEF RequestInv
<1>2. CASE ~ storeOpen
  <2>1. /\ pc[r] = "save"
        /\ pc' = [pc EXCEPT ![r] = "done"]
        /\ recorded' = [recorded EXCEPT ![r] = recorded[r]]
        /\ UNCHANGED <<after, stream, gone, failure, head, reporter, stopping, frames, last,
                        upstream, completed, selected, storeOpen, paniced, reports>>
    BY <1>2 DEF Save, configuration, router, request, waiting, client
  <2>2. Types'
    <3>1. recorded'[r] \in Seq(Nat)
      BY <2>1, RecordedIsNat, AppendProperties DEF IInv, Types
    <3>2. recorded' \in [Requests -> Seq(Nat)]
      BY <2>1, <3>1 DEF IInv, Types
    <3> QED
      BY <2>1, <3>2 DEF IInv, Types, Places, Accompanied, Goals
  <2>3. \A q \in Requests \ {r} : UNCHANGED State(q)
    BY <2>1 DEF IInv, Types, State
  <2>4. ReporterInv(r)' /\ ~ paniced'
    BY <2>1 DEF IInv, Types, RequestInv, ReporterInv, Places, Accompanied, Goals
  <2>5. AnswerInv(r)'
    BY <1>2, <2>1, SMT DEF IInv, Types, RequestInv, ReporterInv, AnswerInv, at, Early, Over,
       Places, Accompanied, Goals, Upstreams
  <2>6. RecordInv(r)'
    <3>1. at(r) = "save" /\ completed[r] = 1 /\ recorded[r] = <<>>
      BY <2>1 DEF IInv, Types, RequestInv, RecordInv, at
    <3>2. at(r)' = "done" /\ completed'[r] = 1 /\ recorded'[r] = <<>> /\ ~ storeOpen'
      BY <1>2, <2>1, <3>1, SMT DEF IInv, Types, at
    <3>3. RecordedStatus(r)' = RecordedStatus(r)
      BY <2>1 DEF RecordedStatus
    <3> QED
      BY <3>2, <3>3 DEF RecordInv
  <2>7. LateInv(r)'
    <3>1. at(r)' \in Over /\ UNCHANGED selected[r]
      BY <1>2, <2>1 DEF IInv, Types, at, Over, Places, Accompanied, Goals
    <3> QED
      BY <3>1, EndingLate DEF IInv, RequestInv
  <2> QED
    BY <2>1, <2>2, <2>3, <2>4, <2>5, <2>6, <2>7, OneRequest DEF RequestInv
<1> QED
  BY <1>1, <1>2

LEMMA CancelInv == ASSUME IInv, NEW r \in Requests, Cancel(r) PROVE IInv'
<1> USE DEF Cancel, configuration, router, request, waiting, client
<1>1. Types' /\ (storeOpen' => storeOpen)
  BY SMTT(30) DEF IInv, Types, Places, Accompanied, Goals, Upstreams
<1>2. \A q \in Requests \ {r} : UNCHANGED State(q)
  BY DEF IInv, Types, State
<1>3. ReporterInv(r)' /\ ~ paniced'
  BY DEF IInv, Types, RequestInv, ReporterInv, Places, Accompanied, Goals
<1>4. AnswerInv(r)'
  BY SMT DEF IInv, Types, RequestInv, ReporterInv, AnswerInv, at, Early, Over, Places,
     Accompanied, Goals, Upstreams
<1>5. RecordInv(r)'
  BY DEF IInv, Types, RequestInv, ReporterInv, RecordInv, RecordedStatus, at, Places,
     Accompanied, Goals
<1>6. LateInv(r)'
  BY DEF IInv, Types, RequestInv, ReporterInv, LateInv, at, Over, Places, Accompanied, Goals
<1> QED
  BY <1>1, <1>2, <1>3, <1>4, <1>5, <1>6, OneRequest DEF RequestInv

LEMMA StartCallInv == ASSUME IInv, NEW r \in Requests, StartCall(r) PROVE IInv'
<1>1. PICK t \in untried[r] :
        selected' = [selected EXCEPT ![r] =
                       Append(@, [provider |-> snapshot[r][t + 1], late |-> gone[r]])]
  BY DEF StartCall
<1>2. /\ pc[r] = "call"
      /\ pc' = [pc EXCEPT ![r] = IF gone[r] THEN "cancelled" ELSE "headers"]
      /\ failure' = [failure EXCEPT ![r] = 0]
      /\ upstream' = [upstream EXCEPT ![r] = "none"]
      /\ reporter' = [reporter EXCEPT ![r] = "select"]
      /\ stopping' = [stopping EXCEPT ![r] = FALSE]
      /\ UNCHANGED <<after, stream, gone, head, frames, last, completed, recorded, storeOpen,
                     paniced, reports>>
  BY DEF StartCall, StartReporter, client
<1> DEFINE c == [provider |-> snapshot[r][t + 1], late |-> gone[r]]
<1>3. PICK S : selected[r] \in Seq(S)
  BY DEF IInv, Types
<1>4. /\ selected'[r] \in Seq(S \cup {c}) /\ Len(selected[r]) \in Nat
      /\ Len(selected'[r]) = Len(selected[r]) + 1
      /\ \A i \in 1 .. Len(selected[r]) : selected'[r][i] = selected[r][i]
      /\ selected'[r][Len(selected[r]) + 1] = c
  <2> HIDE DEF c
  <2>1. selected'[r] = Append(selected[r], c)
    BY <1>1 DEF IInv, Types, c
  <2>2. selected[r] \in Seq(S \cup {c})
    BY <1>3, SeqMonotonic
  <2> QED
    BY <1>3, <2>1, <2>2, AppendProperties, LenProperties
<1>5. c.late = gone[r]
  OBVIOUS
<1> HIDE DEF c
<1>6. \A q \in Requests \ {r} : UNCHANGED State(q)
  BY <1>1, <1>2 DEF IInv, Types, State
<1>7. Types'
  <2>1. \A q \in Requests \ {r} : selected'[q] = selected[q]
    BY <1>6 DEF State
  <2>2. selected' = [q \in Requests |-> selected'[q]]
    BY <1>1 DEF IInv, Types
  <2>3. \A q \in Requests : \E T : selected'[q] \in Seq(T)
    BY <1>4, <2>1 DEF IInv, Types
  <2>4. /\ pc' \in [Requests -> Places] /\ failure' \in [Requests -> Nat]
        /\ upstream' \in [Requests -> Upstreams]
        /\ reporter' \in [Requests -> {"none", "select", "log"}]
        /\ stopping' \in [Requests -> BOOLEAN]
    BY <1>2 DEF IInv, Types, Places, Accompanied, Upstreams
  <2> QED
    BY <1>2, <2>2, <2>3, <2>4 DEF IInv, Types
<1>8. ReporterInv(r)' /\ ~ paniced'
  BY <1>2 DEF IInv, Types, RequestInv, ReporterInv, Places, Accompanied, Goals
<1>9. AnswerInv(r)'
  BY <1>2, SMT DEF IInv, Types, RequestInv, AnswerInv, at, Early, Over
<1>10. RecordInv(r)'
  <2>1. /\ at(r) \notin {"save", "done"} /\ at(r)' \notin {"save", "done"}
        /\ UNCHANGED <<completed[r], recorded[r]>>
    BY <1>2 DEF IInv, Types, at
  <2> QED
    BY <2>1, NotRecordedYet DEF IInv, RequestInv
<1>11. LateInv(r)'
  <2> SUFFICES ASSUME NEW i \in 1 .. Len(selected'[r]), selected'[r][i].late
               PROVE  i = Len(selected'[r]) /\ at(r)' = "cancelled"
    BY DEF LateInv
  <2>1. at(r) = "call"
    BY <1>2 DEF at
  <2>2. \A k \in 1 .. Len(selected[r]) : ~ selected[r][k].late
    BY <2>1 DEF IInv, RequestInv, LateInv, Over
  <2>3. ~ (i \in 1 .. Len(selected[r]))
    BY <1>4, <2>2
  <2>4. i = Len(selected[r]) + 1
    BY <1>4, <2>3, SMT
  <2>5. gone[r]
    BY <1>4, <1>5, <2>4
  <2> QED
    BY <1>2, <1>4, <2>4, <2>5 DEF IInv, Types, at
<1> QED
  BY <1>2, <1>6, <1>7, <1>8, <1>9, <1>10, <1>11, OneRequest DEF RequestInv

LEMMA WorldInv ==
  ASSUME IInv,
         UNCHANGED <<pc, after, request, gone, waiting, client, upstream, completed, recorded>>,
         storeOpen' = storeOpen \/ storeOpen' = FALSE
  PROVE  IInv'
<1> USE DEF request, waiting, client
<1>1. Types' /\ ~ paniced'
  BY DEF IInv, Types
<1>2. ASSUME NEW r \in Requests PROVE RequestInv(r)'
  BY Untouched DEF IInv, State
<1> QED
  BY <1>1, <1>2 DEF IInv

-----------------------------------------------------------------------------
(* The theorems.                                                           *)

LEMMA NextInv == ASSUME IInv, [Next]_vars PROVE IInv'
<1>1. ASSUME NEW r \in Requests, FromClient(r) PROVE IInv'
  BY <1>1, ReadBodyInv, ServeInv, WriteFrameInv DEF FromClient
<1>2. ASSUME NEW r \in Requests, FromUpstream(r) PROVE IInv'
  <2>1. CASE \E status \in {400, 499, 502, 504} : NoResponse(r, status)
    BY <2>1, NoResponseInv
  <2>2. CASE \E status \in {200, 304, 400, 503} : Response(r, status)
    BY <2>2, ResponseInv
  <2>3. CASE \E ok \in BOOLEAN : FirstFrame(r, ok) \/ WholeBody(r, ok)
    BY <2>3, FirstFrameInv, WholeBodyInv
  <2> QED
    BY <1>2, <2>1, <2>2, <2>3, MoreFramesInv, StreamEndsInv, StreamFailsInv DEF FromUpstream
<1>3. ASSUME NEW r \in Requests, Handler(r) PROVE IInv'
  BY <1>3, JoinInv, AuthorizeInv, RejectBodyInv, LookupInv, StartCallInv, AwaitFirstFrameInv,
     SwitchProviderInv, GiveUpInv, WriteFailsInv, LogCompletionInv, SaveInv DEF Handler
<1>4. ASSUME NEW r \in Requests, Reporter(r) \/ Tick(r) \/ Cancel(r) PROVE IInv'
  BY <1>4, ReportInv, LeaveInv, TickInv, CancelInv DEF Reporter
<1>5. CASE ChangeConfiguration \/ CloseStore
  <2>1. /\ UNCHANGED <<pc, after, request, gone, waiting, client, upstream, completed, recorded>>
        /\ storeOpen' = storeOpen \/ storeOpen' = FALSE
    BY <1>5 DEF ChangeConfiguration, CloseStore
  <2> QED
    BY <2>1, WorldInv
<1>6. CASE AllDone \/ UNCHANGED vars
  BY <1>6, WorldInv DEF AllDone, vars
<1> QED
  BY <1>1, <1>2, <1>3, <1>4, <1>5, <1>6 DEF Next

\* What the handler keeps true between any two of its steps.
THEOREM Invariant == Spec => []IInv
  BY InitInv, NextInv, PTL DEF Spec

\* Each reporter's channel is closed once, and no finished request leaves one
\* running, on every path through proxy (server.go:324-342).
THEOREM ReportersStopOnce == Spec => []StoppedOnce
<1>1. IInv => StoppedOnce
  BY DEF IInv, RequestInv, ReporterInv, StoppedOnce, Accompanied
<1> QED
  BY <1>1, Invariant, PTL

\* A provider that fails before it has produced anything to forward never
\* becomes the client's 200 (upstream/translated_stream.go:11).
THEOREM NoEmptySuccess == Spec => []SuccessHasContent
<1>1. IInv => SuccessHasContent
  <2> SUFFICES ASSUME IInv, NEW r \in Requests, head[r] = 200, frames[r] = 0
               PROVE  upstream[r] \in {"open", "complete"}
    BY DEF SuccessHasContent
  <2>1. at(r) \in Places \ {"join"}
    BY DEF IInv, Types, RequestInv, ReporterInv, at, Places, Goals, Accompanied
  <2>2. at(r) \in {"write", "frame"} \cup Over
    BY <2>1 DEF IInv, RequestInv, AnswerInv, Places, Goals, Accompanied, Early, Over
  <2> QED
    BY <2>2 DEF IInv, RequestInv, AnswerInv
<1> QED
  BY <1>1, Invariant, PTL

\* A client that stayed finds in its request's row the status it was sent, or a
\* 502 for a stream that broke; 200 is only ever recorded for an answer that was
\* complete upstream; and there is one row, and one completion entry
\* (README.md:68).
THEOREM RecordsAreTrue == Spec => []RecordTellsOutcome
<1>1. IInv => RecordTellsOutcome
  <2> SUFFICES ASSUME IInv, NEW r \in Requests
               PROVE  /\ \A i \in 1 .. Len(recorded[r]) :
                           /\ last[r] = "complete" => recorded[r][i] = head[r]
                           /\ head[r] = 200 /\ last[r] \in {"open", "error"} =>
                                recorded[r][i] = 502
                           /\ head[r] # 200 => recorded[r][i] = head[r]
                           /\ recorded[r][i] = 200 => upstream[r] = "complete"
                      /\ pc[r] = "done" =>
                           completed[r] = 1 /\ (storeOpen => Len(recorded[r]) = 1)
    BY DEF RecordTellsOutcome
  <2>1. RecordInv(r) /\ AnswerInv(r) /\ Len(<<>>) = 0
    BY EmptySeq DEF IInv, RequestInv
  <2>2. CASE recorded[r] = <<>> /\ (at(r) = "done" => ~ storeOpen)
    <3>1. \A i \in 1 .. Len(recorded[r]) : FALSE
      BY <2>1, <2>2, SMT
    <3>2. pc[r] = "done" => at(r) = "done"
      BY DEF at
    <3> QED
      BY <2>1, <2>2, <3>1, <3>2 DEF RecordInv
  <2>3. CASE at(r) = "done" /\ recorded[r] = <<RecordedStatus(r)>>
    <3>1. /\ head[r] = 200 =>
               /\ failure[r] = 0 <=> upstream[r] = "complete"
               /\ failure[r] = 0 => last[r] \in {"complete", "lost"}
               /\ last[r] = "complete" => failure[r] = 0
          /\ completed[r] = 1
      BY <2>1, <2>3 DEF AnswerInv, RecordInv, Over
    <3>2. /\ last[r] = "complete" => RecordedStatus(r) = head[r]
          /\ head[r] = 200 /\ last[r] \in {"open", "error"} => RecordedStatus(r) = 502
          /\ head[r] # 200 => RecordedStatus(r) = head[r]
          /\ RecordedStatus(r) = 200 => upstream[r] = "complete"
      BY <3>1, SMT DEF RecordedStatus
    <3>3. /\ Len(recorded[r]) = 1
          /\ \A i \in 1 .. Len(recorded[r]) : recorded[r][i] = RecordedStatus(r)
      BY <2>3, SMT
    <3> QED
      BY <3>1, <3>2, <3>3
  <2> QED
    BY <2>1, <2>2, <2>3 DEF RecordInv
<1> QED
  BY <1>1, Invariant, PTL

\* A client that leaves costs its providers at most one more attempt
\* (client.go:212, 241).
THEOREM LeavingCostsOneAttempt == Spec => []LeavingEndsFailover
<1>1. IInv => LeavingEndsFailover
  <2> SUFFICES ASSUME IInv, NEW r \in Requests
               PROVE  Cardinality({i \in DOMAIN selected[r] : selected[r][i].late}) <= 1
    BY DEF LeavingEndsFailover
  <2> DEFINE late == {i \in DOMAIN selected[r] : selected[r][i].late}
  <2>1. PICK S : selected[r] \in Seq(S)
    BY DEF IInv, Types
  <2>2. DOMAIN selected[r] = 1 .. Len(selected[r])
    BY <2>1, LenProperties
  <2>3. late \subseteq {Len(selected[r])}
    BY <2>2 DEF IInv, RequestInv, LateInv
  <2>4. IsFiniteSet({Len(selected[r])}) /\ Cardinality({Len(selected[r])}) = 1
    BY FS_Singleton
  <2> HIDE DEF late
  <2>5. Cardinality(late) <= 1
    BY <2>3, <2>4, FS_Subset, SMT
  <2> QED
    BY <2>5 DEF late
<1> QED
  BY <1>1, Invariant, PTL

\* Once the client has been sent anything, no other provider is asked
\* (README.md:75).
THEOREM NoSwitch == Spec => NoSwitchAfterFirstByte
<1> DEFINE Kept == \A r \in Requests : head[r] # 0 => selected'[r] = selected[r]
<1>1. IInv /\ [Next]_vars => [Kept]_vars
  <2> SUFFICES ASSUME IInv, Next, NEW r \in Requests, head[r] # 0
               PROVE  selected'[r] = selected[r]
    OBVIOUS
  <2>1. ASSUME NEW q \in Requests, StartCall(q) PROVE selected'[r] = selected[r]
    <3>1. at(q) = "call"
      BY <2>1 DEF StartCall, at
    <3>2. head[q] = 0
      BY <3>1 DEF IInv, RequestInv, AnswerInv, Early
    <3>3. r # q
      BY <3>2
    <3>4. \E c : selected' = [selected EXCEPT ![q] = Append(@, c)]
      BY <2>1 DEF StartCall
    <3> QED
      BY <3>3, <3>4 DEF IInv, Types
  <2>2. ASSUME NEW q \in Requests, FromClient(q) \/ FromUpstream(q) PROVE UNCHANGED selected
    BY <2>2 DEF FromClient, FromUpstream, request, ReadBody, Serve, WriteFrame, NoResponse,
       Response,
       FirstFrame, WholeBody, MoreFrames, StreamEnds, StreamFails
  <2>3. ASSUME NEW q \in Requests, Handler(q) PROVE StartCall(q) \/ UNCHANGED selected
    BY <2>3 DEF Handler, request, Join, Authorize, RejectBody, Lookup, AwaitFirstFrame,
       SwitchProvider, GiveUp, WriteFails, LogCompletion, Save
  <2>4. ASSUME NEW q \in Requests, Reporter(q) \/ Tick(q) \/ Cancel(q) PROVE UNCHANGED selected
    BY <2>4 DEF Reporter, request, Report, Leave, Tick, Cancel
  <2>5. ASSUME ChangeConfiguration \/ CloseStore \/ AllDone PROVE UNCHANGED selected
    BY <2>5 DEF ChangeConfiguration, CloseStore, AllDone, vars, request
  <2> QED
    BY <2>1, <2>2, <2>3, <2>4, <2>5 DEF Next
<1>2. NoSwitchAfterFirstByte <=> [][Kept]_vars
  BY DEF NoSwitchAfterFirstByte
<1> HIDE DEF Kept
<1> QED
  BY <1>1, <1>2, Invariant, PTL DEF Spec

\* No waiting report follows the completion entry (runtime_logs.go:102).
THEOREM NoLateReport == Spec => NoReportAfterCompletion
<1> DEFINE Kept == \A r \in Requests : completed[r] = 1 => reports'[r] = reports[r]
<1>1. IInv /\ [Next]_vars => [Kept]_vars
  <2> SUFFICES ASSUME IInv, Next, NEW r \in Requests, completed[r] = 1
               PROVE  reports'[r] = reports[r]
    OBVIOUS
  <2>1. ASSUME NEW q \in Requests, Report(q) PROVE reports'[r] = reports[r]
    <3>1. at(r) \in {"save", "done"}
      BY SMT DEF IInv, RequestInv, RecordInv
    <3>2. reporter[r] = "none"
      BY <3>1 DEF IInv, RequestInv, ReporterInv, at, Goals, Accompanied
    <3>3. r # q
      BY <2>1, <3>2 DEF Report
    <3> QED
      BY <2>1, <3>3 DEF Report, IInv, Types
  <2>2. ASSUME NEW q \in Requests, FromClient(q) \/ FromUpstream(q) PROVE UNCHANGED reports
    BY <2>2 DEF FromClient, FromUpstream, waiting, StartReporter, StopReporter, ReadBody, Serve,
       WriteFrame, NoResponse, Response, FirstFrame, WholeBody, MoreFrames, StreamEnds, StreamFails
  <2>3. ASSUME NEW q \in Requests, Handler(q) PROVE UNCHANGED reports
    BY <2>3 DEF Handler, waiting, StartReporter, StopReporter, Join, Authorize, RejectBody,
       Lookup, StartCall, AwaitFirstFrame, SwitchProvider, GiveUp, WriteFails, LogCompletion, Save
  <2>4. ASSUME NEW q \in Requests, Reporter(q) \/ Tick(q) \/ Cancel(q)
        PROVE  Report(q) \/ UNCHANGED reports
    BY <2>4 DEF Reporter, waiting, Leave, Tick, Cancel
  <2>5. ASSUME ChangeConfiguration \/ CloseStore \/ AllDone PROVE UNCHANGED reports
    BY <2>5 DEF ChangeConfiguration, CloseStore, AllDone, vars, waiting
  <2> QED
    BY <2>1, <2>2, <2>3, <2>4, <2>5 DEF Next
<1>2. NoReportAfterCompletion <=> [][Kept]_vars
  BY DEF NoReportAfterCompletion
<1> HIDE DEF Kept
<1> QED
  BY <1>1, <1>2, Invariant, PTL DEF Spec

==============================================================================
