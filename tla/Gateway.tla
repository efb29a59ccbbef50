------------------------------ MODULE Gateway ------------------------------
(***************************************************************************)
(* internal/server/server.go: proxy, the handler of every model request,   *)
(* with the reporters of runtime_logs.go (trackWaiting) that run beside    *)
(* it, the outcomes of upstream.Client.call, and writeConvertedStream.     *)
(* Requests run concurrently with changes of the configuration, with       *)
(* clients that go away, and with the shutdown that closes the store       *)
(* under them.  The choice of targets is RoundRobin's, which Router        *)
(* implements; targets are positions in the request's own snapshot.        *)
(***************************************************************************)
EXTENDS Integers, Sequences, FiniteSets

CONSTANTS
  Requests,
  Order,        \* the providers of the exposed model, in configured order
  Name,         \* the exposed model
  MaxFrames,    \* frames an upstream stream may have: bounds the model
  MaxReports,   \* waiting reports per request: bounds the model
  MaxChanges    \* configuration changes: bounds the model

ASSUME GatewayAssumption ==
  /\ MaxFrames \in Nat \ {0} /\ MaxReports \in Nat /\ MaxChanges \in Nat
  /\ Len(Order) > 0

Providers == {Order[i] : i \in 1 .. Len(Order)}

VARIABLES
  enabled,      \* configuration: the enabled providers
  keyValid,     \* configuration: the callers' access key exists and is enabled
  changes,      \* counts configuration changes
  storeOpen,    \* FALSE once Store.Close has run
  next, phase, turn, untried,  \* the router: RoundRobin
  pc, after,    \* the handler: where it is, and where it goes after a join
  stream,       \* internal.Stream
  gone,         \* the client has cancelled the request
  snapshot,     \* exposed.Targets
  target,       \* position of the target being called
  selected,     \* history: the providers called, and whether the client had gone
  received,     \* responseReceived
  failure,      \* status of the failed call, or of the stream; 0 is none
  reporter,     \* the goroutine of trackWaiting: "none", "select", "log"
  stopping,     \* its stop channel is closed
  paniced,      \* a stop channel was closed twice
  reports,      \* waiting reports logged
  head,         \* status line sent to the client, 0 when none
  frames,       \* stream frames sent to the client
  last,         \* how the answer ended for the client: "open", "complete", "error", or
                \* "lost" when the client had gone before its end was written
  upstream,     \* the answer of the selected upstream: "none", "open", "complete", "failed"
  completed,    \* completion entries in the runtime log
  recorded      \* statuses of the request-log rows saved

configuration == <<enabled, keyValid, changes>>
router   == <<next, phase, turn, untried>>
request  == <<stream, snapshot, target, selected, received, failure>>
waiting  == <<reporter, stopping, paniced, reports>>
client   == <<head, frames, last>>
vars == <<configuration, storeOpen, router, pc, after, request, gone, waiting, client,
          upstream, completed, recorded>>

RR == INSTANCE RoundRobin WITH Names <- {Name}, MaxTargets <- Len(Order)

Init ==
  /\ enabled \in SUBSET Providers /\ keyValid \in BOOLEAN /\ changes = 0
  /\ storeOpen = TRUE
  /\ RR!Init
  /\ pc = [r \in Requests |-> "new"] /\ after = [r \in Requests |-> "new"]
  /\ stream \in [Requests -> BOOLEAN]
  /\ gone = [r \in Requests |-> FALSE]
  /\ snapshot = [r \in Requests |-> <<>>] /\ target = [r \in Requests |-> 0]
  /\ selected = [r \in Requests |-> <<>>]
  /\ received = [r \in Requests |-> FALSE] /\ failure = [r \in Requests |-> 0]
  /\ reporter = [r \in Requests |-> "none"] /\ stopping = [r \in Requests |-> TRUE]
  /\ paniced = FALSE /\ reports = [r \in Requests |-> 0]
  /\ head = [r \in Requests |-> 0] /\ frames = [r \in Requests |-> 0]
  /\ last = [r \in Requests |-> "open"] /\ upstream = [r \in Requests |-> "none"]
  /\ completed = [r \in Requests |-> 0] /\ recorded = [r \in Requests |-> <<>>]

-----------------------------------------------------------------------------
\* Reporters, and how the handler starts, stops and joins them.

StartReporter(r) ==
  /\ reporter' = [reporter EXCEPT ![r] = "select"]
  /\ stopping' = [stopping EXCEPT ![r] = FALSE]
  /\ UNCHANGED <<paniced, reports>>

\* Mutant: the stop function does not wait for the reporter.
StopReporterNoJoin(r, goal) ==
  /\ stopping' = [stopping EXCEPT ![r] = TRUE]
  /\ paniced' = (paniced \/ stopping[r])
  /\ pc' = [pc EXCEPT ![r] = goal]
  /\ UNCHANGED <<after, reporter, reports>>

\* close(stop), which panics on a closed channel, then wait for done.
StopReporter(r, goal) ==
  /\ stopping' = [stopping EXCEPT ![r] = TRUE]
  /\ paniced' = (paniced \/ stopping[r])
  /\ pc' = [pc EXCEPT ![r] = "join"]
  /\ after' = [after EXCEPT ![r] = goal]
  /\ UNCHANGED <<reporter, reports>>

Join(r) ==
  /\ pc[r] = "join" /\ reporter[r] = "none"
  /\ pc' = [pc EXCEPT ![r] = after[r]]
  /\ UNCHANGED <<configuration, storeOpen, router, after, request, gone, waiting, client,
                 upstream, completed, recorded>>

\* The reporter's select takes a tick even when stop is closed as well.
Tick(r) ==
  /\ reporter[r] = "select" /\ reports[r] < MaxReports
  /\ reporter' = [reporter EXCEPT ![r] = "log"]
  /\ UNCHANGED <<configuration, storeOpen, router, pc, after, request, gone, stopping,
                 paniced, reports, client, upstream, completed, recorded>>

Report(r) ==
  /\ reporter[r] = "log"
  /\ reporter' = [reporter EXCEPT ![r] = "select"]
  /\ reports' = [reports EXCEPT ![r] = @ + 1]
  /\ UNCHANGED <<configuration, storeOpen, router, pc, after, request, gone, stopping,
                 paniced, client, upstream, completed, recorded>>

Leave(r) ==
  /\ reporter[r] = "select" /\ stopping[r]
  /\ reporter' = [reporter EXCEPT ![r] = "none"]
  /\ UNCHANGED <<configuration, storeOpen, router, pc, after, request, gone, stopping,
                 paniced, reports, client, upstream, completed, recorded>>

-----------------------------------------------------------------------------
\* The handler up to the choice of a provider.

\* What the handler writes last.  The error of a write to a client that has
\* gone is discarded, so the handler goes on as if it had been read.
WriteEnd(r, end) == last' = [last EXCEPT ![r] = IF gone[r] THEN "lost" ELSE end]

\* An answer that is not a stream: its status line and body in one write.
Answer(r, status) ==
  /\ head' = [head EXCEPT ![r] = status]
  /\ WriteEnd(r, "complete")
  /\ pc' = [pc EXCEPT ![r] = "log"]
  /\ UNCHANGED frames

\* Mutant: the handler goes on after the 401.
AuthorizeGoesOn(r) ==
  /\ pc[r] = "new"
  /\ head' = [head EXCEPT ![r] = IF keyValid THEN 0 ELSE 401]
  /\ StartReporter(r)
  /\ pc' = [pc EXCEPT ![r] = "reading"]
  /\ UNCHANGED <<configuration, storeOpen, router, after, request, gone, frames, last,
                 upstream, completed, recorded>>

Authorize(r) ==
  /\ pc[r] = "new"
  /\ IF keyValid
       THEN /\ StartReporter(r)
            /\ pc' = [pc EXCEPT ![r] = "reading"]
            /\ UNCHANGED client
       ELSE /\ Answer(r, 401)
            /\ UNCHANGED waiting
  /\ UNCHANGED <<configuration, storeOpen, router, after, request, gone, upstream,
                 completed, recorded>>

\* decodeBody: JSON, or not, or the client has gone.
ReadBody(r, good) ==
  /\ pc[r] = "reading"
  /\ gone[r] => ~ good
  /\ StopReporter(r, IF good THEN "lookup" ELSE "bad")
  /\ UNCHANGED <<configuration, storeOpen, router, request, gone, client, upstream,
                 completed, recorded>>

RejectBody(r) ==
  /\ pc[r] = "bad"
  /\ Answer(r, 400)
  /\ UNCHANGED <<configuration, storeOpen, router, after, request, gone, waiting, upstream,
                 completed, recorded>>

\* ExposedModel on a fresh copy of the configuration: a model of which no
\* provider is enabled does not exist.  Then Execute draws its turn.
Lookup(r) ==
  LET targets == SelectSeq(Order, LAMBDA p : p \in enabled) IN
  /\ pc[r] = "lookup"
  /\ IF targets = <<>>
       THEN /\ Answer(r, 404)
            /\ UNCHANGED <<router, snapshot>>
       ELSE /\ snapshot' = [snapshot EXCEPT ![r] = targets]
            /\ RR!Draw(r, Name, Len(targets))
            /\ pc' = [pc EXCEPT ![r] = "call"]
            /\ UNCHANGED client
  /\ UNCHANGED <<configuration, storeOpen, after, stream, target, selected, received,
                 failure, gone, waiting, upstream, completed, recorded>>

-----------------------------------------------------------------------------
\* One upstream attempt: the function proxy hands to Execute.

StartCall(r) ==
  /\ pc[r] = "call"
  /\ \E t \in untried[r] :
       /\ turn[r] \in untried[r] => t = turn[r]
       /\ target' = [target EXCEPT ![r] = t]
       /\ selected' = [selected EXCEPT ![r] =
                         Append(@, [provider |-> snapshot[r][t + 1], late |-> gone[r]])]
  /\ received' = [received EXCEPT ![r] = FALSE]
  /\ failure' = [failure EXCEPT ![r] = 0]
  /\ upstream' = [upstream EXCEPT ![r] = "none"]
  /\ StartReporter(r)
  /\ pc' = [pc EXCEPT ![r] = IF gone[r] THEN "cancelled" ELSE "headers"]
  /\ UNCHANGED <<configuration, storeOpen, router, after, stream, snapshot, gone, client,
                 completed, recorded>>

\* Mutant: without a response the reporter is joined and never stopped.
NoResponseNotStopped(r, status) ==
  /\ pc[r] = "headers" \/ (pc[r] = "cancelled" /\ status \in {400, 499})
  /\ status = 499 => gone[r]
  /\ failure' = [failure EXCEPT ![r] = status]
  /\ pc' = [pc EXCEPT ![r] = "join"]
  /\ after' = [after EXCEPT ![r] = "failed"]
  /\ UNCHANGED <<configuration, storeOpen, router, stream, snapshot, target, selected,
                 received, gone, waiting, client, upstream, completed, recorded>>

\* No response: the conversion is refused (400), the client has gone (499), the
\* network fails (502) or the connection times out (504; the call itself has no
\* time limit).  Nothing is sent under a context that is cancelled already.
NoResponse(r, status) ==
  /\ pc[r] = "headers" \/ (pc[r] = "cancelled" /\ status \in {400, 499})
  /\ status = 499 => gone[r]
  /\ failure' = [failure EXCEPT ![r] = status]
  /\ StopReporter(r, "failed")
  /\ UNCHANGED <<configuration, storeOpen, router, stream, snapshot, target, selected,
                 received, gone, client, upstream, completed, recorded>>

\* onResponse: the headers have arrived.
Response(r, status) ==
  /\ pc[r] = "headers"
  /\ received' = [received EXCEPT ![r] = TRUE]
  /\ IF status \in 200 .. 299
       THEN /\ upstream' = [upstream EXCEPT ![r] = "open"]
            /\ UNCHANGED failure
            /\ StopReporter(r, IF stream[r] THEN "accepted" ELSE "body")
       ELSE /\ failure' = [failure EXCEPT ![r] = status]
            /\ UNCHANGED upstream
            /\ StopReporter(r, "failed")
  /\ UNCHANGED <<configuration, storeOpen, router, stream, snapshot, target, selected, gone,
                 client, completed, recorded>>

\* Still in onResponse: a stream is waited for until its first frame.
AwaitFirstFrame(r) ==
  /\ pc[r] = "accepted"
  /\ StartReporter(r)
  /\ pc' = [pc EXCEPT ![r] = "peek"]
  /\ UNCHANGED <<configuration, storeOpen, router, after, request, gone, client, upstream,
                 completed, recorded>>

\* Mutant: a stream that failed before its first frame is returned as a result.
FirstFrameNotAwaited(r, ok) ==
  /\ pc[r] = "peek"
  /\ failure' = [failure EXCEPT ![r] = IF ok THEN @ ELSE 502]
  /\ upstream' = [upstream EXCEPT ![r] = IF ok THEN @ ELSE "failed"]
  /\ StopReporter(r, "ready")
  /\ UNCHANGED <<configuration, storeOpen, router, stream, snapshot, target, selected,
                 received, gone, client, completed, recorded>>

\* newConvertedStream: the first frame, or a failure without one.
FirstFrame(r, ok) ==
  /\ pc[r] = "peek"
  /\ IF ok
       THEN /\ StopReporter(r, "ready")
            /\ UNCHANGED <<failure, upstream>>
       ELSE /\ failure' = [failure EXCEPT ![r] = 502]
            /\ upstream' = [upstream EXCEPT ![r] = "failed"]
            /\ StopReporter(r, "failed")
  /\ UNCHANGED <<configuration, storeOpen, router, stream, snapshot, target, selected,
                 received, gone, client, completed, recorded>>

\* Mutant: the response's reporter is stopped once more after the call.
WholeBodyStopsAgain(r, ok) ==
  /\ pc[r] = "body"
  /\ gone[r] => ~ ok
  /\ upstream' = [upstream EXCEPT ![r] = IF ok THEN "complete" ELSE "failed"]
  /\ failure' = [failure EXCEPT ![r] = IF ok THEN @ ELSE 502]
  /\ StopReporter(r, IF ok THEN "ready" ELSE "failed")
  /\ UNCHANGED <<configuration, storeOpen, router, stream, snapshot, target, selected,
                 received, gone, client, completed, recorded>>

\* The whole body, read and converted, or a failure.
WholeBody(r, ok) ==
  /\ pc[r] = "body"
  /\ gone[r] => ~ ok
  /\ IF ok
       THEN /\ upstream' = [upstream EXCEPT ![r] = "complete"]
            /\ pc' = [pc EXCEPT ![r] = "ready"]
            /\ UNCHANGED failure
       ELSE /\ upstream' = [upstream EXCEPT ![r] = "failed"]
            /\ pc' = [pc EXCEPT ![r] = "failed"]
            /\ failure' = [failure EXCEPT ![r] = 502]
  /\ UNCHANGED <<configuration, storeOpen, router, after, stream, snapshot, target, selected,
                 received, gone, waiting, client, completed, recorded>>

-----------------------------------------------------------------------------
\* Back in Execute and in proxy.

\* Mutant: so is the status of a client that has gone.
SwitchableWhenGone(status) ==
  status \in {0, 401, 403, 404, 408, 429} \/ status >= 499

IsSwitchableStatus(status) ==
  status \in {0, 401, 403, 404, 408, 429} \/ status >= 500

SwitchProvider(r) ==
  /\ pc[r] = "failed" /\ IsSwitchableStatus(failure[r])
  /\ RR!TryNext(r, target[r])
  /\ pc' = [pc EXCEPT ![r] = "call"]
  /\ UNCHANGED <<configuration, storeOpen, after, request, gone, waiting, client, upstream,
                 completed, recorded>>

\* all_providers_failed, with the status of the last attempt.
GiveUp(r) ==
  /\ pc[r] = "failed"
  /\ ~ IsSwitchableStatus(failure[r]) \/ untried[r] = {target[r]}
  /\ RR!GiveUp(r, target[r])
  /\ Answer(r, IF failure[r] \in 400 .. 599 THEN failure[r] ELSE 502)
  /\ UNCHANGED <<configuration, storeOpen, after, request, gone, waiting, upstream,
                 completed, recorded>>

\* A result: written whole, or the head of a stream (writeConvertedStream).
Serve(r) ==
  /\ pc[r] = "ready"
  /\ RR!Serve(r, target[r])
  /\ IF stream[r]
       THEN /\ StartReporter(r)
            /\ head' = [head EXCEPT ![r] = 200]
            /\ pc' = [pc EXCEPT ![r] = "write"]
            /\ UNCHANGED <<frames, last>>
       ELSE /\ Answer(r, 200)
            /\ UNCHANGED waiting
  /\ UNCHANGED <<configuration, storeOpen, after, request, gone, upstream, completed,
                 recorded>>

\* A frame is written and flushed.
WriteFrame(r) ==
  /\ pc[r] = "write" /\ frames[r] < MaxFrames
  /\ frames' = [frames EXCEPT ![r] = @ + 1]
  /\ pc' = [pc EXCEPT ![r] = "frame"]
  /\ UNCHANGED <<configuration, storeOpen, router, after, request, gone, waiting, head, last,
                 upstream, completed, recorded>>

\* The write fails: SetError, and the stream is over.
WriteFails(r) ==
  /\ pc[r] = "write" /\ gone[r]
  /\ failure' = [failure EXCEPT ![r] = 499]
  /\ StopReporter(r, "log")
  /\ UNCHANGED <<configuration, storeOpen, router, stream, snapshot, target, selected,
                 received, gone, client, upstream, completed, recorded>>

\* NextFrame has another frame.
MoreFrames(r) ==
  /\ pc[r] = "frame" /\ frames[r] < MaxFrames
  /\ pc' = [pc EXCEPT ![r] = "write"]
  /\ UNCHANGED <<configuration, storeOpen, router, after, request, gone, waiting, client,
                 upstream, completed, recorded>>

\* NextFrame has none: the translation has ended; the last frame sent was the
\* protocol's own end.
StreamEnds(r) ==
  /\ pc[r] = "frame"
  /\ upstream' = [upstream EXCEPT ![r] = "complete"]
  /\ WriteEnd(r, "complete")
  /\ StopReporter(r, "log")
  /\ UNCHANGED <<configuration, storeOpen, router, request, gone, head, frames, completed,
                 recorded>>

\* Mutant: the error of the stream is not looked at.
StreamFailsUnnoticed(r) ==
  /\ pc[r] = "frame"
  /\ upstream' = [upstream EXCEPT ![r] = "failed"]
  /\ StopReporter(r, "log")
  /\ UNCHANGED <<configuration, storeOpen, router, request, gone, client, completed, recorded>>

\* NextFrame has none, and an error: an error event is written.
StreamFails(r) ==
  /\ pc[r] = "frame"
  /\ upstream' = [upstream EXCEPT ![r] = "failed"]
  /\ failure' = [failure EXCEPT ![r] = 502]
  /\ WriteEnd(r, "error")
  /\ StopReporter(r, "log")
  /\ UNCHANGED <<configuration, storeOpen, router, stream, snapshot, target, selected,
                 received, gone, head, frames, completed, recorded>>

\* The status proxy records: a stream that broke is a 502, whoever broke it.
RecordedStatus(r) == IF head[r] = 200 /\ failure[r] # 0 THEN 502 ELSE head[r]

\* recordRequest: the completion in the runtime log, then the row, which is
\* lost when the store is closed.
LogCompletion(r) ==
  /\ pc[r] = "log"
  /\ completed' = [completed EXCEPT ![r] = @ + 1]
  /\ pc' = [pc EXCEPT ![r] = "save"]
  /\ UNCHANGED <<configuration, storeOpen, router, after, request, gone, waiting, client,
                 upstream, recorded>>

Save(r) ==
  /\ pc[r] = "save"
  /\ recorded' = [recorded EXCEPT ![r] =
                    IF storeOpen THEN Append(@, RecordedStatus(r)) ELSE @]
  /\ pc' = [pc EXCEPT ![r] = "done"]
  /\ UNCHANGED <<configuration, storeOpen, router, after, request, gone, waiting, client,
                 upstream, completed>>

-----------------------------------------------------------------------------
\* The rest of the world.

ChangeConfiguration ==
  /\ changes < MaxChanges
  /\ changes' = changes + 1
  /\ enabled' \in SUBSET Providers /\ keyValid' \in BOOLEAN
  /\ UNCHANGED <<storeOpen, router, pc, after, request, gone, waiting, client, upstream,
                 completed, recorded>>

Cancel(r) ==
  /\ ~ gone[r] /\ pc[r] # "done"
  /\ gone' = [gone EXCEPT ![r] = TRUE]
  /\ UNCHANGED <<configuration, storeOpen, router, pc, after, request, waiting, client,
                 upstream, completed, recorded>>

\* Shutdown gave up on the requests that still run; Run closes the store.
CloseStore ==
  /\ storeOpen
  /\ storeOpen' = FALSE
  /\ UNCHANGED <<configuration, router, pc, after, request, gone, waiting, client, upstream,
                 completed, recorded>>

\* What waits for the client: it may never finish its body, or never read an
\* answer that is longer than the buffers in between.
FromClient(r) == (\E good \in BOOLEAN : ReadBody(r, good)) \/ Serve(r) \/ WriteFrame(r)

\* What waits for the upstream, which may never answer, and may stop in the
\* middle of a body or a stream: NewClient(0) sets no limit.
FromUpstream(r) ==
  \/ \E status \in {400, 499, 502, 504} : NoResponse(r, status)
  \/ \E status \in {200, 304, 400, 503} : Response(r, status)
  \/ \E ok \in BOOLEAN : FirstFrame(r, ok) \/ WholeBody(r, ok)
  \/ MoreFrames(r) \/ StreamEnds(r) \/ StreamFails(r)

Handler(r) ==
  \/ Join(r) \/ Authorize(r) \/ RejectBody(r) \/ Lookup(r) \/ StartCall(r)
  \/ AwaitFirstFrame(r) \/ SwitchProvider(r) \/ GiveUp(r)
  \/ WriteFails(r) \/ LogCompletion(r) \/ Save(r)

Reporter(r) == Report(r) \/ Leave(r)

AllDone == (\A r \in Requests : pc[r] = "done") /\ UNCHANGED vars

Next ==
  \/ \E r \in Requests : FromClient(r) \/ FromUpstream(r) \/ Handler(r)
                         \/ Reporter(r) \/ Tick(r) \/ Cancel(r)
  \/ ChangeConfiguration \/ CloseStore \/ AllDone

Spec == Init /\ [][Next]_vars

\* Once its client has gone the context of a request is cancelled and its
\* connection closed: what waits for either side returns.
Abandoned(r) == gone[r] /\ (FromClient(r) \/ FromUpstream(r))

\* Goroutines run, and cancelled calls return.  Nothing is assumed of a client
\* that stays nor of its upstreams: neither the server nor the client of the
\* upstreams has a timeout on bodies, answers or streams.
Fairness == \A r \in Requests :
  WF_vars(Handler(r)) /\ WF_vars(Abandoned(r)) /\ WF_vars(Reporter(r)) /\ WF_vars(Leave(r))

FairSpec == Spec /\ Fairness
-----------------------------------------------------------------------------
\* Every variable has its type.
TypeOK ==
  /\ enabled \subseteq Providers /\ keyValid \in BOOLEAN /\ changes \in 0 .. MaxChanges
  /\ storeOpen \in BOOLEAN /\ paniced \in BOOLEAN
  /\ pc \in [Requests -> {"new", "reading", "join", "bad", "lookup", "call", "headers",
                          "cancelled", "accepted", "peek", "body", "failed", "ready", "write", "frame",
                          "log", "save", "done"}]
  /\ stream \in [Requests -> BOOLEAN] /\ gone \in [Requests -> BOOLEAN]
  /\ target \in [Requests -> 0 .. Len(Order) - 1]
  /\ failure \in [Requests -> 0 .. 599]
  /\ reporter \in [Requests -> {"none", "select", "log"}]
  /\ reports \in [Requests -> 0 .. MaxReports]
  /\ head \in [Requests -> {0, 200} \cup 400 .. 599]
  /\ frames \in [Requests -> 0 .. MaxFrames]
  /\ last \in [Requests -> {"open", "complete", "error", "lost"}]
  /\ upstream \in [Requests -> {"none", "open", "complete", "failed"}]
  /\ \A r \in Requests : /\ snapshot[r] \in Seq(Providers)
                         /\ selected[r] \in Seq([provider : Providers, late : BOOLEAN])
                         /\ Len(recorded[r]) <= 1 /\ completed[r] <= 1

\* Once the client has been sent anything, no other provider is asked
\* (README.md:75): a second answer would be appended to the first.
NoSwitchAfterFirstByte ==
  [][ \A r \in Requests : head[r] # 0 => selected'[r] = selected[r] ]_vars

\* A provider that fails before it has produced anything to forward never
\* becomes the client's 200: it is replaced or reported with an error status
\* (upstream/translated_stream.go:11).
SuccessHasContent ==
  \A r \in Requests :
    head[r] = 200 /\ frames[r] = 0 => upstream[r] \in {"open", "complete"}

\* A client that stays to the end of its answer finds in the request's row the
\* status it was sent; one whose stream broke after its 200, on either side,
\* finds a 502 (README.md:68, "流式读取失败会返回错误事件并记录失败").  Of an answer whose
\* client left first the row tells what the gateway did, as nobody knows what was
\* read: 200 only if the upstream's answer had been complete.  And it is told
\* once: a finished request has one completion entry and, unless the store was
\* closed meanwhile, one row, whichever way proxy returned.
RecordTellsOutcome ==
  \A r \in Requests :
    /\ \A i \in 1 .. Len(recorded[r]) :
         /\ last[r] = "complete" => recorded[r][i] = head[r]
         /\ head[r] = 200 /\ last[r] \in {"open", "error"} => recorded[r][i] = 502
         /\ head[r] # 200 => recorded[r][i] = head[r]
         /\ recorded[r][i] = 200 => upstream[r] = "complete"
    /\ pc[r] = "done" =>
         completed[r] = 1 /\ (storeOpen => Len(recorded[r]) = 1)

\* A client that leaves costs its providers at most one more attempt.  Leaving
\* while an answer's body is read is a 502, which moves on to the next provider;
\* the call after it is cancelled with a 499, which does not (client.go:212, 241).
LeavingEndsFailover ==
  \A r \in Requests :
    Cardinality({i \in DOMAIN selected[r] : selected[r][i].late}) <= 1

\* runtime_logs.go:102, "The returned stop function joins the reporter before
\* a completion is logged": no waiting report follows the completion.
NoReportAfterCompletion ==
  [][ \A r \in Requests : completed[r] = 1 => reports'[r] = reports[r] ]_vars

\* Each reporter is stopped once on every path (server.go:324-342): closing
\* its channel again would panic, not closing it would leak it.
StoppedOnce ==
  /\ ~ paniced
  /\ \A r \in Requests : pc[r] = "done" => reporter[r] = "none"

\* A request whose client has left ends, wherever it was and whatever its
\* providers do (server.go:51, "上游模型请求不限制总时长，由客户端连接控制取消"): no read, call,
\* failover, stream or join of a reporter holds it for ever.
AbandonedRequestsEnd == \A r \in Requests : gone[r] ~> pc[r] = "done"
=============================================================================
