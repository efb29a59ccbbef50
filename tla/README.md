# OmniApi: verification development

OmniApi is a single-process Go gateway. It accepts requests in three protocols
(OpenAI Chat Completions, OpenAI Responses, Anthropic Messages), chooses a
provider for the requested model, translates the request, relays the answer or
the stream back in the caller's protocol, and keeps its configuration and a
request log in SQLite. This directory holds TLA+ models of it, the TLC
configurations that check them, and proofs checked by TLAPS.

## Inventory

| Component | Source | State | Operations | Hard behaviour |
|---|---|---|---|---|
| Router | `internal/routing/router.go` | one cursor per exposed name, a mutex | `Execute`, `advance` | concurrent advances, lists that change length between requests, failover and its stop conditions |
| Configuration store | `internal/store/store.go` | configuration in memory, database handle, `closed`, four locks; SQLite tables | `Load`, `Close`, `Get`, `Replace`, `Update` and its seven callers | lost updates, memory and disk disagreeing, crashes in a migration, shutdown racing an update, lock order |
| Request log | `internal/store/store.go` | `request_logs` table, a write counter | `AddRequestLog`, `RequestLogsWithSummary`, `ClearRequestLogs` | retention in batches, text order of timestamps |
| Secret codec | `internal/secret/codec.go` | `secret.key` | `NewAESCodec`, `resolveKey`, `Encrypt`, `Decrypt` | first start of two processes, a crash while the key is written, launches with different keys |
| Gateway handler | `internal/server/server.go` | one goroutine per request | `proxy`, `recordRequest`, `proxyAuthorized` | failover against a stream that has begun, client cancellation, exactly one log record, configuration changing under a request |
| Waiting reporter | `internal/server/runtime_logs.go` | a goroutine and two channels per phase | `trackWaiting` and its stop | stop once, join before the completion is logged |
| Runtime log | `internal/server/runtime_logs.go`, `apps/web/src/RuntimeLogs.vue` | ring of 1000 entries, next id; the page's entries and last id | `add`, `listRuntimeLogs`, `refresh` | a poll racing a restart, eviction, paused pages |
| Upstream client | `internal/upstream/client.go`, `translated_stream.go` | an HTTP body, a frame reader | `call`, `NextFrame`, `readFrame`, `DiscoverModels` | status classes, truncated streams, errors after the first frame |
| Stream translation | `internal/translate/stream.go` | blocks, sequence numbers, ended flag | `Push`, `End`, `render` | event order per protocol, text neither lost nor repeated, one terminal event |
| Request and response translation | `internal/translate/request.go`, `response.go`, `types.go` | none | `Request` (`readConversation`, `writeMessages`), `Response` (`readCompletion`, `encodeCompletion`) | a history that has been through several conversions, parallel tool calls, limits and budgets |
| Admin API | `internal/server/server.go` | none of its own | settings, providers, access keys, model discovery | writes of stale forms |
| Monitoring page | `apps/web/src/App.vue` | filters, page, shown rows, version of the newest load | load, filter, page, refresh on a timer | replies out of order, a spinner nobody stops |
| Console forms | `apps/web/src/*.vue` | page state | edit, overview | stale forms |
| Process | `internal/app/app.go` | listener, lifecycle | `Run`, `initializeAdminToken`, shutdown | shutdown timeout and late requests |
| Tray, browser, embedded page | `internal/tray`, `internal/browser`, `internal/webui` | none relevant | desktop integration | none |


How they interact: `app.Run` loads the store, initialises the administrator
token, serves, and closes the store after at most five seconds of shutdown.
Each model request runs `Server.proxy` in its own goroutine: it reads the
configuration once, asks the router to walk the targets, calls providers through
the upstream client, translates the answer and writes one request-log row. The
store, the router's cursors and the runtime-log ring are what these goroutines
share. The console reads both logs by polling and changes the configuration
through the admin API, each change of which is one `Store.Update`.

What makes each component correct:

- **Router**: no target twice in a request, failover only past failures that
  justify it, turns handed out in rotation.
- **Configuration store**: one durable configuration, changed in single steps,
  equal in memory and on disk, also across crashes and failed transactions;
  locks that never block for ever; no use of a closed handle.
- **Gateway**: a client that got a success got an answer, one provider per
  stream, one record per request that tells what happened; a request whose
  client has left ends.
- **Runtime log and its page**: the newest entries, without gap or mixture.
- **Request log and its page**: bounded, trimmed from the old end, filtered as
  asked; the page shows what was chosen last.
- **Request and response translation**: each provider reads the whole
  conversation, once, in the shape its protocol asks for; a client gets all of
  an answer; what is refused is refused for a reason the client gave.
- **Process and secret codec**: what was sealed by one launch opens in the next.
- **Stream translation**: nothing lost or repeated, events in the order the
  client's protocol allows, an ending only where the upstream had one.

## Modules

| Module | Models | Composes |
|---|---|---|
| `Router` | `routing/router.go`, step by step with its mutex | refines `RoundRobin` |
| `RoundRobin` | the promise: a turn drawn in one step, targets visited once | |
| `RouterProofs` | proofs about `Router` | |
| `ConfigData` | configurations, and what each update does to one | |
| `AtomicConfig` | the promise: one durable configuration, updated in single steps | `ConfigData` |
| `ConfigStore` | `store.go` as `app.go` runs it: Load, Update, Close, locks, crashes | `ConfigData`, refines `AtomicConfig` |
| `ConfigStoreProofs` | proofs about `ConfigStore` | |
| `SharedStore` | a second instance of the program on the same data directory | `ConfigStore` |
| `Gateway` | `Server.proxy`, waiting reporters, outcomes of the upstream client | `RoundRobin` |
| `GatewayProofs` | proofs about `Gateway` | |
| `RuntimeLog` | `runtime_logs.go` ring and `RuntimeLogs.vue` | |
| `RequestLog` | `AddRequestLog`, trimming, clearing, restarts | |
| `MonitorPage` | monitoring page of `App.vue`, the two queries of its loads | `RequestLog` |
| `MonitorPageProofs` | proofs about `RequestLog`, and about `MonitorPage` over it | |
| `StreamTranslation` | `translate/stream.go` with an upstream that speaks its protocol | |
| `StreamProofs` | proofs about `StreamTranslation`: its invariant, lemmas about texts, rendering and edits of blocks | |
| `Translation` | `translate/request.go`, `response.go`, `types.go` as operators | |
| `Dialogue` | conversations of a client with changing providers through `Request` and `Response` | `Translation` |
| `DialogueProofs` | proofs about `Dialogue`, and lemmas about the operators of `Translation`: what reading and writing one message tells | |
| `DialogueToldProofs` | proofs about whole conversations of `Dialogue`: `ToldEverything`, `ToolsAnswered` | |
| `Launch` | launches of the program on one directory: `app.Run`, the secret codec | |
| `ProcessProofs` | proofs about `RuntimeLog`, and about `Launch` | |
| `MC*` | the values of the TLC instances | |

`PROJECT.json` maps each definition to the lines it translates.

### Router

One process per call of `Execute`: `Enter` (the empty list is refused),
`ReadCursor` and `StoreCursor` (the two halves of `advance`, between them the
mutex is held), then one `Return` per call of the provider, split by
`CallSucceeds`, `CallRefused`, `CallSwitches`. Target lists differ in length
from request to request, since the configuration may change between them.
`attempts` and `turns` are histories. The refinement mapping draws a
`RoundRobin` turn when the cursor is stored.

### Configuration store

`Load` is opening, importing `config.json`, renaming it, reading, initialising
the token. `Update` is a lock at a time: `LockConfig`, `LockDatabase`, `Mutate`
(on a copy), `Ensure`, `Commit` or `RollBack`, `Publish`, `Release`. Loggers
stand for every operation that needs only the database. `Close` waits for all
readers. `Crash` may come between any two steps and keeps `disk`, `stored` and
`file`. Of the four locks `configWrite` and `databaseOps` are locks of the model;
`databaseMutex` and `mutex` are held for the few statements of one step each,
under which no other lock is taken. A transaction is one step: SQLite is trusted to be atomic.
`SharedStore` adds a second instance with a copy of its own, of which only what
reaches the shared tables is there, one step each.

### Gateway

One process per request with the phases of `proxy`: authorize, read body,
look up, call, first frame, frames, completion, record. Beside each runs the
reporter goroutine of `trackWaiting`. Upstream outcomes are the status classes
that `client.go` distinguishes; streams break before or after their first
frame; clients leave; the configuration changes; the store closes under running
requests. The router appears as its proved abstraction, `RoundRobin`. An upstream
may stay silent for ever (`NewClient(0)`, `server.go:44`). A write to a client
that has left is lost (`last = "lost"`), and the handler of a whole answer does
not notice (`writeJSON`, `server.go:83`).
`selected` is a history of the attempts; an attempt begun after the client left
is marked `late`.

### Runtime log

`add` and `Restart` on the server; on the page `poll`, `ClickRefresh`,
`ApplyReply`, `CallFails`, `BodyLost`, `Hide`, `Show`, `Mount`, `Unmount`. A
reply is fixed when the server answers and applied later.

### Request log and monitoring page

Each request inserts, counts, and at every `Batch`-th write trims, in separate
steps; inserts and trims may fail; a restart forgets the counter. Instants are
tenths of a second and `TextKey` is the order of their stored texts. A load of
the page is asked, counted, and shown or failed; `newest` says whether the
call's `requestVersion` still equals the page's. Changing the page number only
schedules Vue's watcher (`pageWatch`), which runs later. While the tab is hidden
the timer does nothing; coming back refreshes at once.

### Stream translation

The upstream is a program that follows its protocol and may stop anywhere.
`Push` and `End` fold its events into `blocks` and append to `client` what the
client may see. Text is numbered pieces, so that losing, repeating or mixing
them shows.

### Translation and dialogue

`Translation` has the conversions as operators. A text is a sequence of numbered
words, a picture is a word, the arguments of a tool call are none, an object or
broken; names, JSON schemas and URLs are left out. `ReadConversation` and
`ReadMessage` are the reading half of `Request`, `WriteMessages` with its pending
parts the writing half, `Convertible` what either refuses; `ReplyParts` and
`EncodeCompletion` are `Response`.

`Dialogue` puts them where they meet each other: `Ask` and `SendResults` are the
client, which keeps the history in its own protocol; `Forward` sends the request
to a provider of any protocol, again after a refusal or a failed attempt; `Answer`
converts what the provider said and the client appends it. So a history holds
what several conversions made of it, and the next provider reads that.
The words are numbered in the order they are first said: `said` remembers who
said them, and `ToldEverything` compares it with what the provider reads.

### Launch

One process per launch of the program: `Start`, `UsePassphrase` or `ReadKey`,
`CreateKey` and `FillKey` (the two halves of `os.WriteFile`), then `Store.Load`,
`InitToken`, `Listen`, `Save`, `Stop`, `Close`. All of the launch up to
`net.Listen` happens beside a running instance if there is one. `Crash` may come
between any two steps. The database is the set of its secrets and the key that
seals them.

`Store.Load` is several steps, since another launch may write between them: with
no configuration and a `config.json`, `ReadLegacy` (which may be turned away by
its seal), `Import` (a whole configuration written under the launch's key),
`Retire` (the renaming, which fails when another launch was faster); then `Load`,
and `Upgrade`, which writes the configuration again when it had a proxy token of
an older version. What an older version left is plain, or sealed under the
passphrase or under a generated key, whose `secret.key` is then there.

Left out: that `loadConfig` reads its tables one after the other without a
transaction, so that a launch may read half of another one's write. `raced` and
`crossed` are histories.

## Runs

Every run is of a small instance; `PROJECT.json` gives each property a mutant
of the code's definitions that the property refutes.

| Run | Instance | States, time | Shows |
|---|---|---|---|
| `router` | 3 requests, one name, lists of 0 to 3, statuses 200, 400, 429, and errors without status | 212k, 90 s | `EachTargetOnce`, `FailoverDiscipline`, `FairTurns`, refinement of `RoundRobin`, no deadlock |
| `config_safety` | 2 writers, a logger, 2 updates of 7 kinds, 1 crash, a legacy file or none | 218k, 2 min | `MemoryMatchesDisk`, `NoDuplicates`, `HandleOpenWhileUsed`, `AdminTokenKept`, refinement of `AtomicConfig`, `LocksComeFree` |
| `config_shared` | a writer and a second instance, 3 updates | violation | `ChangesOnlyWhatIsAsked` fails |
| `gateway_safety` | 1 request, 3 providers, 2 frames, 1 report, 1 change | 387k, 1 min | `SuccessHasContent`, `RecordTellsOutcome`, `StoppedOnce`, `LeavingEndsFailover`, `NoSwitchAfterFirstByte`, `NoReportAfterCompletion`, `AbandonedRequestsEnd` |
| `runtime_page` | ring of 3, 2 shown, 5 entries, 2 processes | 9k, 4 s | `Contiguous`, `OnePollDue`, `ShowsNewest`, `CatchesUp` |
| `runtime_restart` | the same, 4 entries | violation | `ShownAreNewest` fails after a restart |
| `monitor_page` | 3 requests, keep 1, trim every 2, 1 restart, 2 calls under way, 2 pages, 1 filter, 3 actions of the user and any number of ticks | 189k, 1 min | `RetentionBound`, `TrimsTheOldest`, `ShownAnswersChoice`, `SpinnerMeansCall`, `ShowsTheLog` |
| `monitor_filter` | 1 request, a filter at the start of a second | violation | `FilterIsExact` fails |
| `stream_matrix` | all 9 pairs, 3 pieces, 2 items | 146k, 12 s | `NothingLost`, `BlocksApart`, `WellOrdered`, `DoneTellsAll`, `Prompt`, `EndsWithUpstream` |
| `dialogue` | 3 requests, 10 shapes of answers, 5 endings, 44 settings | 85k, 15 s | `ToldEverything`, `ToolsAnswered`, `SettingsKept`, `RefusedForCause`, `AnswerKept` |
| `dialogue_foreign` | 2 requests, thoughts | violation | `ThinkingIsSigned` fails |
| `launch` | 3 launches, 3 secrets, with any of them in `config.json`, or none there | 559k, 25 s | `KeyFileOpensDatabase`, `LockedOutByChoice`, `SealedBySameKey` |

Why the bounds are enough:

- *Router*: a race needs two requests and its observer a third; lists of 0 to 3
  give shrinking, growing and wrapping; the theorems hold for every number.
- *Store*: a lost update needs two writers, and one more process that holds only
  the database contends with them for the other lock. One crash reaches every step of
  the import and of an update, and the restart after it runs the same code. The
  theorems again have no bounds.
- *Gateway*: requests share only configuration, store and router. The router is
  modelled and proved apart, so one request meets every interleaving with the
  rest. Three providers let an attempt fail, the next one be left and a third
  one wrongly be tried; two frames tell first, middle and end apart. The
  theorems hold for any number of each.
- *Runtime log*: five entries overflow a ring of three between polls; the second
  process meets pages at every state of the first. The theorems hold for any
  capacity and any number of entries and restarts.
- *Log and page*: three writers with keep 1 and batch 2 trim while another
  insert and another count are under way, and the restart forgets the counter.
  A reply can only be overtaken by a later call, so two calls suffice;
  ticks are not counted. One row is on page 1 and none on page 2, and the filter
  takes it or not. The theorems hold for any
  number of requests and calls.
- *Streams*: two blocks alternate with three pieces: first, second, first again.
  The theorems hold for any number of both.
- *Dialogue*: with three requests two answers are in the history, of providers
  of any two protocols, and are read by a third. Shapes give each kind of part
  first and last, two calls at once, calls without arguments, thoughts apart.
  Settings vary one thing at a time, and together where the code looks at two.
  The theorems hold for any settings, answers and number of turns.
- *Launch*: two launches race for the key, or for the import, and a third one
  finds what they left.
  The theorems hold for any number.

## Fairness

- Store: goroutines run; `sync.Mutex` hands itself to a starving waiter, hence
  strong fairness of `LockConfig` only; transactions end within SQLite's busy
  timeout; `Shutdown` ends within five seconds (`app.go:191`). Under it
  `LocksComeFree`: no update and no `Close` waits for ever.
- Gateway: handlers and reporters run, and what waits for an upstream ends once
  the request's context is cancelled (`Abandoned`). Nothing is assumed of upstreams
  or of clients that stay: the upstream client has no timeout (`server.go:44`), and
  the server sets no write or body deadline. So a request may last for ever, and
  `AbandonedRequestsEnd` says only that one whose client has left ends.
- Runtime log: time and again a timer finds the page idle, a request is answered
  and an answer arrives. Nothing is assumed of the reader.
- Monitoring page: requests end, the timer fires while the page is seen, calls
  end, and time and again the newest call is answered before the next tick
  outdates it. Without that last assumption the page starves: a server that
  always takes longer than the five-second interval (`App.vue:569`) never gets
  a reply shown. That is a property of the code, not of the model.

Streams, dialogues and launches have safety only.

## Theorems

TLAPS proves them for every value of the constants under the assumptions named
in the modules.

`RouterProofs` (from `RouterAssumption`): type correctness, `EachTargetOnce`,
`FailoverDiscipline`, `FairTurns`, and that `Router` implements `RoundRobin`.
The invariant `IInv` adds to the types that the start lies within the request's
list (`RangeInv`), that whoever is between the halves of `advance` holds the
mutex and has read the cursor as it still is (`MutexInv`), that the attempts are
the list walked from the start with wrap-around (`WalkInv`), that earlier
attempts failed switchably (`OutcomeInv`), and that the cursor follows the last
turn (`CursorInv`). `FairTurns` alone is not inductive: it says nothing of the
cursor that gives out the next turn.

`ConfigStoreProofs` (from `StoreAssumption`): type correctness,
`HandleOpenWhileUsed`, `MemoryMatchesDisk`, `NoDuplicates`, `AdminTokenKept` and
that `ConfigStore` implements `AtomicConfig`, for any number of writers, loggers,
updates and crashes. The invariant is `StoreInv`: the types, the lock discipline
(`LockInv`: who is past which lock, and that a closed handle has no reader), and
`Contents` (drafts come from the memory of the one writer past `LockConfig`;
memory is disk except between commit and publication). `MemoryMatchesDisk` alone
does not survive `Publish`, which needs to know what the draft was.
With a second instance `config_shared` shows what becomes of it.

`GatewayProofs` (without assumptions): `StoppedOnce`, `SuccessHasContent`,
`RecordTellsOutcome`, `LeavingEndsFailover`, `NoSwitchAfterFirstByte` and
`NoReportAfterCompletion`, for any number of requests, providers, frames and
reports. Requests share nothing these depend on, so the invariant is one of each
request, `RequestInv`, and a lemma (`OneRequest`) says that a step of one leaves
the others' alone. It gives for every place of the handler: that a reporter runs
with its channel open exactly where one is due (`ReporterInv`); what has been
sent and what is known of the upstream and of the failure (`AnswerInv`); what has
been recorded (`RecordInv`); and that an attempt begun after the client left is
the last, and can only end the request (`LateInv`). None of the properties is
inductive alone: each speaks of the end of a request, and the invariant carries
to it what the places before have settled. `at` lets the wait for a reporter
count as the place it leads to.

`ProcessProofs`, of the runtime log (from `RuntimeLogAssumption`): type correctness,
`Contiguous`, `OnePollDue` and `ShowsNewest`. The ring, a reply and the page are
each a run of one process's entries up to a last number (`IsRun`); what the
invariant relates are these numbers: the ring ends at the last number given out
(`RingInv`), what the page keeps ends at its `lastLogId` (`HeldInv`) and not
after what its process has given out (`PastInv`), and a reply continues what the
page held when it asked (`CallInv`).

`ProcessProofs`, of launches (from `LaunchAssumption`): the three properties of
`Launch`. The heart of the invariant is `KeySettled`: unless two launches raced, whoever
creates the key is alone, and whoever uses a generated key uses the file's.
`KeyOrigin` and `CreatorsHaveNone` say whose key is whose; `LegacySettled`, that
what an older version sealed opens as well; `HoldersOpen`, that who holds the
configuration can open the database. It counts those who are importing one, and
`NothingSealed` is what they may rely on when they begin.

`MonitorPageProofs` (from `RequestLogAssumption`): of the log `RetentionBound` and
`TrimsTheOldest`, for any number of requests, any batch and any number of rows
kept. `RetentionBound` needs only the types beside it, since each step moves as
much from one part of `Unsettled` to another or to `debt` as it takes; `TrimsTheOldest` rests on
the lemma that the order of the stored texts refines the order of seconds. Of
the page `ShownAnswersChoice` and `SpinnerMeansCall`, for any number of calls,
filters, pages and clicks. The invariant `PageInv` adds to them that at most one
load is the newest (`NewestIsOne`), that it asks for what is chosen unless the
watcher is due (`NewestAsksChoice`), and that it is gone once it has ended
(`SettledMeansEnded`): without them a reply that is shown need not be the answer
to the choice. That the page leaves the log alone (`LogBelow`) brings the
theorems of the log here.

`StreamProofs` (without assumptions): type correctness and all
six properties of `StreamTranslation`, for all pairs of protocols and any number
of blocks and pieces. The properties look only at the client's events; the
invariant `Inv` says how these come from the blocks, and the blocks from the
upstream:

- `Texts`: a block holds pieces of one slot (the upstream's block, or for Chat
  its text, reasoning or refusal), in the order they were said, and of two blocks
  of a slot the first is done and holds the older pieces. `AllPlaced`: every
  piece said is in a block.
- `Sound`: `sent` is within the text, a block ends only when it is done and all
  sent, and blocks are shown in turn: for an Anthropic client after all before
  them have ended, otherwise after those of their slot have been sent.
- `Tied`: the events hold what was sent of the blocks, under their numbers, and
  nothing else; a block that was shown was opened and one that ended was closed.
- `Proper`: the events are in the order that `WellOrdered`, `DoneTellsAll` and the
  middle of `NothingLost` ask for.
- `Following`: which blocks may still grow, given where the upstream is.
- `Ends` and `Due`: the ending is the upstream's, and what may be shown was sent.

None of the six is inductive: nothing in the events says what comes next. A step
edits the blocks and then renders all of them at once. The edits are classified
(`Grown`, `Closes`, `Adds`, `Puts`), and each keeps `Core`. `render` is then
followed event by event: `ShowIt`, `SendIt` and `EndIt` take the blocks through
stages that the code does not have (`Stage`), each of which adds one event and
keeps `Core`; an induction over the blocks makes them one step (`EventsOf`). `BlocksApart`
needs that a number, though recomputed at each event, depends only on the blocks
before (`NumberStable`), to which nothing is added, and that two blocks never
share one (`NumberApart`).

These proofs do need induction and a recursive definition. The library's
induction theorems cannot be instantiated here, so `LeastOf` proves from finite
sets that a set of numbers that is not empty has a least member, and inductions
are stated of that; what `FlattenSeq` builds is unfolded by `Builds`. The
properties of `StreamTranslation` are stated with positions and quantifiers so that
they can be reasoned about.

`DialogueProofs` (from `DialogueAssumption`, which says what the protocols let a
client ask for and a provider answer): `SettingsKept`, `RefusedForCause` and
`AnswerKept`, for any settings, any shape, ending and usage of answers, and any
number of turns with providers of any protocols. The invariant `IInv` has five
parts:

- `Asking`: the client asks for what its protocol can ask for.
- `Forwarded`: what waits was convertible and is the conversion of the client's
  request; what was refused was not. This gives `SettingsKept`.
- `Heard`: unless something opaque is in the history, every message of it can be
  read (`Understood`), and every call of an OpenAI client's history has an object
  for arguments, or none (only Anthropic providers ask for it).
  `RefusedForCause` alone is not inductive: whether the next provider refuses
  depends on what earlier answers left in the history, so it has to be known of
  each message as it is appended, of the client's and of every kind of answer.
- `AnswerKept` itself, and `Written`, the types it all rests on.

That an answer's words survive is followed through the code's four steps: what a
provider says is read into parts (`ReadsAll`), the parts are written in the
client's protocol (`WritesAll`), the body is heard as the parts (`Faithful`),
and what the client keeps of it can be read again (`KeptUnderstood`). Each step
maps over a sequence and joins the results; `Map`, `Gives`, `Chained`, `Silent` and
their kin name such functions, so that a lemma about any sequence can be proved
by induction on its length (`SeqInduction`) and cited for a particular function.
The lemmas up to `FlattenAppend` are those of `StreamProofs` on sequences.

`DialogueToldProofs` (from the same assumptions): `ToldEverything`, for any number
of requests, any shape of answers and any change of providers. The loops of
`writeMessages` are recursive functions in the model (`WriteParts`, `WriteMessages`)
of which `DialogueProofs` gives the value for one member more (`PartsMore`,
`MessagesMore`). From these, by induction:

- For one message: what has been written, what is pending and what a Chat message
  has collected tell together what the parts so far tell (`Collected`, `Pending`,
  `Blocked`). `Agrees` compares two texts fact by fact, and for Chat speaker by
  speaker, since `writeMessages` puts a message's thoughts before its text.
- For a conversation: `Heeded` says of every provider that could be asked that
  what it would hear now is one piece for each step of the conversation, and that
  each piece agrees with what was said in its step. It is stronger than the
  property, which speaks only of the provider that was asked, and only while it
  has not answered; without it nothing is known of a history when the provider
  changes. A step of the client or an answer adds one piece (`UserHeard`,
  `AssistantHeard`) and leaves the others. For Anthropic, that is proved of messages
  whose last one may grow (`Grown`): `addMessage` joins messages of one role.
- `PieceHeard` then cuts what was heard at the lengths of what was said, as the
  property does.

and `ToolsAnswered`, where the messages of a request matter and not only what they
tell together. Its invariant, `Answerable`, is again about every provider that could
be asked, and tells the calls that the client still has to answer from all others
(`AnsweredBy`):

- An OpenAI provider finds every other call answered by one message after it, and
  no answer to an open one (`Once`). A second answer is excluded because the ids of
  an answer's calls are distinct and new (`CallsAreFresh`, through all conversions of
  the answer): no earlier result has them, and no later one, since the client answers
  what is open only.
- For Chat the other calls of a message are answered by as many messages right after
  it; the open ones are in the last message (`Followed`). That takes an answer whose
  last message alone has calls (`CallsLast`), which is where a Responses client's
  `Scattered` items differ: `OutputsNextBefore` shows that a history without them
  never had them, so that the case can be left out from the beginning.
- For Anthropic the results are the first blocks of the next message, in the order of
  the calls (`Paired`), and stay that when `addMessage` joins more blocks to a
  message (`PairedLonger`). The message that grows is the last one, so what it calls is open,
  and a message of the user calls nothing. In a converted history the roles alternate
  (`Alternates`).

Only model-checked:

- That the unsigned block of `dialogue_foreign` and the other disagreements are
  reachable: these are counterexamples of TLC.
- All liveness, which like ENABLED is beyond the prover.

## What was found

1. **Two instances on one directory** (`config_shared`): an update writes back
   the whole of its process's memory and undoes what the other instance
   committed, although `store.go:186` and `README.md:21` promise sharing.
2. **Runtime log after a restart** (`runtime_restart`): the page drops as many
   first entries of the new process as the old one had numbered, against
   `README.md:70`, and they do not come back.
3. **Filters within a second** (`monitor_filter`): start times are compared as
   text without trailing zeros, so a range that begins at `:00` leaves out the
   requests of that second, and one that ends at `:59` takes in those of the
   second. For the same reason rows within a second may be listed out of order.
4. **Unsigned thinking blocks** (`dialogue_foreign`): an Anthropic client gets the
   thoughts of another protocol's provider as a thinking block with an empty
   signature (`response.go:176`), keeps it in its history, and a later Anthropic
   provider gets it as it is, since a request of its own protocol is not touched
   (`request.go:13`). `request.go:370` says that foreign signatures "cannot
   authorize Anthropic thinking blocks".

Met while modelling, without a run of their own:

- Two first launches on one directory (`codec.go:52`): both find no `secret.key`,
  the second one overwrites the first one's and may store the administrator token
  under its own key before `net.Listen` (`app.go:135`) tells it that the port is
  taken. `raced` exempts this from `KeyFileOpensDatabase`. A launch that reads
  the file while it is being written ends as with an invalid key.
- Two first launches beside a `config.json` (`store.go:57`): both find no
  configuration, both read the file and import it. The second import writes over
  what the first launch has saved since, under its own key; then the renaming
  fails and the launch ends. `crossed` exempts from `SealedBySameKey` what launches
  with different keys do side by side.
- The row of a request says 200 for an answer that reached nobody: `writeJSON`
  discards the error of its write (`server.go:83`, `400`), and a stream whose last
  frame goes into a connection lost unnoticed ends as a success too.
  `RecordTellsOutcome` says what the row does tell.
- An upstream that stays silent holds its request as long as the client waits: no
  call has a time limit (`server.go:44`, logged at `server.go:51`).
- In the up to five seconds of a shutdown the port is free and handlers may still
  save: a new launch then holds a configuration older than what is stored.
- Several tool calls in one answer reach a Chat provider as one assistant message
  each when the client speaks Responses, so that their results do not follow the
  call they answer. `ToolsAnswered` leaves this case out (`Scattered`).
- An Anthropic client's `output_config.format` of a type other than text becomes
  `json_schema` for a Chat provider, with the schema null if there is none
  (`request.go:479`): `json_object` is not kept. `Format` has it.
- A Responses or Chat body that says that the answer failed passes with 200 when
  client and provider speak the same protocol (`response.go:124`); converted it is
  an error.
- A Chat answer with tool calls and the content "" gives an Anthropic client an
  empty text block. The field `refusal` of a Chat message in the history is not
  read. `tool_choice: null` is refused as unknown. For a Chat provider the
  thoughts of a message come before all its text.
- `README.md:76` says that tool calls are not converted between protocols; the code
  converts them.

- A polled reply whose body is cut off is `{}` to the page (`api.ts:33`):
  `RuntimeLogs.vue` stores an undefined generation, and its next incremental
  reply replaces all entries. `ShownAreNewest` with one process and
  `BodiesGetLost = TRUE` shows it; `runtime_page` covers the recovery.
- `router.go:19` says `AllProvidersFailedError` "reports that every candidate
  target was exhausted"; `Execute` also returns it after one refusal that is not
  switchable (`router.go:85`, `94`).
- A request is routed by the configuration of its lookup (`server.go:307`): a
  provider disabled meanwhile can still be called by a later attempt.
- Text of a Chat refusal after a tool call goes to a block that has ended and is
  not sent (`stream.go:221`); Chat text for an Anthropic client waits behind an
  open reasoning block until the end.
- A silent refresh that replaces a filter's load and fails says nothing: the old
  rows stay under the new filter until the next tick.

## Not modelled

- SSE scanning and HTTP details of the upstream client, model discovery: input
  and output; what they may yield is in `Gateway` and `StreamTranslation`.
- Listings and validation of the admin API, forms, tray, browser, embedded files:
  no state that a property is about. What the admin API changes is in
  `ConfigData`.
- Encryption itself is a library; images, names and schemas are words.
- The unconverted path (`writeStream` and `encode` of `server/protocol.go`,
  `upstream/stream.go`): `normalize` sets the raw body of every request, and
  `call` takes this path only for requests without one, which are those with the
  body `null`, and these have no model and end with 404.
- The configuration is copied at the lookup of a request (`server.go:307`) and
  the server sets no body or write deadline (`app.go:143`): `Gateway` models both,
  and no property asks for more.

## Plan

In this order; a property that gives less than a new one makes room for it.

1. An abstract specification of a translated stream (what was heard is a prefix
   of what was said, one ending) that `StreamTranslation` refines.
2. The frame reader of the upstream client and model discovery.
