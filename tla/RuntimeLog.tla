----------------------------- MODULE RuntimeLog -----------------------------
(***************************************************************************)
(* The runtime log: the ring of entries the server keeps in memory         *)
(* (internal/server/runtime_logs.go) and the console page that polls it    *)
(* (apps/web/src/RuntimeLogs.vue).  The page asks for the entries after    *)
(* the last one it has, recognises a restarted server by its generation,   *)
(* keeps as many entries as the server does and shows the newest few.      *)
(*                                                                         *)
(* An entry is its process (generation) and its number; its text is not    *)
(* modelled.  A page has at most one request under way (busy).             *)
(***************************************************************************)
EXTENDS Integers, Sequences

CONSTANTS
  Capacity,       \* entries the server and the page keep (1000 in the code)
  Shown,          \* entries the page shows (22 in the code)
  NoGeneration,   \* the page's generation before its first reply: ''
  Undefined,      \* the generation of a reply whose body was lost
  BodiesGetLost,  \* may the body of an accepted reply be cut off?
  MaxEntries,     \* bound: entries one process adds
  MaxProcesses    \* bound: processes, that is restarts + 1

ASSUME RuntimeLogAssumption ==
  /\ Capacity \in Nat \ {0}
  /\ Shown \in 1 .. Capacity
  /\ BodiesGetLost \in BOOLEAN
  /\ MaxEntries \in Nat
  /\ MaxProcesses \in Nat \ {0}
  /\ NoGeneration \notin Nat
  /\ Undefined \notin Nat
  /\ Undefined # NoGeneration

VARIABLES
  process,     \* the generation of the running process
  next,        \* number of the last entry it added
  items,       \* the entries it keeps
  mounted,     \* the page is open
  hidden,      \* its tab is in the background
  timer,       \* the next poll is scheduled
  call,        \* the page's request
  logs,        \* the entries the page keeps
  lastLogId,   \* the number it asks from
  generation,  \* the process it believes they are from
  source,      \* history: process and next when the last applied reply was made
  patched      \* history: the page holds only the tail of a changed process's log

serverVars == <<process, next, items>>
pageVars == <<mounted, hidden, timer, logs, lastLogId, generation, source, patched>>
vars == <<serverVars, pageVars, call>>

Entry == [process : 1 .. MaxProcesses, id : 1 .. MaxEntries]

Idle == [phase |-> "idle"]
\* A request under way: who made it, and the entries it asks for.
Sent(by, after) == [phase |-> "sent", by |-> by, after |-> after]
\* The server has answered it.
Answered(by, after, from, upto, data) ==
  [phase |-> "answered", by |-> by, after |-> after,
   process |-> from, next |-> upto, data |-> data]

busy == call.phase # "idle"

\* The last n elements of s: slice(-n).
Newest(s, n) == SubSeq(s, IF Len(s) > n THEN Len(s) - n + 1 ELSE 1, Len(s))

\* What the page shows.
visibleLogs == Newest(logs, Shown)

FreshPage ==
  /\ timer' = FALSE
  /\ call' = Idle
  /\ logs' = <<>>
  /\ lastLogId' = 0
  /\ generation' = NoGeneration
  /\ source' = [process |-> 0, next |-> 0]
  /\ patched' = FALSE

Init ==
  /\ process = 1 /\ next = 0 /\ items = <<>>
  /\ mounted = FALSE /\ hidden = FALSE
  /\ timer = FALSE /\ call = Idle
  /\ logs = <<>> /\ lastLogId = 0 /\ generation = NoGeneration
  /\ source = [process |-> 0, next |-> 0]
  /\ patched = FALSE

-----------------------------------------------------------------------------
(* The server. *)

\* A full ring gives up its oldest entry.
Keep(s, e) == Append(IF Len(s) = Capacity THEN Tail(s) ELSE s, e)

add ==
  /\ next < MaxEntries
  /\ next' = next + 1
  /\ items' = Keep(items, [process |-> process, id |-> next + 1])
  /\ UNCHANGED <<process, pageVars, call>>

\* The log lives in memory: a new process starts with none and numbers from 1.
Restart ==
  /\ process < MaxProcesses
  /\ process' = process + 1
  /\ next' = 0
  /\ items' = <<>>
  /\ UNCHANGED <<pageVars, call>>

\* The entries numbered n and above: the ring is in order, so these are its tail.
TailFrom(n) ==
  LET first == CHOOSE k \in 1 .. Len(items) + 1 :
                 \A j \in 1 .. Len(items) : j >= k <=> items[j].id >= n
  IN SubSeq(items, first, Len(items))

\* The entries after a number, in one critical section with their generation.
\* A request sent before a restart may be answered by the new process.
ItemsFrom(after) == TailFrom(after)
ItemsAfter(after) == TailFrom(after + 1)

listRuntimeLogs ==
  /\ call.phase = "sent"
  /\ call' = Answered(call.by, call.after, process, next, ItemsAfter(call.after))
  /\ UNCHANGED <<serverVars, pageVars>>

-----------------------------------------------------------------------------
(* The page. *)

\* poll: without a request under way, refresh sends one and the next poll is
\* scheduled when it ends; otherwise refresh returns at once.
PollUnlessBusy(isBusy, after) ==
  IF isBusy
  THEN timer' = TRUE /\ UNCHANGED call
  ELSE timer' = FALSE /\ call' = Sent("poll", after)

poll ==
  /\ timer
  /\ PollUnlessBusy(busy, lastLogId)
  /\ UNCHANGED <<serverVars, mounted, hidden, logs, lastLogId, generation, source, patched>>

\* The page's refresh button; it does nothing while a request is under way.
ClickRefresh ==
  /\ mounted /\ ~ busy
  /\ call' = Sent("button", lastLogId)
  /\ UNCHANGED <<serverVars, pageVars>>

\* The end of a request: the one who polled schedules the next poll.
EndCall ==
  /\ call' = Idle
  /\ timer' = (timer \/ (call.by = "poll" /\ ~ hidden))

\* The entries the page keeps once a reply is applied.
MergeIgnoringGeneration(data) ==
  Newest(IF call.after = 0 THEN data ELSE logs \o data, Capacity)
GenerationChanged == generation # NoGeneration /\ call.process # generation
Merge(data) ==
  Newest(IF call.after = 0 \/ GenerationChanged THEN data ELSE logs \o data, Capacity)

LastIdKept(s) == IF s = <<>> THEN lastLogId ELSE s[Len(s)].id
LastId(s) == IF s = <<>> THEN 0 ELSE s[Len(s)].id

ApplyReply ==
  /\ call.phase = "answered"
  /\ logs' = Merge(call.data)
  /\ lastLogId' = LastId(Merge(call.data))
  /\ generation' = call.process
  /\ source' = [process |-> call.process, next |-> call.next]
  /\ patched' = (call.after > 0 /\ (GenerationChanged \/ patched))
  /\ EndCall
  /\ UNCHANGED <<serverVars, mounted, hidden>>

\* No reply, an error status, or the page's own timeout of eight seconds.
CallFails ==
  /\ busy
  /\ EndCall
  /\ UNCHANGED <<serverVars, mounted, hidden, logs, lastLogId, generation, source, patched>>

\* A body that breaks off counts as {} (api.ts): its generation is stored
\* before its missing data raises an error.
BodyLost ==
  /\ BodiesGetLost
  /\ call.phase = "answered"
  /\ generation' = Undefined
  /\ EndCall
  /\ UNCHANGED <<serverVars, mounted, hidden, logs, lastLogId, source, patched>>

HideWithoutAbort ==
  /\ ~ hidden
  /\ hidden' = TRUE
  /\ timer' = FALSE
  /\ UNCHANGED <<serverVars, mounted, logs, lastLogId, generation, source, patched, call>>

\* The tab goes to the background: no timer, and the request is aborted,
\* perhaps within its body.
Hide ==
  /\ ~ hidden
  /\ hidden' = TRUE
  /\ timer' = FALSE
  /\ call' = Idle
  /\ generation' \in {generation} \cup
       (IF BodiesGetLost /\ call.phase = "answered" THEN {Undefined} ELSE {})
  /\ UNCHANGED <<serverVars, mounted, logs, lastLogId, source, patched>>

Show ==
  /\ hidden
  /\ hidden' = FALSE
  /\ IF mounted THEN PollUnlessBusy(busy, lastLogId) ELSE UNCHANGED <<timer, call>>
  /\ UNCHANGED <<serverVars, mounted, logs, lastLogId, generation, source, patched>>

\* Opening the page polls at once, unless its tab is in the background.
Mount ==
  /\ ~ mounted
  /\ mounted' = TRUE
  /\ IF hidden THEN UNCHANGED <<timer, call>> ELSE PollUnlessBusy(busy, lastLogId)
  /\ UNCHANGED <<serverVars, hidden, logs, lastLogId, generation, source, patched>>

\* Leaving it aborts the request and discards its state.
Unmount ==
  /\ mounted
  /\ mounted' = FALSE
  /\ FreshPage
  /\ UNCHANGED <<serverVars, hidden>>

Server == add \/ Restart \/ listRuntimeLogs
Page == poll \/ ClickRefresh \/ ApplyReply \/ CallFails \/ BodyLost
Reader == Hide \/ Show \/ Mount \/ Unmount
Next == Server \/ Page \/ Reader

Spec == Init /\ [][Next]_vars

\* A page that polls for ever finds itself idle when its timer fires now and
\* then, and of the requests made for ever some are answered and some of the
\* answers arrive.  Nothing is assumed of the reader or of the button.
Fairness ==
  /\ SF_vars(poll)
  /\ SF_vars(listRuntimeLogs)
  /\ SF_vars(ApplyReply)

FairSpec == Spec /\ Fairness

-----------------------------------------------------------------------------
(* Properties. *)

EntrySeq(n) == {s \in Seq(Entry) : Len(s) <= n}

Calls ==
  {Idle}
  \cup [phase : {"sent"}, by : {"poll", "button"}, after : 0 .. MaxEntries]
  \cup [phase : {"answered"}, by : {"poll", "button"}, after : 0 .. MaxEntries,
        process : 1 .. MaxProcesses, next : 0 .. MaxEntries, data : EntrySeq(Capacity)]

\* Every variable has its type; neither the ring nor the page grows beyond the
\* capacity (runtime_logs.go:39, RuntimeLogs.vue:49).
TypeOK ==
  /\ process \in 1 .. MaxProcesses
  /\ next \in 0 .. MaxEntries
  /\ items \in EntrySeq(Capacity)
  /\ mounted \in BOOLEAN /\ hidden \in BOOLEAN /\ timer \in BOOLEAN
  /\ call \in Calls
  /\ logs \in EntrySeq(Capacity)
  /\ lastLogId \in 0 .. MaxEntries
  /\ generation \in (1 .. MaxProcesses) \cup {NoGeneration, Undefined}
  /\ source \in [process : 0 .. MaxProcesses, next : 0 .. MaxEntries]
  /\ patched \in BOOLEAN

\* What the page keeps is one process's entries without a gap or a repetition,
\* however many were evicted between two polls, whatever polls failed and
\* wherever a restart fell (RuntimeLogs.vue:45-50).
Contiguous ==
  \A k \in 1 .. Len(logs) - 1 :
    /\ logs[k + 1].process = logs[k].process
    /\ logs[k + 1].id = logs[k].id + 1

\* While the page is open in the foreground exactly one poll is due: the timer
\* is armed or a polling request is under way, never both, so that neither
\* polling stops nor two chains of polls arise (RuntimeLogs.vue:70-86).
OnePollDue ==
  LET polling == busy /\ call.by = "poll"
  IN  /\ ~ (timer /\ polling)
      /\ (timer \/ polling) <=> (mounted /\ ~ hidden)

NewestEntries(n) ==
  [k \in 1 .. n |-> [process |-> source.process, id |-> source.next - n + k]]

\* Once a reply is applied the page shows the newest entries there were when
\* the server answered, as many as it shows at most: src/README.md:70 promises
\* the newest 22 of the last 1000 (RuntimeLogs.vue:18, runtime_logs.go:69).
\* It holds until an incremental reply replaces what the page had.
ShowsNewest ==
  (source.process # 0 /\ ~ patched) =>
    visibleLogs = NewestEntries(IF source.next < Shown THEN source.next ELSE Shown)

\* The promise as the README makes it, of every page that shows anything: an
\* empty page asks for everything again, one that shows too few does not.
ShownAreNewest ==
  logs # <<>> =>
    visibleLogs = NewestEntries(IF source.next < Shown THEN source.next ELSE Shown)

\* A page left open in the foreground has the newest entry of the running
\* process again and again, after restarts, failed polls, lost bodies and
\* evictions alike (RuntimeLogs.vue:52: an empty page asks from the beginning).
CatchesUp ==
  <>[](mounted /\ ~ hidden)
    => []<>(IF next = 0 THEN logs = <<>>
            ELSE logs # <<>> /\ logs[Len(logs)] = [process |-> process, id |-> next])
=============================================================================
