-------------------------- MODULE StreamTranslation --------------------------
(***************************************************************************)
(* Translation of a streamed answer between the three protocols            *)
(* (internal/translate/stream.go): Push takes one upstream event, updates  *)
(* the blocks of the answer and renders what the client may already see;   *)
(* End takes the end of the upstream's bytes.                              *)
(*                                                                         *)
(* Text is abstracted to numbered pieces: piece n is the n-th piece of     *)
(* text, reasoning or tool argument the upstream said, and said[n] is the  *)
(* place it has there (its slot).  Piece -n stands for a piece that makes  *)
(* the arguments it is part of no JSON object.  A block's text is a        *)
(* sequence of pieces.  The upstream is modelled as a program that follows *)
(* its protocol, up to its ending, which may be missing.                   *)
(***************************************************************************)
EXTENDS Integers, Sequences, FiniteSets, SequencesExt

CONSTANTS
  Pairs,      \* the pairs <<upstream's protocol, client's protocol>> explored
  MaxPieces,  \* bound: pieces of text the upstream says
  MaxItems    \* bound: tools, blocks or items of an answer

Protocols == {"chat", "responses", "anthropic"}

ASSUME StreamAssumption ==
  /\ Pairs \subseteq Protocols \X Protocols
  /\ MaxPieces \in Nat
  /\ MaxItems \in Nat

VARIABLES
  from, to,      \* the protocols of the upstream and of the client
  blocks,        \* the blocks of the answer, in order of appearance
  chatText,      \* Chat: number of the current text block
  chatThinking,  \* Chat: number of the current reasoning block
  stop,          \* the upstream's stop reason, "" while it gave none
  started,       \* the client's opening event was sent
  outcome,       \* "open", "finished" or "failed"
  client,        \* the events sent to the client
  said,          \* the slots of the pieces the upstream said
  up             \* where the upstream is in its protocol

streamVars == <<blocks, chatText, chatThinking, stop, started, outcome, client>>
vars == <<from, to, streamVars, said, up>>

EmptyInput == 0   \* the arguments {} of a tool called without any

-----------------------------------------------------------------------------
(* Blocks. *)

NewBlock(key, kind) ==
  [key |-> key, kind |-> kind, text |-> <<>>, header |-> {}, fallback |-> <<>>,
   done |-> FALSE, started |-> FALSE, ended |-> FALSE, sent |-> 0]

Has(bs, key) == \E i \in DOMAIN bs : bs[i].key = key
At(bs, key) == CHOOSE i \in DOMAIN bs : bs[i].key = key

\* The blocks with one of the given key: block(key, kind).
With(bs, key, kind) == IF Has(bs, key) THEN bs ELSE Append(bs, NewBlock(key, kind))

\* The blocks once text was added to that one.
Extend(bs, key, kind, text) ==
  LET c == With(bs, key, kind)
  IN  [c EXCEPT ![At(c, key)].text = @ \o text]

CloseOverwriting(b) ==
  [b EXCEPT !.done = TRUE,
            !.text = IF b.kind = "tool"
                     THEN (IF b.fallback = <<>> THEN <<EmptyInput>> ELSE b.fallback)
                     ELSE b.text]
\* A tool that never got arguments gets those of its start, or none.
closeBlock(b) ==
  [b EXCEPT !.done = TRUE,
            !.text = IF b.kind = "tool" /\ b.text = <<>>
                     THEN (IF b.fallback = <<>> THEN <<EmptyInput>> ELSE b.fallback)
                     ELSE b.text]

CloseThose(bs, Closing(_)) ==
  [i \in DOMAIN bs |-> IF Closing(bs[i]) THEN closeBlock(bs[i]) ELSE bs[i]]

closeAll(bs) == CloseThose(bs, LAMBDA b : TRUE)

IsNamed(b) == b.header = {"id", "name"}

\* toolInput: the arguments are a JSON object.
IsInput(text) == \A k \in DOMAIN text : text[k] >= EmptyInput

-----------------------------------------------------------------------------
(* Rendering: the events a block has not sent yet. *)

ToolIndexOfOpen(bs, i) ==
  Cardinality({j \in 1 .. i - 1 : bs[j].kind = "tool" /\ ~ bs[j].done})
\* Tools are numbered on their own in Chat; other protocols number all blocks.
ToolIndex(bs, i) == Cardinality({j \in 1 .. i - 1 : bs[j].kind = "tool"})

Index(bs, i) ==
  IF to = "chat" THEN (IF bs[i].kind = "tool" THEN ToolIndex(bs, i) ELSE -1)
  ELSE i - 1

\* A refusal is a text of its own, except to Anthropic clients.
ClientKind(b) == IF to = "anthropic" /\ b.kind = "refusal" THEN "text" ELSE b.kind

Event(type, bs, i, text) ==
  [type |-> type, index |-> Index(bs, i), kind |-> ClientKind(bs[i]), text |-> text]

startBlock(bs, i) ==
  IF to # "chat" \/ bs[i].kind = "tool" THEN <<Event("open", bs, i, <<>>)>> ELSE <<>>

delta(bs, i) ==
  IF Len(bs[i].text) > bs[i].sent
  THEN <<Event("delta", bs, i, SubSeq(bs[i].text, bs[i].sent + 1, Len(bs[i].text)))>>
  ELSE <<>>

\* Responses repeats the whole text when an item is done.
endBlock(bs, i) ==
  IF to = "chat" THEN <<>>
  ELSE <<Event("close", bs, i, IF to = "responses" THEN bs[i].text ELSE <<>>)>>

\* A tool is shown once its id and name are known; to Anthropic clients nothing
\* is shown behind a block that is not done.
IsHidden(b) == b.kind = "tool" /\ ~ IsNamed(b)
HoldsBackNothing(b) == FALSE
HoldsBackForAll(b) == IsHidden(b) \/ ~ b.done
HoldsBack(b) == to = "anthropic" /\ (IsHidden(b) \/ ~ b.done)
Reached(bs, i) == \A j \in 1 .. i - 1 : ~ HoldsBack(bs[j])
Renders(bs, i) == Reached(bs, i) /\ ~ IsHidden(bs[i]) /\ ~ bs[i].ended

Rendered(b) == [b EXCEPT !.started = TRUE, !.sent = Len(b.text), !.ended = b.done]

BlockEvents(bs, i) ==
  (IF bs[i].started THEN <<>> ELSE startBlock(bs, i))
    \o delta(bs, i)
    \o (IF bs[i].done THEN endBlock(bs, i) ELSE <<>>)

AllBlockEvents(bs) ==
  FlattenSeq([i \in DOMAIN bs |-> IF Renders(bs, i) THEN BlockEvents(bs, i) ELSE <<>>])

Opening == IF started THEN <<>> ELSE <<[type |-> "start"]>>

\* stopReason, encodeCompletion: a limit or a filter goes first, then tools.
Reason(bs, reason) ==
  IF reason \in {"length", "content_filter"} THEN reason
  ELSE IF \E i \in DOMAIN bs : bs[i].kind = "tool" THEN "tool_calls"
  ELSE "stop"

\* The last event; Responses repeats the whole answer in it.
Ending(bs, reason) ==
  <<[type |-> "finish", reason |-> Reason(bs, reason),
     output |-> IF to = "responses" THEN [i \in DOMAIN bs |-> bs[i].text] ELSE <<>>]>>

Broken(bs, final) ==
  \E i \in DOMAIN bs :
    /\ bs[i].kind = "tool"
    /\ Reached(bs, i)
    /\ IF IsNamed(bs[i]) THEN bs[i].done /\ ~ IsInput(bs[i].text) ELSE final

Fail ==
  /\ outcome' = "failed"
  /\ UNCHANGED <<blocks, started, client>>

\* render: all the events that became due, or an error and none of them.
render(bs, reason, final) ==
  IF Broken(bs, final)
  THEN Fail
  ELSE /\ started' = TRUE
       /\ client' = client \o Opening \o AllBlockEvents(bs)
                      \o (IF final THEN Ending(bs, reason) ELSE <<>>)
       /\ blocks' = [i \in DOMAIN bs |-> IF Renders(bs, i) THEN Rendered(bs[i]) ELSE bs[i]]
       /\ outcome' = IF final THEN "finished" ELSE "open"

-----------------------------------------------------------------------------
(* Push, by the upstream's protocol. *)

Init ==
  /\ \E p \in Pairs : from = p[1] /\ to = p[2]
  /\ blocks = <<>> /\ chatText = 0 /\ chatThinking = 0 /\ stop = ""
  /\ started = FALSE /\ outcome = "open" /\ client = <<>>
  /\ said = <<>>
  /\ up = [phase |-> "talking", items |-> <<>>]

Item(kind) == [kind |-> kind, open |-> TRUE]

\* The upstream says a piece of text in a slot.
Piece == Len(said) + 1
PieceOf(json) == IF json THEN Piece ELSE - Piece
Say(slot) ==
  /\ Len(said) < MaxPieces
  /\ said' = Append(said, slot)

Converting(protocol, phase) ==
  /\ outcome = "open"
  /\ from = protocol
  /\ from # to
  /\ up.phase = phase

Push(bs, reason, final) ==
  /\ stop' = reason
  /\ render(bs, reason, final)
  /\ UNCHANGED <<from, to>>

SameChatBlocks == UNCHANGED <<chatText, chatThinking>>

\* An event without content (a role, an index, usage, a ping) opens the
\* client's stream and renders what is due.
Silence ==
  /\ \E p \in Protocols, phase \in {"talking", "stopped"} : Converting(p, phase)
  /\ Push(blocks, stop, FALSE)
  /\ SameChatBlocks /\ UNCHANGED <<said, up>>

\* The number of the block that text goes to: the current one, or the next if a
\* tool call has closed it.
CurrentAlways(kind, n) == n
Current(kind, n) ==
  IF Has(blocks, <<kind, n>>) /\ blocks[At(blocks, <<kind, n>>)].done THEN n + 1 ELSE n

ChatContent ==
  /\ Converting("chat", "talking")
  /\ Say(<<"text", 0>>)
  /\ chatText' = Current("text", chatText)
  /\ Push(Extend(blocks, <<"text", chatText'>>, "text", <<Piece>>), stop, FALSE)
  /\ UNCHANGED <<chatThinking, up>>

ChatReasoning ==
  /\ Converting("chat", "talking")
  /\ Say(<<"thinking", 0>>)
  /\ chatThinking' = Current("thinking", chatThinking)
  /\ Push(Extend(blocks, <<"thinking", chatThinking'>>, "thinking", <<Piece>>), stop, FALSE)
  /\ UNCHANGED <<chatText, up>>

\* A refusal has one block; the upstream refuses before it calls tools, if it
\* does either.
ChatRefusal ==
  /\ Converting("chat", "talking")
  /\ up.items = <<>>
  /\ Say(<<"refusal", 0>>)
  /\ Push(Extend(blocks, <<"refusal", 0>>, "refusal", <<Piece>>), stop, FALSE)
  /\ SameChatBlocks /\ UNCHANGED up

\* The blocks once tool t got a part of its header and some arguments: a tool
\* call closes the text before it.
ChatToolBlocks(t, header, text) ==
  LET key == <<"tool", t>>
      closed == CloseThose(blocks, LAMBDA b : b.kind # "tool")
      bs == Extend(closed, key, "tool", text)
  IN  [bs EXCEPT ![At(bs, key)].header = @ \cup header]

\* A tool call begins, with its id and mostly its name.
ChatToolStart ==
  /\ Converting("chat", "talking")
  /\ Len(up.items) < MaxItems
  /\ \E header \in {{"id"}, {"id", "name"}} :
       /\ Push(ChatToolBlocks(Len(up.items), header, <<>>), stop, FALSE)
       /\ up' = [up EXCEPT !.items = Append(@, [kind |-> "tool", open |-> header = {"id"}])]
  /\ SameChatBlocks /\ UNCHANGED said

\* Its name comes later.
ChatToolName ==
  /\ Converting("chat", "talking")
  /\ \E t \in DOMAIN up.items :
       /\ up.items[t].open
       /\ Push(ChatToolBlocks(t - 1, {"name"}, <<>>), stop, FALSE)
       /\ up' = [up EXCEPT !.items[t].open = FALSE]
  /\ SameChatBlocks /\ UNCHANGED said

\* A part of its arguments; parallel tool calls may alternate.
ChatToolArguments ==
  /\ Converting("chat", "talking")
  /\ \E t \in DOMAIN up.items, json \in BOOLEAN :
       /\ Say(<<"tool", t - 1>>)
       /\ Push(ChatToolBlocks(t - 1, {}, <<PieceOf(json)>>), stop, FALSE)
  /\ SameChatBlocks /\ UNCHANGED up

ChatFinish ==
  /\ Converting("chat", "talking")
  /\ \E reason \in {"stop", "length"} : Push(closeAll(blocks), reason, FALSE)
  /\ up' = [up EXCEPT !.phase = "stopped"]
  /\ SameChatBlocks /\ UNCHANGED said

\* [DONE], with or without a finish reason before.
ChatDone ==
  /\ \E phase \in {"talking", "stopped"} : Converting("chat", phase)
  /\ Push(closeAll(blocks), stop, TRUE)
  /\ up' = [up EXCEPT !.phase = "ended"]
  /\ SameChatBlocks /\ UNCHANGED said

-----------------------------------------------------------------------------
(* Anthropic: one block after the other. *)

Count == Len(up.items)
IsOpen == Count > 0 /\ up.items[Count].open
Key(n) == <<"block", n>>

\* A tool may carry its whole input in its start.
BlockStart ==
  /\ Converting("anthropic", "talking")
  /\ ~ IsOpen /\ Count < MaxItems
  /\ \E kind \in {"text", "thinking", "tool"}, whole \in BOOLEAN, json \in BOOLEAN :
       LET bs == With(blocks, Key(Count), kind)
       IN  /\ whole => kind = "tool"
           /\ json \/ whole
           /\ IF whole THEN Say(Key(Count)) ELSE UNCHANGED said
           /\ Push([bs EXCEPT ![At(bs, Key(Count))].header =
                                   IF kind = "tool" THEN {"id", "name"} ELSE {},
                              ![At(bs, Key(Count))].fallback =
                                   IF whole THEN <<PieceOf(json)>> ELSE <<>>],
                   stop, FALSE)
           /\ up' = [up EXCEPT !.items = Append(@, Item(IF whole THEN "whole" ELSE kind))]
  /\ SameChatBlocks

BlockDelta ==
  /\ Converting("anthropic", "talking")
  /\ IsOpen /\ up.items[Count].kind # "whole"
  /\ Say(Key(Count - 1))
  /\ \E json \in BOOLEAN :
       /\ json \/ up.items[Count].kind = "tool"
       /\ Push(Extend(blocks, Key(Count - 1), up.items[Count].kind, <<PieceOf(json)>>),
               stop, FALSE)
  /\ SameChatBlocks /\ UNCHANGED up

BlockStop ==
  /\ Converting("anthropic", "talking")
  /\ IsOpen
  /\ Push(CloseThose(blocks, LAMBDA b : b.key = Key(Count - 1)), stop, FALSE)
  /\ up' = [up EXCEPT !.items[Count].open = FALSE]
  /\ SameChatBlocks /\ UNCHANGED said

MessageDelta ==
  /\ Converting("anthropic", "talking")
  /\ ~ IsOpen
  /\ \E reason \in {"stop", "length"} : Push(blocks, reason, FALSE)
  /\ up' = [up EXCEPT !.phase = "stopped"]
  /\ SameChatBlocks /\ UNCHANGED said

MessageStop ==
  /\ Converting("anthropic", "stopped")
  /\ Push(closeAll(blocks), stop, TRUE)
  /\ up' = [up EXCEPT !.phase = "ended"]
  /\ SameChatBlocks /\ UNCHANGED said

-----------------------------------------------------------------------------
(* Responses: items that may alternate, each with its text at the end again. *)

ItemKey(o) == IF up.items[o].kind = "tool" THEN <<o - 1>> ELSE <<o - 1, up.items[o].kind>>
TextOf(bs, key) == IF Has(bs, key) THEN bs[At(bs, key)].text ELSE <<>>

\* A tool is named at once; other items appear with their first text.
ItemAdded ==
  /\ Converting("responses", "talking")
  /\ Count < MaxItems
  /\ \E kind \in {"text", "refusal", "thinking", "tool"} :
       LET bs == With(blocks, <<Count>>, "tool")
       IN  /\ Push(IF kind = "tool"
                   THEN [bs EXCEPT ![At(bs, <<Count>>)].header = {"id", "name"}]
                   ELSE blocks, stop, FALSE)
           /\ up' = [up EXCEPT !.items = Append(@, Item(kind))]
  /\ SameChatBlocks /\ UNCHANGED said

ItemDelta ==
  /\ Converting("responses", "talking")
  /\ \E o \in DOMAIN up.items, json \in BOOLEAN :
       /\ up.items[o].open
       /\ json \/ up.items[o].kind = "tool"
       /\ Say(ItemKey(o))
       /\ Push(Extend(blocks, ItemKey(o), up.items[o].kind, <<PieceOf(json)>>), stop, FALSE)
  /\ SameChatBlocks /\ UNCHANGED up

\* The final text of item o: what was said before, and with more, a last piece
\* that comes without a delta.  Text that was streamed stays as it was, and
\* arguments must go on where the streamed ones ended.
WithFinal(bs, o, more) ==
  LET key == ItemKey(o)
      c == With(bs, key, up.items[o].kind)
  IN  IF more THEN [c EXCEPT ![At(c, key)].text = @ \o <<Piece>>] ELSE bs

\* The upstream may leave out the deltas of a text, or end arguments early.
MayAdd(o) == up.items[o].kind = "tool" \/ TextOf(blocks, ItemKey(o)) = <<>>

ItemDone ==
  /\ Converting("responses", "talking")
  /\ \E o \in DOMAIN up.items, more \in BOOLEAN :
       /\ up.items[o].open
       /\ IF more THEN MayAdd(o) /\ Say(ItemKey(o)) ELSE UNCHANGED said
       /\ Push(CloseThose(WithFinal(blocks, o, more), LAMBDA b : b.key = ItemKey(o)),
               stop, FALSE)
       /\ up' = [up EXCEPT !.items[o].open = FALSE]
  /\ SameChatBlocks

\* The end, with the whole answer once more or without it; it may hold a text
\* that no event told before.
Completed ==
  /\ Converting("responses", "talking")
  /\ \E reason \in {"", "length"} :
       \/ /\ Push(closeAll(blocks), reason, TRUE)
          /\ UNCHANGED said
       \/ \E o \in DOMAIN up.items :
            /\ up.items[o].open /\ MayAdd(o)
            /\ Say(ItemKey(o))
            /\ Push(closeAll(WithFinal(blocks, o, TRUE)), reason, TRUE)
  /\ up' = [up EXCEPT !.phase = "ended"]
  /\ SameChatBlocks

-----------------------------------------------------------------------------
(* Between equal protocols events are passed on. *)

Passing == outcome = "open" /\ from = to /\ up.phase # "ended"
Pass(type) == client' = Append(client, [type |-> type])

Relay ==
  /\ Passing /\ Len(client) < MaxPieces
  /\ Pass("relay")
  /\ stop' \in {stop} \cup (IF from = "chat" THEN {"stop"} ELSE {})
  /\ UNCHANGED <<from, to, blocks, chatText, chatThinking, started, outcome, said, up>>

RelayEnding ==
  /\ Passing
  /\ Pass("finish")
  /\ outcome' = "finished"
  /\ up' = [up EXCEPT !.phase = "ended"]
  /\ UNCHANGED <<from, to, blocks, chatText, chatThinking, stop, started, said>>

-----------------------------------------------------------------------------
(* The end of the bytes, and errors. *)

\* End: only a Chat answer whose finish reason came is whole without [DONE].
EndAccepting == outcome = "open" /\ stop # ""
EndIsWhole == outcome = "open" /\ from = "chat" /\ stop # ""

End ==
  /\ outcome = "open"
  /\ IF EndIsWhole
     THEN IF from = to
          THEN /\ Pass("finish") /\ outcome' = "finished"
               /\ UNCHANGED <<blocks, started, stop, from, to>>
          ELSE Push(closeAll(blocks), stop, TRUE)
     ELSE Fail /\ UNCHANGED <<stop, from, to>>
  /\ SameChatBlocks /\ UNCHANGED <<said, up>>

\* An error event, or one that is not JSON.
UpstreamError ==
  /\ outcome = "open"
  /\ up.phase # "ended"
  /\ Fail
  /\ SameChatBlocks /\ UNCHANGED <<from, to, stop, said, up>>

FromChat ==
  \/ ChatContent \/ ChatReasoning \/ ChatRefusal
  \/ ChatToolStart \/ ChatToolName \/ ChatToolArguments
  \/ ChatFinish \/ ChatDone
FromAnthropic == BlockStart \/ BlockDelta \/ BlockStop \/ MessageDelta \/ MessageStop
FromResponses == ItemAdded \/ ItemDelta \/ ItemDone \/ Completed
Next ==
  \/ FromChat \/ FromAnthropic \/ FromResponses \/ Silence
  \/ Relay \/ RelayEnding \/ End \/ UpstreamError

Spec == Init /\ [][Next]_vars

-----------------------------------------------------------------------------
(* Properties. *)

Abs(n) == IF n < 0 THEN - n ELSE n

\* What the client heard: the events with text, the places <<event, position>>
\* that hold a piece the upstream said, and the pieces.
Deltas == {k \in DOMAIN client : client[k].type = "delta"}
PieceAt(p) == Abs(client[p[1]].text[p[2]])
Places ==
  {p \in UNION {{k} \X DOMAIN client[k].text : k \in Deltas} : PieceAt(p) # EmptyInput}
Earlier(p, q) == p[1] < q[1] \/ (p[1] = q[1] /\ p[2] < q[2])
Heard == {PieceAt(p) : p \in Places}

\* The client hears of each text, reasoning and tool call what the upstream
\* said of it, in order, nothing twice and nothing left out before what it hears,
\* and all of it by the end of a finished answer (stream.go:628 sends what
\* follows the part already sent).
NothingLost ==
  /\ Heard \subseteq DOMAIN said
  /\ \A p, q \in Places :
       (said[PieceAt(p)] = said[PieceAt(q)] /\ Earlier(p, q)) => PieceAt(p) < PieceAt(q)
  /\ \A n \in Heard : \A m \in 1 .. n - 1 : said[m] = said[n] => m \in Heard
  /\ outcome = "finished" => DOMAIN said \subseteq Heard

\* A numbered block of the client never holds the text of two of the upstream's:
\* arguments of parallel tool calls are not mixed (stream.go:602 numbers tools).
\* The content of a Chat answer has no numbers: it is one text.
BlocksApart ==
  \A p, q \in Places :
    (client[p[1]].index = client[q[1]].index /\ client[p[1]].index # -1)
      => said[PieceAt(p)] = said[PieceAt(q)]

OfBlock(k) == client[k].type \in {"open", "delta", "close"}
\* An earlier event of the given type about block i.
Before(k, type, i) ==
  \E j \in 1 .. k - 1 : client[j].type = type /\ client[j].index = i

\* An Anthropic client gets one block after the other, numbered without a gap,
\* however the upstream's blocks alternate (stream.go:46): a block is opened when
\* all before it have ended, and all have at the end of the answer.
OneBlockAtATime ==
  to = "anthropic" =>
    \A k \in DOMAIN client :
      /\ client[k].type = "open" =>
           \A i \in 0 .. client[k].index - 1 : Before(k, "close", i)
      /\ client[k].type = "finish" =>
           \A j \in 1 .. k - 1 : client[j].type = "open" => Before(k, "close", client[j].index)

\* A numbered block is opened once, before its text, and gets none after its
\* end: a tool's id and name come before its arguments (stream.go:487, 621).
OpenedBeforeUse ==
  \A k \in DOMAIN client :
    (OfBlock(k) /\ client[k].index # -1) =>
      /\ ~ Before(k, "close", client[k].index)
      /\ (client[k].type = "open") <=> ~ Before(k, "open", client[k].index)

\* The client's events come in an order its protocol allows, however many of
\* the upstream's blocks are under way at once (stream.go:599).
WellOrdered == OneBlockAtATime /\ OpenedBeforeUse

\* The text that the first n events had for block i.
Streamed(n, i) ==
  FlattenSeq([k \in 1 .. n |-> IF client[k].type = "delta" /\ client[k].index = i
                               THEN client[k].text ELSE <<>>])

\* What a Responses client is told at the end of an item, and once more at the
\* end of the answer, is what it got in deltas; and all items have ended by then
\* (stream.go:569, 650).
DoneTellsAll ==
  to = "responses" =>
    \A k \in DOMAIN client :
      /\ client[k].type = "close" => client[k].text = Streamed(k - 1, client[k].index)
      /\ (client[k].type = "finish" /\ from # to) =>
           /\ \A j \in 1 .. k - 1 :
                client[j].type = "close" => client[j].index + 1 \in DOMAIN client[k].output
           /\ \A i \in DOMAIN client[k].output :
                /\ Before(k, "close", i - 1)
                /\ client[k].output[i] = Streamed(k - 1, i - 1)

\* What a client other than Anthropic's may see it sees at once: only a tool
\* without a name, and an input that comes whole before its block's end, wait.
Prompt ==
  (outcome = "open" /\ from # to /\ to # "anthropic") =>
    \A n \in DOMAIN said \ Heard :
      \/ \E i \in DOMAIN blocks : blocks[i].key = said[n] /\ IsHidden(blocks[i])
      \/ IsOpen /\ up.items[Count].kind = "whole" /\ said[n] = Key(Count - 1)

\* The client's stream has at most one ending, nothing after it, and it says
\* that the answer is whole only if the upstream did: by its last event, or for
\* Chat by a finish reason.  A limit that was hit is told (stream.go:185).
EndsWithUpstream ==
  /\ \A k \in DOMAIN client : client[k].type = "finish" => k = Len(client)
  /\ (outcome = "finished") <=> (client # <<>> /\ client[Len(client)].type = "finish")
  /\ outcome = "finished" => up.phase = "ended" \/ (from = "chat" /\ stop # "")
  /\ (outcome = "finished" /\ from # to) =>
       (client[Len(client)].reason = "length") = (stop = "length")
=============================================================================
