------------------------------- MODULE Dialogue -------------------------------
(***************************************************************************)
(* A conversation of several turns through the gateway.  The client speaks *)
(* one protocol and keeps the history in it; every request goes to a       *)
(* provider of any protocol, because the channels of a model rotate and a  *)
(* failed attempt moves on.  upstream/client.go:190-250 (call) translates   *)
(* the request with translate.Request and the answer with                  *)
(* translate.Response; both are in Translation.                            *)
(*                                                                         *)
(* What a client says and what a provider answers is the environment.  Its *)
(* words are numbered as they are first said, so that a word lost, told    *)
(* twice, in the wrong place or in another's name can be told apart.       *)
(***************************************************************************)
EXTENDS Translation, FiniteSets

CONSTANTS
  Settings,     \* what clients ask for besides the conversation
  Shapes,       \* the answers of providers: sequences of the kinds of their parts
  Ends,         \* how an answer ends: "done", "limit", "filter", "sequence" or "failed"
  Usages,       \* the tokens it counts
  MaxTurns      \* bound on the requests of a conversation

VARIABLES
  client,     \* the protocol of the client
  settings,   \* what it asks for in every request
  history,    \* the messages as the client keeps them
  said,       \* what was said in each step of the conversation, by whom
  words,      \* the words said so far
  opaque,     \* the history has a block that only the client's protocol knows
  calls,      \* the tool calls the client has to answer
  turns,      \* the requests so far
  phase,      \* "idle", "ready", "waiting" or "refused", "failed"
  provider,   \* the protocol of the provider that is asked
  sent,       \* the request as the provider gets it
  answer,     \* the provider's answer
  reply       \* the answer as the client gets it

vars == <<client, settings, history, said, words, opaque, calls, turns, phase, provider, sent,
          answer, reply>>

Nobody == "nobody"
Nothing == <<>>

\* The parts of an answer: calls have arguments, none, or no JSON object; opaque is
\* what only its own protocol knows.
ToolKinds == {"tool", "bare", "broken"}
Kinds == ToolKinds \cup {"text", "thinking", "refusal", "opaque"}

\* What the protocols let a client ask, and a provider count.
ASSUME DialogueAssumption ==
  /\ Settings \subseteq
       [limit : Nat, effort : {None, "low", "medium", "high"},
        choice : {None, "auto", "none", "any", "one"}, parallel : {None, "yes", "no"},
        stop : BOOLEAN, format : {None, "text", "json_object", "json_schema"},
        own : BOOLEAN, n : Nat, tools : {"functions", "hosted"}]
  /\ \A shape \in Shapes : shape \in Seq(Kinds)
  /\ Ends \subseteq {"done", "limit", "filter", "sequence", "failed"}
  /\ Usages \subseteq [input : Nat, output : Nat, cached : Nat, creation : Nat, reasoning : Nat]

\* All but the conversation is at its default.
Plain(s) == s = [limit |-> 0, effort |-> None, choice |-> None, parallel |-> None, stop |-> FALSE,
                 format |-> None, own |-> FALSE, n |-> 1, tools |-> "functions"]

-----------------------------------------------------------------------------
\* What is told: a word of somebody, or the id of a call; a result is of a call.

Fact(by, of, word) == [by |-> by, of |-> of, word |-> word]

Speaker(role) == IF role = "developer" THEN "system" ELSE role

BlockFacts(by, of, b) ==
  LET Word(w) == <<Fact(by, of, w)>> IN
  CASE b.type = "thinking" -> FlattenEach(Word, b.thinking)
    [] b.type \in {"image_url", "input_image", "image"} -> Word(b.url)
    [] OTHER -> FlattenEach(Word, b.text)

ContentFacts(by, of, blocks) == LET Of(b) == BlockFacts(by, of, b) IN FlattenEach(Of, blocks)

AnthropicFacts(role, b) ==
  CASE b.type = "tool_use" -> <<Fact("call", NoId, b.id)>>
    [] b.type = "tool_result" ->
         (IF b.is_error THEN <<Fact("result", b.tool_use_id, ToolError)>> ELSE <<>>)
           \o ContentFacts("result", b.tool_use_id, b.content)
    [] OTHER -> BlockFacts(Speaker(role), NoId, b)

ChatFacts(m) ==
  LET Said(w) == <<Fact("assistant", NoId, w)>>
      Called(c) == <<Fact("call", NoId, c.id)>>
  IN IF m.role = "tool" THEN ContentFacts("result", m.tool_call_id, m.content)
     ELSE FlattenEach(Said, m.reasoning_content)
            \o ContentFacts(Speaker(m.role), NoId, m.content) \o FlattenEach(Called, m.tool_calls)

ResponsesFacts(item) ==
  LET Said(text) == ContentFacts("assistant", NoId, <<TextBlock("text", text)>>) IN
  CASE item.type = "message" -> ContentFacts(Speaker(item.role), NoId, item.content)
    [] item.type = "function_call" -> <<Fact("call", NoId, item.call_id)>>
    [] item.type = "function_call_output" -> ContentFacts("result", item.call_id, item.output)
    [] item.type = "reasoning" -> FlattenEach(Said, item.summary)
    [] OTHER -> ContentFacts("assistant", NoId, <<item>>)

\* A message of any of the protocols, as whoever speaks the protocol reads it.
Told(protocol, m) ==
  LET Block(b) == AnthropicFacts(m.role, b) IN
  CASE protocol = "chat" -> ChatFacts(m)
    [] protocol = "responses" -> ResponsesFacts(m)
    [] OTHER -> FlattenEach(Block, m.content)

TellsAll(protocol, messages) == LET Of(m) == Told(protocol, m) IN FlattenEach(Of, messages)

\* A whole request.
Tells(protocol, body) ==
  ContentFacts("system", NoId, body.system) \o TellsAll(protocol, body.messages)

\* What one of them said, the calls and the calls that are answered.
By(facts, who) == LET Only(f) == IF f.by = who THEN <<f>> ELSE <<>> IN FlattenEach(Only, facts)
CallsIn(facts) ==
  LET Called(f) == IF f.by = "call" THEN <<f.word>> ELSE <<>> IN FlattenEach(Called, facts)
Replies(facts) == {f.of : f \in {g \in ToSet(facts) : g.by = "result"}}

-----------------------------------------------------------------------------
\* What the client writes.

UserBlocks(text, picture) ==
  LET Typed(chat, responses, anthropic) ==
        CASE client = "chat" -> chat [] client = "responses" -> responses [] OTHER -> anthropic
      url == PictureBlock(Typed("image_url", "input_image", "image"), text + 1)
  IN <<TextBlock(Typed("text", "input_text", "text"), <<text>>)>>
       \o (IF picture THEN <<url>> ELSE <<>>)

UserMessage(blocks) ==
  CASE client = "chat" -> ChatMessage("user", blocks, <<>>, <<>>)
    [] client = "responses" -> MessageItem("user", blocks)
    [] OTHER -> [role |-> "user", content |-> blocks]

\* The results of all calls, as messages of the client; more is what the user
\* says along with them.
ResultMessages(content, failed, more) ==
  LET Block(id) == ToolResult(id, content, failed)
      blocks == [i \in DOMAIN calls |-> Block(calls[i])] \o more
  IN CASE client = "chat" -> [i \in DOMAIN calls |-> ToolMessage(calls[i], content)]
       [] client = "responses" -> [i \in DOMAIN calls |-> OutputItem(calls[i], content)]
       [] OTHER -> <<UserMessage(blocks)>>

\* The request the client sends.  A Chat client that wants a model to reason
\* uses the newer name of the limit, and an Anthropic client has to set one.
Body ==
  LET anthropic == client = "anthropic"
      newer == client = "chat" /\ settings.effort # None
      one == IF anthropic THEN "tool" ELSE "function"
      any == IF anthropic THEN "any" ELSE "required"
  IN [Blank EXCEPT
        !.messages = history,
        !.system = IF client = "chat" THEN <<>> ELSE <<TextBlock("text", <<1>>)>>,
        !.max_output_tokens = IF client = "responses" THEN settings.limit ELSE 0,
        !.max_completion_tokens = IF newer THEN settings.limit ELSE 0,
        !.max_tokens = CASE anthropic /\ settings.limit = 0 -> DefaultMaxTokens
                         [] client = "responses" \/ newer -> 0
                         [] OTHER -> settings.limit,
        !.tools = settings.tools,
        !.tool_choice = CASE settings.choice = "one" -> one
                          [] settings.choice = "any" -> any
                          [] anthropic /\ settings.choice = None /\ settings.parallel # None -> "auto"
                          [] OTHER -> settings.choice,
        !.disable_parallel_tool_use = IF anthropic THEN Not(settings.parallel) ELSE None,
        !.parallel_tool_calls = IF anthropic THEN None ELSE settings.parallel,
        !.stop = settings.stop /\ client # "responses",
        !.n = settings.n, !.own = settings.own, !.format = settings.format,
        !.thinking = CASE anthropic /\ settings.effort = "high" -> "adaptive"
                       [] anthropic /\ settings.effort \in {"low", "medium"} -> "enabled"
                       [] OTHER -> None,
        !.budget_tokens = CASE anthropic /\ settings.effort = "low" -> LeastBudget
                            [] anthropic /\ settings.effort = "medium" -> 8192
                            [] OTHER -> 0,
        !.effort = IF anthropic /\ settings.effort # "high" THEN None ELSE settings.effort]

-----------------------------------------------------------------------------
\* What providers answer.  The n-th part of an answer is the n-th new word.  Only
\* Anthropic counts the tokens that went into its cache, and the others count the
\* cached ones among the input.

Answers(p, shape, end, all) ==
  LET usage == IF p = "anthropic" THEN all
                                  ELSE [all EXCEPT !.input = @ + all.cached, !.creation = 0]
      Word(i) == words + i
      Arguments(kind) == CASE kind = "bare" -> None [] kind = "broken" -> kind [] OTHER -> "object"
      WordsOf(kind) ==
        FlattenSeq([i \in DOMAIN shape |-> IF shape[i] = kind THEN <<Word(i)>> ELSE <<>>])
      chatCalls ==
        FlattenSeq([i \in DOMAIN shape |-> IF shape[i] \in ToolKinds
                                            THEN <<Call(Word(i), Arguments(shape[i]))>> ELSE <<>>])
      Block(i) == CASE shape[i] = "thinking" -> ThinkingBlock(<<Word(i)>>, "signed")
                    [] shape[i] \in ToolKinds -> ToolUse(Word(i), "object")
                    [] shape[i] = "opaque" -> TextBlock("redacted_thinking", <<Word(i)>>)
                    [] OTHER -> TextBlock("text", <<Word(i)>>)
      Item(i) == CASE shape[i] = "thinking" -> ReasoningItem(<< <<Word(i)>> >>)
                   [] shape[i] \in ToolKinds -> CallItem(Word(i), Arguments(shape[i]))
                   [] shape[i] = "opaque" -> TextBlock("web_search_call", <<Word(i)>>)
                   [] OTHER -> MessageItem("assistant",
                        <<TextBlock(IF shape[i] = "refusal" THEN shape[i] ELSE "output_text",
                                    <<Word(i)>>)>>)
      Or(reasons) == IF end \in DOMAIN reasons \ {"done"} THEN reasons[end]
                     ELSE IF ToSet(shape) \cap ToolKinds # {} THEN reasons.tools ELSE reasons.done
      body ==
        CASE p = "chat" ->
               ChatReply(IF "text" \in ToSet(shape) THEN <<TextBlock("text", WordsOf("text"))>>
                                                    ELSE <<>>,
                 WordsOf("refusal"), WordsOf("thinking"), chatCalls,
                 Or([limit |-> "length", filter |-> "content_filter", tools |-> "tool_calls",
                     done |-> "stop"]), usage)
          [] p = "anthropic" ->
               AnthropicReply([i \in DOMAIN shape |-> Block(i)],
                 Or([limit |-> "max_tokens", filter |-> "refusal", sequence |-> "stop_sequence",
                     tools |-> "tool_use", done |-> "end_turn"]), usage)
          [] OTHER ->
               ResponsesReply([i \in DOMAIN shape |-> Item(i)], WordsOf("text"),
                 Or([limit |-> "max_output_tokens", filter |-> "content_filter", tools |-> None,
                     done |-> None]), usage)
  IN [body EXCEPT !.failed = (end = "failed")]

\* What the client keeps of an answer.  The refusal of a Chat message has a field
\* of its own, which readConversation does not read: it is left out.
Kept(body) ==
  CASE client = "chat" ->
         <<ChatMessage("assistant", body.content, body.reasoning_content, body.tool_calls)>>
    [] client = "responses" -> body.output
    [] OTHER -> IF body.content = <<>> THEN <<>>
                ELSE <<[role |-> "assistant", content |-> body.content]>>

\* Chat has no block of its own, Anthropic no arguments but objects, and a stop
\* sequence is met in text.
Says(p, shape, end) ==
  LET kinds == ToSet(shape) IN
  /\ p = "chat" => "opaque" \notin kinds
  /\ p = "anthropic" => kinds \cap {"bare", "broken", "refusal"} = {}
  /\ end = "sequence" => p = "anthropic" /\ "tool" \notin kinds

-----------------------------------------------------------------------------

LastTurn == IF Plain(settings) THEN MaxTurns ELSE 1

Init ==
  /\ client \in Protocols
  /\ settings \in Settings
  /\ client = "responses" => ~ settings.stop
  /\ history = IF client = "chat"
                 THEN <<ChatMessage("developer", <<TextBlock("text", <<1>>)>>, <<>>, <<>>)>>
                 ELSE <<>>
  /\ said = << <<Fact("system", NoId, 1)>> >>
  /\ words = 1 /\ opaque = FALSE /\ calls = <<>>
  /\ turns = 0 /\ phase = "idle" /\ provider = Nobody
  /\ sent = Nothing /\ answer = Nothing /\ reply = Nothing

Turn ==
  /\ turns < LastTurn
  /\ turns' = turns + 1 /\ phase' = "ready"
  /\ calls' = <<>> /\ answer' = Nothing /\ reply' = Nothing
  /\ provider' = Nobody
  /\ UNCHANGED <<client, settings, opaque, sent>>

Ask(picture) ==
  LET blocks == UserBlocks(words + 1, picture) IN
  /\ phase = "idle" /\ calls = <<>>
  /\ history' = Append(history, UserMessage(blocks))
  /\ said' = Append(said, ContentFacts("user", NoId, blocks))
  /\ words' = words + Len(blocks)
  /\ Turn

\* Only Anthropic has a mark for a call that failed.
SendResults(picture, failed, more) ==
  LET content == UserBlocks(words + 1, picture)
      next == words + 1 + Len(content)
      asked == IF more THEN UserBlocks(next, FALSE) ELSE <<>>
      Of(id) == (IF failed THEN <<Fact("result", id, ToolError)>> ELSE <<>>)
                  \o ContentFacts("result", id, content)
  IN /\ phase = "idle" /\ calls # <<>>
     /\ failed => client = "anthropic"
     /\ history' = history \o ResultMessages(content, failed, asked)
                     \o (IF more /\ client # "anthropic" THEN <<UserMessage(asked)>> ELSE <<>>)
     /\ said' = said \o <<FlattenEach(Of, calls)>>
                     \o (IF more THEN <<ContentFacts("user", NoId, asked)>> ELSE <<>>)
     /\ words' = next
     /\ Turn

\* call: the request is converted for the provider, which a Failure 400 ends
\* before anything is sent.  The client may send it again, and a failed attempt
\* moves on to the next provider: either way another may get the request.
Forward(p) ==
  /\ phase \in {"ready", "refused", "failed"}
  /\ provider' = p
  /\ IF Convertible(client, p, Body)
       THEN phase' = "waiting" /\ sent' = Request(client, p, Body)
       ELSE phase' = "refused" /\ sent' = Nothing
  /\ UNCHANGED <<client, settings, history, said, words, opaque, calls, turns, answer, reply>>

\* The answer is converted for the client; a Failure 502 where it cannot be.  A
\* failed body in the client's own protocol passes unread: then the client finds
\* the failure in it.  Either way it keeps nothing and may send its request again.
Answer(shape, end, usage) ==
  LET body == Answers(provider, shape, end, usage)
      told == Response(provider, client, body)
      facts == TellsAll(client, Kept(told))
      foreign == ToSet(shape) \cap {"opaque", "broken"} # {}
  IN /\ phase = "waiting" /\ turns < LastTurn
     /\ Says(provider, shape, end)
     /\ IF body.failed \/ (client # provider /\ ~ ReadableReply(provider, body))
          THEN /\ phase' = "failed"
               /\ UNCHANGED <<history, said, words, opaque, calls, answer, reply>>
          ELSE /\ phase' = "idle"
               /\ answer' = body /\ reply' = told
               /\ history' = history \o Kept(told)
               /\ said' = Append(said, facts)
               /\ words' = words + Len(shape)
               /\ opaque' = (opaque \/ foreign)
               /\ calls' = CallsIn(facts)
     /\ sent' = Nothing
     /\ UNCHANGED <<client, settings, turns, provider>>

Next ==
  \/ \E picture \in BOOLEAN : Ask(picture)
  \/ \E picture, failed, more \in BOOLEAN : SendResults(picture, failed, more)
  \/ \E p \in Protocols : Forward(p)
  \/ \E shape \in Shapes, end \in Ends, usage \in Usages : Answer(shape, end, usage)

Spec == Init /\ [][Next]_vars

-----------------------------------------------------------------------------
\* What the provider reads.

\* A provider of whatever protocol reads everything that was said so far, each
\* word once, from the one who said it, a result under the call it answers and
\* with its failure, the steps of the conversation in their order and within a
\* step what each one said in order (but Chat has all the thoughts of a message
\* before its text); through every conversion the history has been through
\* (readConversation, writeMessages and encodeCompletion).
ToldEverything ==
  LET told == Tells(provider, sent)
      Start(step) == Len(FlattenSeq(SubSeq(said, 1, step - 1)))
      Agree(a, b, who) == IF provider = "chat" /\ who = "assistant" THEN ToSet(a) = ToSet(b)
                                                                   ELSE a = b
  IN phase = "waiting" =>
       /\ Len(told) = Len(FlattenSeq(said))
       /\ \A step \in DOMAIN said, who \in {"system", "user", "assistant", "call", "result"} :
            Agree(By(SubSeq(told, Start(step) + 1, Start(step + 1)), who), By(said[step], who), who)

\* Some call item of a Responses client is not followed by its output.
Scattered ==
  \E i \in DOMAIN history :
    /\ history[i].type = "function_call"
    /\ i < Len(history) => history[i + 1].type # "function_call_output"

CallIds(message) == CallsIn(Told(provider, message))

\* What every protocol asks of a request with tool calls: Anthropic and Chat have
\* the results of all calls of a message follow it at once, before anything else
\* is said, and Anthropic has user and assistant take turns; Responses has one
\* output after each call.  A Chat provider gets the items of a Responses
\* client one message each, so that calls in one answer are not together: left
\* out here, and said in the README.
ToolsAnswered ==
  LET ms == sent.messages
      Results(i) == Replies(Told(provider, ms[i]))
      Blocks(i) == {ms[i].content[k].tool_use_id :
                      k \in {k \in DOMAIN ms[i].content : ms[i].content[k].type = "tool_result"}}
  IN phase = "waiting" =>
       CASE provider = "anthropic" ->
              \A i \in DOMAIN ms :
                LET ids == CallIds(ms[i]) IN
                /\ ids # <<>> => /\ i < Len(ms) /\ ms[i + 1].role = "user"
                                 /\ \A k \in DOMAIN ids :
                                      /\ ms[i + 1].content[k].type = "tool_result"
                                      /\ ids[k] \in Blocks(i + 1)
                /\ client # provider /\ i < Len(ms) => ms[i + 1].role # ms[i].role
         [] provider = "chat" /\ ~ (client = "responses" /\ Scattered) ->
              \A i \in DOMAIN ms :
                LET ids == CallIds(ms[i]) IN
                \A k \in DOMAIN ids :
                  /\ i + Len(ids) <= Len(ms)
                  /\ \E j \in i + 1 .. i + Len(ids) : Results(j) = {ids[k]}
         [] OTHER ->
              \A i \in DOMAIN ms :
                LET ids == CallIds(ms[i]) IN
                \A k \in DOMAIN ids : Cardinality({j \in i + 1 .. Len(ms) : Results(j) = {ids[k]}}) = 1

\* A thinking block that reaches an Anthropic provider carries Anthropic's
\* signature: "Foreign signatures cannot authorize Anthropic thinking blocks"
\* (request.go:370).
ThinkingIsSigned ==
  phase = "waiting" /\ provider = "anthropic" =>
    \A i \in DOMAIN sent.messages :
      LET content == sent.messages[i].content IN
      \A k \in DOMAIN content : content[k].type = "thinking" => content[k].signature # None

-----------------------------------------------------------------------------
\* What is asked for besides the conversation.

\* A converted request asks for what the client asked for: as many tokens, the
\* same choice of tools and the same word on calling several, the same stops and
\* format (an Anthropic client's protocol has schemas only: what other format it
\* names may become one) and as much reasoning; which for Anthropic is a budget
\* that leaves room below the limit and is not below the least that Anthropic takes.
SettingsKept ==
  phase = "waiting" /\ client # provider =>
    LET anthropic == provider = "anthropic"
        limit == IF provider = "responses" THEN sent.max_output_tokens ELSE sent.max_tokens
        word == CASE settings.choice = "one" -> IF anthropic THEN "tool" ELSE "function"
                  [] settings.choice = "any" -> IF anthropic THEN "any" ELSE "required"
                  [] OTHER -> settings.choice
    IN /\ settings.limit # 0 => limit = settings.limit
       /\ anthropic => limit > 0
       /\ sent.tool_choice = word \/ (settings.choice = None /\ sent.tool_choice = "auto")
       /\ settings.parallel = (IF anthropic THEN Not(sent.disable_parallel_tool_use)
                                            ELSE sent.parallel_tool_calls)
       /\ sent.stop = settings.stop
       /\ sent.format = None <=> settings.format \in {None, "text"}
       /\ \/ settings.format = "text" \/ sent.format = settings.format
          \/ client = "anthropic" /\ sent.format = "json_schema"
       /\ IF anthropic /\ settings.effort # None
            THEN sent.thinking = "enabled" /\ sent.budget_tokens \in LeastBudget .. limit - 1
            ELSE sent.effort = settings.effort /\ sent.thinking = None

\* A request is refused only for what the client asked and the provider's
\* protocol has no words for, or for a block of the history that only the
\* client's own protocol has: an ordinary conversation can move to any provider
\* at any turn, whichever protocols answered before.
RefusedForCause ==
  phase = "refused" =>
    \/ opaque \/ settings.own \/ settings.n > 1 \/ settings.tools = "hosted"
    \/ settings.stop /\ provider = "responses"
    \/ settings.format = "json_object" /\ provider = "anthropic"
    \/ settings.effort # None /\ settings.limit \in 1 .. LeastBudget /\ provider = "anthropic"

-----------------------------------------------------------------------------
\* What the client hears.

BlocksOf(blocks, types) ==
  LET Only(b) == IF b.type \in types THEN <<b>> ELSE <<>> IN FlattenEach(Only, blocks)

\* The words of the three kinds, in an answer of any protocol.
Spoken(protocol, body) ==
  LET Texts(b) == b.text
      Thoughts(b) == b.thinking
      Item(i) == IF i.type = "message" THEN FlattenEach(Texts, i.content) ELSE <<>>
      Summary(i) == FlattenSeq(i.summary)
      AllCalls(items, Id(_)) == [i \in DOMAIN items |-> Id(items[i])]
  IN CASE protocol = "chat" ->
            [text |-> FlattenEach(Texts, body.content) \o body.refusal,
             thinking |-> body.reasoning_content,
             calls |-> AllCalls(body.tool_calls, LAMBDA c : c.id)]
       [] protocol = "anthropic" ->
            [text |-> FlattenEach(Texts, BlocksOf(body.content, {"text", "redacted_thinking"})),
             thinking |-> FlattenEach(Thoughts, BlocksOf(body.content, {"thinking"})),
             calls |-> AllCalls(BlocksOf(body.content, {"tool_use"}), LAMBDA c : c.id)]
       [] OTHER ->
            [text |-> FlattenEach(Item, body.output),
             thinking |-> FlattenEach(Summary, BlocksOf(body.output, {"reasoning"})),
             calls |-> AllCalls(BlocksOf(body.output, {"function_call"}), LAMBDA c : c.call_id)]

Meaning(protocol, body) ==
  LET reason == ReplyStop(protocol, body) IN
  CASE reason \in {"length", "max_tokens", "max_output_tokens"} -> "cut"
    [] reason \in {"content_filter", "refusal"} -> "filtered"
    [] OTHER -> "over"

\* A total that Anthropic splits: cached tokens are not in its input_tokens.
Tokens(protocol, u) ==
  [input |-> IF protocol = "anthropic" THEN u.input + u.cached + u.creation ELSE u.input,
   output |-> u.output, cached |-> u.cached]

\* The client hears all that the provider said, of each kind in its order, learns
\* whether the answer was cut, filtered or is complete, is told to run the tools
\* exactly when there are calls, and counts the same tokens.
AnswerKept ==
  phase = "idle" /\ answer # Nothing =>
    /\ Spoken(client, reply) = Spoken(provider, answer)
    /\ Meaning(client, reply) = Meaning(provider, answer)
    /\ Tokens(client, reply.usage) = Tokens(provider, answer.usage)
    /\ client # "responses" /\ Meaning(client, reply) = "over" =>
         (ReplyStop(client, reply) \in {"tool_calls", "tool_use"} <=>
            Spoken(client, reply).calls # <<>>)
=============================================================================
