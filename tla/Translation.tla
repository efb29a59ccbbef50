----------------------------- MODULE Translation -----------------------------
(***************************************************************************)
(* Translation of requests and of unstreamed answers between the three     *)
(* protocols: internal/translate/types.go, request.go and response.go.     *)
(*                                                                         *)
(* A text is a sequence of words, a word or the id of a tool call is a     *)
(* number (0 where it is missing), a picture is a word, and the arguments  *)
(* of a call are None, "object" or "broken" (no JSON object).  A JSON      *)
(* content is the sequence of its blocks: a string is one text block, null *)
(* is none.  What a body does not have is None, 0 or FALSE.                *)
(***************************************************************************)
EXTENDS Integers, Sequences, SequencesExt

Protocols == {"chat", "responses", "anthropic"}

None == ""
NoId == 0
ToolError == -1    \* the words "Tool error:"

-----------------------------------------------------------------------------
\* Blocks of a JSON content, and the parts they are read as.

TextBlock(type, text) == [type |-> type, text |-> text]
PictureBlock(type, url) == [type |-> type, url |-> url]
ThinkingBlock(text, signature) ==
  [type |-> "thinking", thinking |-> text, signature |-> signature]
ToolUse(id, input) == [type |-> "tool_use", id |-> id, input |-> input]
ToolResult(id, content, failed) ==
  [type |-> "tool_result", tool_use_id |-> id, content |-> content, is_error |-> failed]

Text(text) == [kind |-> "text", text |-> text]
Refusal(text) == [kind |-> "refusal", text |-> text]
Image(url) == [kind |-> "image", url |-> url]
Thinking(text) == [kind |-> "thinking", text |-> text]
Tool(id, arguments) == [kind |-> "tool", id |-> id, arguments |-> arguments]
Result(id, content, failed) ==
  [kind |-> "result", id |-> id, content |-> content, failed |-> failed]

PlainTypes == {"text", "input_text", "output_text", "refusal", "image_url", "input_image",
               "image"}
ReadableTypes == PlainTypes \cup {"tool_use", "tool_result", "thinking"}

PlainPart(b) ==
  CASE b.type = "refusal" -> Refusal(b.text)
    [] b.type \in {"image_url", "input_image", "image"} -> Image(b.url)
    [] OTHER -> Text(b.text)

PlainParts(blocks) == [i \in DOMAIN blocks |-> PlainPart(blocks[i])]

Part(b) ==
  CASE b.type = "tool_use" -> Tool(b.id, b.input)
    [] b.type = "tool_result" -> Result(b.tool_use_id, PlainParts(b.content), b.is_error)
    [] b.type = "thinking" -> Thinking(b.thinking)
    [] OTHER -> PlainPart(b)

Parts(blocks) == [i \in DOMAIN blocks |-> Part(blocks[i])]

\* parts refuses a block it has no case for.
Readable(blocks) == \A i \in DOMAIN blocks : blocks[i].type \in ReadableTypes

\* Mutant: none are refused.
InputGiven(arguments) == arguments

\* toolInput: the arguments as an object, which none are as well.
Input(arguments) == IF arguments = None THEN "object" ELSE arguments

\* What Op makes of each, in one sequence; and those of one kind.
FlattenEach(Op(_), s) == FlattenSeq([i \in DOMAIN s |-> Op(s[i])])
OfKind(kind, parts) ==
  LET Only(p) == IF p.kind = kind THEN <<p>> ELSE <<>> IN FlattenEach(Only, parts)

TextOf(p) == IF p.kind \in {"text", "refusal"} THEN p.text ELSE <<>>
TextParts(parts) == FlattenEach(TextOf, parts)

ContentParts(to, role, parts) ==
  LET textType == CASE to = "responses" /\ role = "assistant" -> "output_text"
                    [] to = "responses" /\ role # "assistant" -> "input_text"
                    [] OTHER -> "text"
      imageType == CASE to = "chat" -> "image_url"
                     [] to = "responses" -> "input_image"
                     [] OTHER -> "image"
      Block(p) == IF p.kind = "image" THEN PictureBlock(imageType, p.url)
                                      ELSE TextBlock(textType, p.text)
  IN [i \in DOMAIN parts |-> Block(parts[i])]

-----------------------------------------------------------------------------
\* Messages as each protocol writes them, and the messages they are read as.

ChatMessage(role, content, thinking, calls) ==
  [role |-> role, content |-> content, reasoning_content |-> thinking,
   tool_calls |-> calls, tool_call_id |-> NoId]
ToolMessage(id, content) ==
  [ChatMessage("tool", content, <<>>, <<>>) EXCEPT !.tool_call_id = id]
Call(id, arguments) == [id |-> id, arguments |-> arguments]

MessageItem(role, content) == [type |-> "message", role |-> role, content |-> content]
CallItem(id, arguments) == [type |-> "function_call", call_id |-> id, arguments |-> arguments]
OutputItem(id, output) == [type |-> "function_call_output", call_id |-> id, output |-> output]
ReasoningItem(summary) == [type |-> "reasoning", summary |-> summary]

Message(role, parts) == [role |-> role, parts |-> parts]

ThinkingOf(text) == IF text = <<>> THEN <<>> ELSE <<Thinking(text)>>
ToolsOf(calls) == [i \in DOMAIN calls |-> Tool(calls[i].id, calls[i].arguments)]
Summaries(item) == [i \in DOMAIN item.summary |-> Thinking(item.summary[i])]

\* One message of a request, read: none or one.
ReadMessage(from, m) ==
  CASE from = "anthropic" -> <<Message(m.role, Parts(m.content))>>
    [] from = "chat" /\ m.role = "tool" ->
         <<Message("user", <<Result(m.tool_call_id, Parts(m.content), FALSE)>>)>>
    [] from = "chat" /\ m.role # "tool" ->
         <<Message(m.role, ThinkingOf(m.reasoning_content) \o Parts(m.content)
                             \o ToolsOf(m.tool_calls))>>
    [] from = "responses" /\ m.type = "function_call" ->
         <<Message("assistant", <<Tool(m.call_id, m.arguments)>>)>>
    [] from = "responses" /\ m.type = "function_call_output" ->
         <<Message("user", <<Result(m.call_id, Parts(m.output), FALSE)>>)>>
    [] from = "responses" /\ m.type = "reasoning" ->
         IF m.summary = <<>> THEN <<>> ELSE <<Message("assistant", Summaries(m))>>
    [] OTHER -> <<Message(m.role, Parts(m.content))>>

\* The whole conversation: system or instructions, then the messages.
ReadConversation(from, body) ==
  LET Read(m) == ReadMessage(from, m) IN
  (IF body.system = <<>> THEN <<>> ELSE <<Message("system", Parts(body.system))>>)
    \o FlattenEach(Read, body.messages)

\* What readConversation refuses among the messages.
ReadableMessage(from, m) ==
  IF from = "responses"
    THEN CASE m.type = "function_call_output" -> Readable(m.output)
           [] m.type = "message" -> Readable(m.content)
           [] OTHER -> m.type \in {"function_call", "reasoning"}
    ELSE Readable(m.content)

-----------------------------------------------------------------------------
\* Writing messages.  acc is where writeMessages is within one of them: the
\* items so far, the parts pending for the next one, and what the Chat message
\* has collected.

\* Mutant: neighbours of one role stay apart.
AddApart(to, items, role, blocks) ==
  CASE to = "chat" -> Append(items, ChatMessage(role, blocks, <<>>, <<>>))
    [] to = "responses" -> Append(items, MessageItem(role, blocks))
    [] OTHER -> IF blocks = <<>> THEN items
                ELSE Append(items, [role |-> role, content |-> blocks])

\* A message of its own; for Anthropic, part of the last one of that role.
Add(to, items, role, blocks) ==
  CASE to = "chat" -> Append(items, ChatMessage(role, blocks, <<>>, <<>>))
    [] to = "responses" -> Append(items, MessageItem(role, blocks))
    [] OTHER -> IF blocks = <<>> THEN items
                ELSE IF items # <<>> /\ Last(items).role = role
                  THEN [items EXCEPT ![Len(items)].content = @ \o blocks]
                  ELSE Append(items, [role |-> role, content |-> blocks])

\* Mutant: what is written stays pending.
FlushAgain(to, role, acc) ==
  IF acc.pending = <<>> THEN acc
  ELSE [acc EXCEPT !.items = Add(to, @, role, ContentParts(to, role, acc.pending))]

Flush(to, role, acc) ==
  IF acc.pending = <<>> THEN acc
  ELSE [acc EXCEPT !.items = Add(to, @, role, ContentParts(to, role, acc.pending)),
                   !.pending = <<>>]

\* A result for the OpenAI protocols: a string if it is all text, and the
\* failure in words.
ResultContent(to, p) ==
  LET failure == IF p.failed THEN <<ToolError>> ELSE <<>> IN
  IF \A i \in DOMAIN p.content : p.content[i].kind = "text"
    THEN <<TextBlock("text", failure \o TextParts(p.content))>>
    ELSE ContentParts(to, "user", IF p.failed THEN <<Text(failure)>> \o p.content
                                              ELSE p.content)

WriteResult(to, role, acc, p) ==
  LET flushed == Flush(to, role, acc)
      Put(item) == [flushed EXCEPT !.items = Append(@, item)]
  IN CASE to = "chat" -> Put(ToolMessage(p.id, ResultContent(to, p)))
       [] to = "responses" -> Put(OutputItem(p.id, ResultContent(to, p)))
       [] OTHER -> [flushed EXCEPT !.items = Add(to, @, "user",
                      <<ToolResult(p.id, ContentParts(to, "user", p.content), p.failed)>>)]

WriteCall(to, role, acc, p) ==
  LET flushed == Flush(to, role, acc) IN
  CASE to = "chat" -> [acc EXCEPT !.calls = Append(@, Call(p.id, p.arguments))]
    [] to = "responses" ->
         [flushed EXCEPT !.items = Append(@, CallItem(p.id, p.arguments))]
    [] OTHER -> [flushed EXCEPT !.items =
                   Add(to, @, "assistant", <<ToolUse(p.id, Input(p.arguments))>>)]

\* "Foreign signatures cannot authorize Anthropic thinking blocks.  Keep the
\* readable history as assistant text instead."
WriteThinking(to, role, acc, p) ==
  CASE to = "chat" -> [acc EXCEPT !.thinking = @ \o p.text]
    [] to = "responses" ->
         [Flush(to, role, acc) EXCEPT !.items = Append(@, ReasoningItem(<<p.text>>))]
    [] OTHER -> [acc EXCEPT !.pending = Append(@, Text(p.text))]

WritePart(to, role, acc, p) ==
  CASE p.kind = "thinking" -> WriteThinking(to, role, acc, p)
    [] p.kind = "tool" -> WriteCall(to, role, acc, p)
    [] p.kind = "result" -> WriteResult(to, role, acc, p)
    [] OTHER -> [acc EXCEPT !.pending = Append(@, p)]

WriteParts(to, role, items, parts) ==
  LET acc[n \in 0 .. Len(parts)] ==
        IF n = 0 THEN [items |-> items, pending |-> <<>>, thinking |-> <<>>, calls |-> <<>>]
                 ELSE WritePart(to, role, acc[n - 1], parts[n])
  IN acc[Len(parts)]

WriteMessage(to, items, m) ==
  LET acc == WriteParts(to, m.role, items, m.parts)
      nothing == /\ acc.pending = <<>> /\ acc.thinking = <<>> /\ acc.calls = <<>>
                 /\ m.parts # <<>>
  IN CASE to # "chat" -> Flush(to, m.role, acc).items
       [] to = "chat" /\ nothing -> acc.items
       [] OTHER -> Append(acc.items, ChatMessage(m.role, ContentParts(to, m.role, acc.pending),
                                                 acc.thinking, acc.calls))

IsSystem(m) == m.role \in {"system", "developer"}

\* Anthropic takes the instructions apart from the messages.
WriteSystem(to, ms) ==
  LET Instructions(m) == IF IsSystem(m) THEN ContentParts(to, m.role, m.parts) ELSE <<>> IN
  IF to = "anthropic" THEN FlattenEach(Instructions, ms) ELSE <<>>

WriteMessages(to, ms) ==
  LET items[n \in 0 .. Len(ms)] ==
        IF n = 0 THEN <<>>
        ELSE IF to = "anthropic" /\ IsSystem(ms[n]) THEN items[n - 1]
        ELSE WriteMessage(to, items[n - 1], ms[n])
  IN items[Len(ms)]

-----------------------------------------------------------------------------
\* Requests.  effort is reasoning_effort, reasoning.effort or
\* output_config.effort; format is the type of the output format; own stands
\* for what only the client's own protocol can carry (previous_response_id,
\* conversation, file_ids, audio, prediction).

Blank ==
  [messages |-> <<>>, system |-> <<>>, max_output_tokens |-> 0, max_completion_tokens |-> 0,
   max_tokens |-> 0, tools |-> None, tool_choice |-> None, disable_parallel_tool_use |-> None,
   parallel_tool_calls |-> None, stop |-> FALSE, n |-> 1, own |-> FALSE, thinking |-> None,
   budget_tokens |-> 0, effort |-> None, format |-> None]

DefaultMaxTokens == 4096
LeastBudget == 1024

Limit(body) ==
  CASE body.max_output_tokens # 0 -> body.max_output_tokens
    [] body.max_output_tokens = 0 /\ body.max_completion_tokens # 0 -> body.max_completion_tokens
    [] OTHER -> body.max_tokens

LimitFor(to, body) ==
  IF Limit(body) = 0 /\ to = "anthropic" THEN DefaultMaxTokens ELSE Limit(body)

Mode(choice) ==
  CASE choice = "any" -> "required"
    [] choice = "tool" -> "function"
    [] OTHER -> choice

ToolChoice(to, choice) ==
  CASE to = "anthropic" /\ Mode(choice) = "function" -> "tool"
    [] to = "anthropic" /\ Mode(choice) = "required" -> "any"
    [] OTHER -> Mode(choice)

Not(flag) == CASE flag = "yes" -> "no" [] flag = "no" -> "yes" [] OTHER -> flag

Parallel(from, body) ==
  IF from = "anthropic" /\ body.disable_parallel_tool_use # None
    THEN Not(body.disable_parallel_tool_use)
    ELSE body.parallel_tool_calls

\* How hard the client asks to think.
Effort(from, body) ==
  IF from # "anthropic" THEN body.effort
  ELSE IF body.thinking \notin {"enabled", "adaptive"} THEN None
  ELSE IF body.effort # None THEN body.effort
  ELSE CASE body.budget_tokens \in 1 .. 4095 -> "low"
         [] body.budget_tokens >= 16384 -> "high"
         [] OTHER -> "medium"

\* Mutant: a budget as large as the limit passes.
BudgetAtLimit(effort, limit) ==
  LET wanted == CASE effort \in {"low", "minimal"} -> LeastBudget
                  [] effort \in {"high", "xhigh"} -> 16384
                  [] OTHER -> 4096
  IN IF wanted > limit THEN limit ELSE wanted

Budget(effort, limit) ==
  LET wanted == CASE effort \in {"low", "minimal"} -> LeastBudget
                  [] effort \in {"high", "xhigh"} -> 16384
                  [] OTHER -> 4096
  IN IF wanted >= limit THEN limit - 1 ELSE wanted

MustThink(from, to, body) == to = "anthropic" /\ Effort(from, body) \notin {None, "none"}

CallsOf(from, m) ==
  CASE from = "chat" -> ToolsOf(m.tool_calls)
    [] from = "responses" -> IF m.type = "function_call" THEN <<Tool(m.call_id, m.arguments)>>
                             ELSE <<>>
    [] OTHER -> OfKind("tool", Parts(m.content))

\* Request refuses what the provider's protocol has no words for.  What it refuses
\* as malformed (a call without id or name, a picture without a URL) is left out.
Convertible(from, to, body) ==
  \/ from = to
  \/ /\ ~ body.own /\ body.n <= 1
     /\ \A i \in DOMAIN body.messages :
          /\ ReadableMessage(from, body.messages[i])
          /\ to = "anthropic" =>
               LET calls == CallsOf(from, body.messages[i]) IN
               \A c \in DOMAIN calls : Input(calls[c].arguments) = "object"
     /\ body.tools # "hosted"
     /\ Mode(body.tool_choice) \in {None, "auto", "none", "required", "function"}
     /\ ~ (body.stop /\ to = "responses")
     /\ MustThink(from, to, body) =>
          Budget(Effort(from, body), LimitFor(to, body)) >= LeastBudget
     /\ to = "anthropic" => body.format \in {None, "text", "json_schema"}

\* outputFormat.  Anthropic's protocol has schemas only: whatever other format
\* such a client names, a Chat provider gets it as a schema.
Format(from, to, format) ==
  CASE format = "text" -> None
    [] from = "anthropic" /\ to = "chat" /\ format \notin {None, "text"} -> "json_schema"
    [] OTHER -> format

Converted(from, to, body) ==
  LET conversation == ReadConversation(from, body)
      limit == LimitFor(to, body)
      parallel == Parallel(from, body)
      effort == Effort(from, body)
      think == MustThink(from, to, body)
  IN [Blank EXCEPT
        !.messages = WriteMessages(to, conversation),
        !.system = WriteSystem(to, conversation),
        !.max_output_tokens = IF to = "responses" THEN limit ELSE 0,
        !.max_tokens = IF to = "responses" THEN 0 ELSE limit,
        !.tools = body.tools,
        !.tool_choice = IF body.tool_choice = None /\ to = "anthropic" /\ parallel # None
                          THEN "auto" ELSE ToolChoice(to, body.tool_choice),
        !.disable_parallel_tool_use = IF to = "anthropic" THEN Not(parallel) ELSE None,
        !.parallel_tool_calls = IF to = "anthropic" THEN None ELSE parallel,
        !.stop = body.stop,
        !.thinking = IF think THEN "enabled" ELSE None,
        !.budget_tokens = IF think THEN Budget(effort, limit) ELSE 0,
        !.effort = IF to = "anthropic" THEN None ELSE effort,
        !.format = Format(from, to, body.format)]

Request(from, to, body) == IF from = to THEN body ELSE Converted(from, to, body)

-----------------------------------------------------------------------------
\* Answers.

Max0(n) == IF n > 0 THEN n ELSE 0

\* Mutant: Anthropic's cached tokens are not counted.
InputUsage(from, u) == u

\* ReadUsage and TotalUsage: Anthropic counts cached tokens apart.
TotalUsage(from, u) ==
  IF from = "anthropic" THEN [u EXCEPT !.input = @ + u.cached + u.creation] ELSE u

Usage(to, u) ==
  IF to = "anthropic"
    THEN [u EXCEPT !.input = Max0(@ - u.cached - u.creation), !.reasoning = 0]
    ELSE [u EXCEPT !.creation = 0]

ChatReply(content, refusal, thinking, calls, finish, usage) ==
  [failed |-> FALSE, content |-> content, refusal |-> refusal, reasoning_content |-> thinking,
   tool_calls |-> calls, finish_reason |-> finish, usage |-> usage]
ResponsesReply(output, text, reason, usage) ==
  [failed |-> FALSE, output |-> output, output_text |-> text,
   status |-> IF reason = None THEN "completed" ELSE "incomplete", reason |-> reason,
   usage |-> usage]
AnthropicReply(content, stop, usage) ==
  [failed |-> FALSE, content |-> content, stop_reason |-> stop, usage |-> usage]

RefusalOf(text) == IF text = <<>> THEN <<>> ELSE <<Refusal(text)>>

OutputParts(item) ==
  CASE item.type = "message" -> Parts(item.content)
    [] item.type = "function_call" -> <<Tool(item.call_id, item.arguments)>>
    [] OTHER -> Summaries(item)

ReplyParts(from, body) ==
  CASE from = "chat" -> ThinkingOf(body.reasoning_content) \o Parts(body.content)
                          \o RefusalOf(body.refusal) \o ToolsOf(body.tool_calls)
    [] from = "anthropic" -> Parts(body.content)
    [] OTHER ->
         LET parts == FlattenEach(OutputParts, body.output) IN
         IF parts = <<>> /\ body.output_text # <<>> THEN <<Text(body.output_text)>> ELSE parts

ReplyStop(from, body) ==
  CASE from = "chat" -> body.finish_reason
    [] from = "anthropic" -> body.stop_reason
    [] OTHER -> body.reason

ReadableItem(item) ==
  item.type \in {"function_call", "reasoning"} \/ (item.type = "message" /\ Readable(item.content))

\* What readCompletion accepts.
ReadableReply(from, body) ==
  /\ ~ body.failed
  /\ IF from = "responses" THEN \A i \in DOMAIN body.output : ReadableItem(body.output[i])
                            ELSE Readable(body.content)
  /\ LET parts == ReplyParts(from, body) IN
     \A i \in DOMAIN parts :
       parts[i].kind = "tool" => parts[i].id # NoId /\ Input(parts[i].arguments) = "object"

StopReason(to, reason, hasTool) ==
  LET In(anthropic, openai) == IF to = "anthropic" THEN anthropic ELSE openai
      other == IF hasTool \/ reason \in {"tool_use", "tool_calls"}
                 THEN In("tool_use", "tool_calls") ELSE In("end_turn", "stop")
  IN CASE reason \in {"length", "max_tokens", "max_output_tokens"} -> In("max_tokens", "length")
       [] reason \in {"content_filter", "refusal"} -> In("refusal", "content_filter")
       [] reason = "stop_sequence" -> In("stop_sequence", other)
       [] OTHER -> other

\* encodeCompletion.
AnthropicBlock(p) ==
  CASE p.kind = "tool" -> ToolUse(p.id, Input(p.arguments))
    [] p.kind = "thinking" -> ThinkingBlock(p.text, None)
    [] OTHER -> TextBlock("text", p.text)

ResponsesItem(p) ==
  CASE p.kind = "tool" -> CallItem(p.id, p.arguments)
    [] p.kind = "thinking" -> ReasoningItem(<<p.text>>)
    [] OTHER -> MessageItem("assistant",
                  <<TextBlock(IF p.kind = "refusal" THEN "refusal" ELSE "output_text", p.text)>>)

EncodeCompletion(to, parts, stop, usage) ==
  LET calls == OfKind("tool", parts)
      Thought(p) == IF p.kind = "thinking" THEN p.text ELSE <<>>
      text == TextParts(parts)
      reason == StopReason(to, stop, calls # <<>>)
  IN CASE to = "chat" ->
            ChatReply(IF calls # <<>> /\ text = <<>> THEN <<>> ELSE <<TextBlock("text", text)>>,
                      <<>>, FlattenEach(Thought, parts),
                      [i \in DOMAIN calls |-> Call(calls[i].id, calls[i].arguments)],
                      reason, Usage(to, usage))
       [] to = "anthropic" ->
            AnthropicReply([i \in DOMAIN parts |-> AnthropicBlock(parts[i])], reason,
                           Usage(to, usage))
       [] OTHER ->
            ResponsesReply([i \in DOMAIN parts |-> ResponsesItem(parts[i])], text,
                           CASE reason = "length" -> "max_output_tokens"
                             [] reason = "content_filter" -> "content_filter"
                             [] OTHER -> None,
                           Usage(to, usage))

Response(from, to, body) ==
  IF from = to THEN body
  ELSE EncodeCompletion(to, ReplyParts(from, body), ReplyStop(from, body),
                        TotalUsage(from, body.usage))
=============================================================================
