------------------------- MODULE DialogueToldProofs -------------------------
(***************************************************************************)
(* What the two sides of a conversation tell one another gets there, for   *)
(* every instance: whatever the protocols, however long the conversation   *)
(* and whatever is said in it, an answering provider has heard everything  *)
(* the client's history says, each fact by whom it was said, in the order  *)
(* in which it was said (EverythingIsTold), and finds every tool call      *)
(* answered where its protocol looks for the result (ToolsAreAnswered).    *)
(*                                                                         *)
(* A conversation grows a step at a time: the user's words and results, or *)
(* an answer.  The invariant (Heeded) says, for each provider that could   *)
(* be asked, that what it would hear now is one piece for each step, and   *)
(* that each piece agrees with what was said in the step.  A step leaves   *)
(* the earlier pieces as they are, except that Anthropic's messages of one *)
(* role are one message, so that the last message may grow.                *)
(*                                                                         *)
(* For the calls, the invariant (Answerable) says of each provider that    *)
(* could be asked that the calls the client still has to answer are open   *)
(* in what it would get, and all others answered: once, for Chat by the    *)
(* messages right after, for Anthropic by the first blocks of the next.    *)
(* An answer's calls have ids that no call had before.                     *)
(*                                                                         *)
(* DialogueProofs has what reading and writing one message tells.          *)
(***************************************************************************)
EXTENDS DialogueProofs

\* What the client adds to the conversation when its user speaks: results and plain words, not
\* nothing, each result some words of its own.
UserStep(c, new, results, plain) ==
  /\ results \in Seq(ResultSet) /\ plain \in Seq(PlainSet) /\ Sequence(new)
  /\ UserIsRead(c, new, results, plain)
  /\ c \in OpenAI => Tolds(c, new) = OutsOf("user", results, plain)
  /\ c = "anthropic" => \E blocks : new = <<AMessage("user", blocks)>> /\ Answering(blocks, results, plain)
  /\ \A i \in DOMAIN results : ResultWords(results[i]) # <<>>
  /\ results # <<>> \/ plain # <<>>

\* That is what it writes.
LEMMA SpokeSteps ==
  ASSUME NEW c \in Protocols, NEW ids \in Seq(Nat), NEW content \in Seq(PlainBlocks), NEW more \in Seq(PlainBlocks),
         NEW failed \in BOOLEAN, failed => c = "anthropic",
         Wordy(content),
         ids # <<>> \/ more # <<>>, NEW results, results = ResultsFor(ids, content, failed),
         NEW plain, plain = Parts(more), NEW new, new = Spoke(c, ids, content, failed, more)
  PROVE  UserStep(c, new, results, plain)
<1>1. /\ results \in Seq(ResultSet) /\ Len(results) = Len(ids) /\ DOMAIN results = DOMAIN ids
  BY ResultsTyped
<1>2. plain \in Seq(PlainSet) /\ Len(plain) = Len(more)
  BY ContentRead DEF Whos, NoId
<1>3. \A i \in DOMAIN results : ResultWords(results[i]) # <<>>
  <2>1. \A i \in DOMAIN results : results[i].id = ids[i] /\ ResultWords(results[i]) # <<>>
    BY ResultsSaid
  <2> QED
    BY <2>1
<1>4. results # <<>> \/ plain # <<>>
  BY <1>1, <1>2, EmptySeq
<1>5. CASE c = "anthropic"
  <2>1. /\ UserIsRead(c, new, results, plain)
        /\ \E blocks : new = <<AMessage("user", blocks)>> /\ Answering(blocks, results, plain)
    BY <1>5, SpokeAnthropic
  <2>2. PICK m : new = <<m>>
    BY <2>1
  <2>3. Sequence(new)
    <3>1. <<m>> \in Seq({m})
      OBVIOUS
    <3> QED
      BY <2>2, <3>1, IsSequence
  <2>4. c \notin OpenAI
    BY <1>5 DEF OpenAI
  <2> QED
    BY <1>1, <1>2, <1>3, <1>4, <2>1, <2>3, <2>4 DEF UserStep
<1>6. CASE c # "anthropic"
  <2>1. c \in OpenAI /\ ~ failed
    BY <1>6 DEF OpenAI, Protocols
  <2>2. Sequence(new) /\ UserIsRead(c, new, results, plain) /\ Tolds(c, new) = OutsOf("user", results, plain)
    BY <2>1, SpokeOpenAI
  <2> QED
    BY <1>1, <1>2, <1>3, <1>4, <1>6, <2>2 DEF UserStep
<1> QED
  BY <1>5, <1>6

\* What is said with that.
UserSaid(results, plain) ==
  (IF results = <<>> THEN <<>> ELSE <<FlattenSeq(Map(ResultAs, results))>>)
    \o (IF plain = <<>> THEN <<>> ELSE <<PlainSaid("user", NoId, plain)>>)
Answers2(results, ids) == Len(results) = Len(ids) /\ \A i \in DOMAIN ids : results[i].id = ids[i]
UserSpeaks ==
  \E new, results, plain :
    /\ history' = history \o new /\ said' = said \o UserSaid(results, plain)
    /\ UserStep(client, new, results, plain) /\ Answers2(results, calls)

\* The user speaks when it asks
LEMMA AskSpeaks ==
  ASSUME client \in Protocols, Sequence(history), said \in Seq(Seq(AllFacts)), words \in Nat,
         NEW picture \in BOOLEAN, Ask(picture)
  PROVE  UserSpeaks /\ words' \in Nat /\ words' >= words
<1> DEFINE text == words + 1
           blocks == UserBlocks(text, picture)
           m == UserMessage(blocks)
           none == <<>>
<1>1. /\ history' = Append(history, m) /\ said' = Append(said, ContentFacts("user", NoId, blocks))
      /\ words' = words + Len(blocks) /\ calls = <<>>
  BY DEF Ask
<1>2. text \in Nat
  OBVIOUS
<1> HIDE DEF text
<1>3. /\ blocks \in Seq(PlainBlocks) /\ blocks # <<>> /\ Len(blocks) \in Nat
      /\ Wordy(blocks)
  BY <1>2, Uttered
<1> HIDE DEF blocks
<1>4. PICK failed \in BOOLEAN : ~ failed
  OBVIOUS
<1> DEFINE results == ResultsFor(none, blocks, failed)
           plain == Parts(blocks)
           new == Spoke(client, none, blocks, failed, blocks)
<1>5. none \in Seq(Nat)
  OBVIOUS
<1>6. m = UserWrites(client, blocks)
  BY DEF UserMessage, UserWrites, AMessage
<1>7. new = <<m>>
  <2>1. ToolResults(none, blocks, failed) = <<>> /\ Outcomes(client, none, blocks) = <<>>
    BY DEF ToolResults, Outcomes
  <2>2. <<>> \o blocks = blocks
    BY <1>3, ConcatEmptySeq
  <2>3. Also(client, blocks) = <<m>>
    BY <1>3, <1>6 DEF Also
  <2> HIDE DEF m
  <2>4. <<>> \o <<m>> = <<m>>
    OBVIOUS
  <2> QED
    BY <1>6, <2>1, <2>2, <2>3, <2>4 DEF Spoke
<1>8. UserStep(client, new, results, plain)
  <2> HIDE DEF none
  <2> QED
    BY <1>3, <1>4, <1>5, SpokeSteps
<1>9. results = <<>>
  BY DEF ResultsFor
<1>10. plain # <<>> /\ ContentFacts("user", NoId, blocks) = PlainSaid("user", NoId, plain) /\ plain \in Seq(PlainSet)
  <2>1. /\ plain \in Seq(PlainSet) /\ Len(plain) = Len(blocks)
        /\ ContentFacts("user", NoId, blocks) = PlainSaid("user", NoId, plain)
    BY <1>3, ContentRead DEF Whos, NoId
  <2> HIDE DEF plain
  <2> QED
    BY <1>3, <2>1, EmptySeq
<1> HIDE DEF m, new, results, plain
<1>11. Append(history, m) = history \o <<m>>
  <2> DEFINE S == ToSet(history) \cup {m}
  <2>1. history \in Seq(S) /\ m \in S
    BY SeqOfMore DEF Sequence
  <2> HIDE DEF S
  <2> QED
    BY <2>1, AppendIsConcat
<1>12. said' = said \o UserSaid(results, plain)
  <2> DEFINE u == PlainSaid("user", NoId, plain)
  <2>1. u \in Seq(AllFacts)
    BY <1>10, PlainsTold DEF Whos, NoId
  <2>2. UserSaid(results, plain) = <<>> \o <<u>>
    BY <1>9, <1>10 DEF UserSaid
  <2> HIDE DEF u
  <2>3. <<>> \o <<u>> = <<u>>
    OBVIOUS
  <2>4. Append(said, u) = said \o <<u>>
    BY <2>1, AppendIsConcat
  <2> QED
    BY <1>1, <1>10, <2>2, <2>3, <2>4 DEF u
<1>13. Answers2(results, calls)
  BY <1>1, <1>9 DEF Answers2
<1> QED
  <2>1. history' = history \o new
    BY <1>1, <1>7, <1>11
  <2>2. UserSpeaks
    BY <1>8, <1>12, <1>13, <2>1, Zenon DEF UserSpeaks
  <2> QED
    BY <1>1, <1>3, <2>2

\* and when it sends the results of the calls.
LEMMA ResultsSpeak ==
  ASSUME client \in Protocols, Sequence(history), said \in Seq(Seq(AllFacts)), words \in Nat, calls \in Seq(Nat),
         NEW picture \in BOOLEAN, NEW failed \in BOOLEAN, NEW more \in BOOLEAN,
         SendResults(picture, failed, more)
  PROVE  UserSpeaks /\ words' \in Nat /\ words' >= words
<1> DEFINE text == words + 1
           content == UserBlocks(text, picture)
           next == text + Len(content)
           said2 == UserBlocks(next, FALSE)
           asked == IF more THEN said2 ELSE <<>>
           first == ResultMessages(content, failed, asked)
           rest == IF more /\ client # "anthropic" THEN <<UserMessage(asked)>> ELSE <<>>
           Of(id) == (IF failed THEN <<Fact("result", id, ToolError)>> ELSE <<>>)
                       \o ContentFacts("result", id, content)
           results == ResultsFor(calls, content, failed)
           plain == Parts(asked)
           new == Spoke(client, calls, content, failed, asked)
<1>1. /\ history' = history \o first \o rest /\ words' = next /\ calls # <<>>
      /\ said' = said \o <<FlattenEach(Of, calls)>> \o (IF more THEN <<ContentFacts("user", NoId, asked)>> ELSE <<>>)
      /\ failed => client = "anthropic"
  BY DEF SendResults
<1>2. text \in Nat
  OBVIOUS
<1> HIDE DEF text
<1>3. /\ content \in Seq(PlainBlocks) /\ Len(content) \in Nat
      /\ Wordy(content)
  BY <1>2, Uttered
<1> HIDE DEF content
<1>4. next \in Nat /\ next >= words
  BY <1>2, <1>3 DEF text
<1> HIDE DEF next
<1>5. said2 \in Seq(PlainBlocks) /\ said2 # <<>>
  <2>1. PICK no \in BOOLEAN : ~ no
    OBVIOUS
  <2>2. UserBlocks(next, no) \in Seq(PlainBlocks) /\ UserBlocks(next, no) # <<>>
    BY <1>4, <2>1, Uttered
  <2>3. no = FALSE
    BY <2>1
  <2> QED
    BY <2>2, <2>3
<1> HIDE DEF said2
<1>6. asked \in Seq(PlainBlocks) /\ (asked = <<>> <=> ~ more)
  BY <1>5
<1>7. \A b : UserMessage(b) = UserWrites(client, b)
  BY DEF UserMessage, UserWrites, AMessage
<1>8. /\ results \in Seq(ResultSet) /\ Len(results) = Len(calls) /\ DOMAIN results = DOMAIN calls
      /\ \A i \in DOMAIN calls : results[i].id = calls[i]
  BY <1>3, ResultsTyped
<1>9. UserStep(client, new, results, plain)
  <2> HIDE DEF asked
  <2> QED
    BY <1>1, <1>3, <1>6, SpokeSteps
<1>10. new = first \o rest
  <2>1. CASE client = "anthropic"
    <3> DEFINE a == ToolResults(calls, content, failed)
               m == UserWrites(client, a \o asked)
    <3>1. first = <<m>>
      BY <1>7, <2>1 DEF ResultMessages, ToolResults
    <3>2. rest = <<>> /\ new = <<m>>
      BY <2>1 DEF Spoke
    <3> HIDE DEF m, first, rest, new
    <3>3. <<m>> \o <<>> = <<m>>
      OBVIOUS
    <3> QED
      BY <3>1, <3>2, <3>3
  <2>2. CASE client # "anthropic"
    <3> HIDE DEF asked
    <3>1. first = Outcomes(client, calls, content)
      <4>1. CASE client = "chat"
        BY <4>1 DEF ResultMessages, Outcomes, OutcomeOf
      <4>2. CASE client = "responses"
        BY <4>2 DEF ResultMessages, Outcomes, OutcomeOf
      <4> QED
        BY <2>2, <4>1, <4>2 DEF Protocols
    <3>2. rest = Also(client, asked)
      BY <1>6, <1>7, <2>2 DEF Also
    <3> QED
      BY <2>2, <3>1, <3>2 DEF Spoke
  <2> QED
    BY <2>1, <2>2
<1>11. Sequence(first) /\ Sequence(rest)
  <2>1. Readable(content) /\ Readable(asked) /\ Sequence(asked)
    <3> HIDE DEF asked
    <3> QED
      BY <1>3, <1>6, ContentRead, IsSequence DEF Whos, NoId
  <2>2. Sequence(first)
    <3> HIDE DEF asked
    <3> QED
      BY <2>1, ResultsRead
  <2>3. Sequence(rest)
    <3> DEFINE m == UserMessage(asked)
    <3> HIDE DEF m
    <3>1. <<m>> \in Seq({m})
      OBVIOUS
    <3>2. Sequence(<<m>>) /\ Sequence(<<>>)
      BY <3>1, IsSequence, NoneHeard
    <3> QED
      BY <3>2 DEF m
  <2> QED
    BY <2>2, <2>3
<1>12. PlainSaid("user", NoId, plain) = ContentFacts("user", NoId, asked) /\ (plain = <<>> <=> ~ more)
       /\ plain \in Seq(PlainSet)
  <2> HIDE DEF asked
  <2>1. /\ plain \in Seq(PlainSet) /\ Len(plain) = Len(asked)
        /\ ContentFacts("user", NoId, asked) = PlainSaid("user", NoId, plain)
    BY <1>6, ContentRead DEF Whos, NoId
  <2> HIDE DEF plain
  <2>2. plain = <<>> <=> asked = <<>>
    BY <1>6, <2>1, EmptySeq
  <2> QED
    BY <1>6, <2>1, <2>2
<1>13. FlattenEach(Of, calls) = FlattenSeq(Map(ResultAs, results))
  <2>1. Reported(calls, content, failed) = FlattenSeq(Map(ResultAs, results))
    BY <1>3, ResultsSaid
  <2> QED
    BY <2>1 DEF FlattenEach, Reported
<1>14. FlattenSeq(Map(ResultAs, results)) \in Seq(AllFacts)
  <2>1. Gives(ResultAs, ResultSet, Seq(AllFacts))
    BY ResultTold DEF Gives, ResultAs
  <2> QED
    BY <1>8, <2>1, FlattenMapType
<1>15. results # <<>>
  BY <1>1, <1>8, EmptySeq
<1> DEFINE u == FlattenSeq(Map(ResultAs, results))
           v == PlainSaid("user", NoId, plain)
           w == IF plain = <<>> THEN <<>> ELSE <<v>>
<1>16. said' = said \o <<u>> \o w
  BY <1>1, <1>12, <1>13
<1>17. UserSaid(results, plain) = <<u>> \o w
  BY <1>15 DEF UserSaid
<1>18. v \in Seq(AllFacts)
  BY <1>12, PlainsTold DEF Whos, NoId
<1> HIDE DEF u, v, results, plain, first, rest, new
<1>19. <<u>> \in Seq(Seq(AllFacts)) /\ w \in Seq(Seq(AllFacts))
  BY <1>14, <1>18 DEF u
<1> HIDE DEF w
<1> DEFINE x == <<u>>
<1> HIDE DEF x
<1>20. (said \o x) \o w = said \o (x \o w)
  BY <1>19, ConcatTwo DEF Associates, x
<1>21. (history \o first) \o rest = history \o (first \o rest)
  <2> DEFINE S == ToSet(history) \cup ToSet(first) \cup ToSet(rest)
  <2>1. history \in Seq(S) /\ first \in Seq(S) /\ rest \in Seq(S)
    BY <1>11, SeqOfMore DEF Sequence
  <2> HIDE DEF S
  <2>2. Associates(history, first, rest)
    BY <2>1, ConcatTwo
  <2> QED
    BY <2>2 DEF Associates
<1>22. history' = history \o new /\ said' = said \o UserSaid(results, plain)
  BY <1>1, <1>10, <1>16, <1>17, <1>20, <1>21 DEF x
<1>23. Answers2(results, calls)
  BY <1>8 DEF Answers2
<1>24. UserSpeaks
  BY <1>9, <1>22, <1>23, Zenon DEF UserSpeaks
<1> QED
  BY <1>1, <1>4, <1>24

-----------------------------------------------------------------------------
\* The calls of messages.  What all tell calls what each of them tells calls.
CallsOfEach == [s \in Seq(AllFacts) |-> CallsIn(s)]

\* The calls of all the messages are those of each, one after the other.
LEMMA CallsOfAll ==
  ASSUME NEW G \in Seq(Seq(AllFacts))
  PROVE  /\ CallsIn(FlattenSeq(G)) = FlattenSeq(Map(CallsOfEach, G))
         /\ \A i \in DOMAIN G : ToSet(CallsIn(G[i])) \subseteq ToSet(CallsIn(FlattenSeq(G)))
<1> DEFINE F == Seq(AllFacts)
           P == {g \in Seq(F) :
                  /\ CallsIn(FlattenSeq(g)) = FlattenSeq(Map(CallsOfEach, g))
                  /\ \A i \in DOMAIN g : ToSet(CallsIn(g[i])) \subseteq ToSet(CallsIn(FlattenSeq(g)))}
<1>1. <<>> \in P
  <2>1. FlattenSeq(<<>>) = <<>> /\ Map(CallsOfEach, <<>>) = <<>> /\ CallsIn(<<>>) = <<>>
    BY FlattenEmpty, MapEmpty, CallsIns
  <2>2. CallsIn(FlattenSeq(<<>>)) = FlattenSeq(Map(CallsOfEach, <<>>))
    BY <2>1
  <2>3. <<>> \in Seq(F) /\ DOMAIN <<>> = {}
    OBVIOUS
  <2> HIDE DEF F
  <2> QED
    BY <2>2, <2>3
<1>2. ASSUME NEW g \in Seq(F), NEW e \in F, g \in P PROVE Append(g, e) \in P
  <2> DEFINE a == FlattenSeq(g)
             h == Append(g, e)
             m == Map(CallsOfEach, g)
  <2>1. FlattenSeq(h) = a \o e /\ a \in Seq(AllFacts)
    BY <1>2, FlattenAppend, FlattenType
  <2>2. CallsIn(a \o e) = CallsIn(a) \o CallsIn(e) /\ CallsIn(a) \in Seq(Int) /\ CallsIn(e) \in Seq(Int)
    BY <2>1, CallsIns
  <2>3. CallsIn(a) = FlattenSeq(m) /\ \A i \in DOMAIN g : ToSet(CallsIn(g[i])) \subseteq ToSet(CallsIn(a))
    BY <1>2
  <2>4. Gives(CallsOfEach, F, Seq(Int))
    BY CallsIns DEF Gives, CallsOfEach
  <2> HIDE DEF a
  <2>5. FlattenSeq(Map(CallsOfEach, h)) = FlattenSeq(m) \o CallsOfEach[e]
    <3> DEFINE k == CallsOfEach
    <3>1. Gives(k, F, Seq(Int)) /\ g \in Seq(F) /\ e \in F
      BY <1>2, <2>4
    <3> HIDE DEF F, k
    <3>2. FlattenSeq(Map(k, Append(g, e))) = FlattenSeq(Map(k, g)) \o k[e]
      BY <3>1, FlattenMapAppend
    <3> QED
      BY <3>2 DEF k
  <2>6. CallsOfEach[e] = CallsIn(e)
    BY <1>2 DEF CallsOfEach
  <2>7. CallsIn(FlattenSeq(h)) = FlattenSeq(Map(CallsOfEach, h))
    BY <2>1, <2>2, <2>3, <2>5, <2>6
  <2>8. ToSet(CallsIn(a) \o CallsIn(e)) = ToSet(CallsIn(a)) \cup ToSet(CallsIn(e))
    BY <2>2, MembersOfBoth
  <2>9. h \in Seq(F) /\ Len(h) = Len(g) + 1 /\ Len(g) \in Nat /\ DOMAIN g = 1 .. Len(g)
        /\ (\A i \in 1 .. Len(g) : h[i] = g[i]) /\ h[Len(g) + 1] = e
    <3> HIDE DEF F
    <3> QED
      BY <1>2, AppendProperties, LenProperties
  <2>10. DOMAIN h = 1 .. Len(g) + 1
    <3> HIDE DEF F
    <3> QED
      BY <2>9, LenProperties
  <2> HIDE DEF h, F
  <2>11. \A i \in DOMAIN h : ToSet(CallsIn(h[i])) \subseteq ToSet(CallsIn(FlattenSeq(h)))
    <3> TAKE i \in DOMAIN h
    <3>1. CASE i \in 1 .. Len(g)
      BY <2>1, <2>2, <2>3, <2>8, <2>9, <3>1
    <3>2. CASE i = Len(g) + 1
      BY <2>1, <2>2, <2>8, <2>9, <3>2
    <3> QED
      BY <2>9, <2>10, <3>1, <3>2
  <2>12. h \in P
    BY <2>7, <2>9, <2>11
  <2> QED
    BY <2>12 DEF h
<1> HIDE DEF P
<1>3. Seq(F) \subseteq P
  <2> HIDE DEF F
  <2> QED
    BY <1>1, <1>2, SeqInduction
<1>4. G \in P
  BY <1>3
<1> QED
  BY <1>4 DEF P

\* No calls in all: none in any.
LEMMA NoCallsAtAll ==
  ASSUME NEW G \in Seq(Seq(AllFacts))
  PROVE  CallsIn(FlattenSeq(G)) = <<>> <=> \A i \in DOMAIN G : CallsIn(G[i]) = <<>>
<1> DEFINE m == Map(CallsOfEach, G)
<1>1. Gives(CallsOfEach, Seq(AllFacts), Seq(Int))
  BY CallsIns DEF Gives, CallsOfEach
<1>2. m \in Seq(Seq(Int))
  BY <1>1, MapType
<1>3. DOMAIN m = DOMAIN G /\ \A i \in DOMAIN G : m[i] = CallsIn(G[i])
  <2>1. \A i \in DOMAIN G : G[i] \in Seq(AllFacts)
    BY MembersIn
  <2> QED
    BY <2>1 DEF Map, CallsOfEach
<1>4. CallsIn(FlattenSeq(G)) = FlattenSeq(m)
  BY CallsOfAll
<1> HIDE DEF m
<1>5. FlattenSeq(m) = <<>> <=> \A i \in DOMAIN m : m[i] = <<>>
  BY <1>2, FlattenNone
<1> QED
  BY <1>3, <1>4, <1>5

\* Only the last of the messages calls tools.
CallsLast(G) == \A i \in DOMAIN G : i < Len(G) => CallsIn(G[i]) = <<>>

\* What is called then is what the last one calls.
LEMMA LastCalls ==
  ASSUME NEW G \in Seq(Seq(AllFacts)), CallsLast(G)
  PROVE  /\ G # <<>> => CallsIn(FlattenSeq(G)) = CallsIn(G[Len(G)])
         /\ CallsIn(FlattenSeq(G)) # <<>> => G # <<>>
<1>1. G = <<>> => CallsIn(FlattenSeq(G)) = <<>>
  BY FlattenEmpty, CallsIns
<1>2. CASE G # <<>>
  <2>1. PICK f \in Seq(Seq(AllFacts)), e \in Seq(AllFacts) : G = Append(f, e)
    BY <1>2, Ended
  <2>2. Len(f) \in Nat /\ DOMAIN f = 1 .. Len(f) /\ Len(G) = Len(f) + 1 /\ G[Len(f) + 1] = e
        /\ \A i \in 1 .. Len(f) : G[i] = f[i]
    BY <2>1, AppendProperties, LenProperties
  <2>3. DOMAIN G = 1 .. Len(f) + 1
    BY <2>2, LenProperties
  <2>4. \A i \in DOMAIN f : CallsIn(f[i]) = <<>>
    BY <2>2, <2>3 DEF CallsLast
  <2>5. CallsIn(FlattenSeq(f)) = <<>>
    BY <2>4, NoCallsAtAll
  <2>6. FlattenSeq(G) = FlattenSeq(f) \o e /\ FlattenSeq(f) \in Seq(AllFacts)
    BY <2>1, FlattenAppend, FlattenType
  <2>7. CallsIn(FlattenSeq(G)) = CallsIn(FlattenSeq(f)) \o CallsIn(e) /\ CallsIn(e) \in Seq(Int)
    BY <2>6, CallsIns
  <2>8. <<>> \o CallsIn(e) = CallsIn(e)
    BY <2>7, ConcatEmptySeq
  <2> QED
    BY <1>2, <2>2, <2>5, <2>7, <2>8
<1> QED
  BY <1>1, <1>2

\* One message at most has the calls last.
LEMMA OneCallsLast == ASSUME NEW S, NEW G \in Seq(S), Len(G) <= 1 PROVE CallsLast(G)
<1>1. Len(G) \in Nat /\ DOMAIN G = 1 .. Len(G)
  BY LenProperties
<1>2. \A i \in DOMAIN G : ~ (i < Len(G))
  BY <1>1
<1> QED
  BY <1>2 DEF CallsLast

\* What is alike, one after the other, is alike.
LEMMA AlikeJoins ==
  ASSUME NEW to, NEW a \in Seq(AllFacts), NEW b \in Seq(AllFacts), NEW x \in Seq(AllFacts), NEW y \in Seq(AllFacts),
         Agrees(to, a, b), Agrees(to, x, y)
  PROVE  Agrees(to, a \o x, b \o y)
<1>1. CASE to = "chat"
  <2>0. Alike(a, b) /\ Alike(x, y)
    BY <1>1 DEF Agrees
  <2>1. Len(a \o x) = Len(a) + Len(x) /\ Len(b \o y) = Len(b) + Len(y)
    BY ConcatProperties
  <2>2. \A who : By(a \o x, who) = By(a, who) \o By(x, who) /\ By(b \o y, who) = By(b, who) \o By(y, who)
    BY Bys
  <2>3. CallsIn(a \o x) = CallsIn(a) \o CallsIn(x) /\ CallsIn(b \o y) = CallsIn(b) \o CallsIn(y)
    BY CallsIns
  <2>4. ToSet(By(a \o x, "assistant")) = ToSet(By(b \o y, "assistant"))
    <3> DEFINE a1 == By(a, "assistant")
               b1 == By(b, "assistant")
               x1 == By(x, "assistant")
               y1 == By(y, "assistant")
    <3>1. a1 \in Seq(AllFacts) /\ b1 \in Seq(AllFacts) /\ x1 \in Seq(AllFacts) /\ y1 \in Seq(AllFacts)
      BY Bys
    <3>2. ToSet(a1) = ToSet(b1) /\ ToSet(x1) = ToSet(y1)
      BY <2>0 DEF Alike
    <3> HIDE DEF a1, b1, x1, y1
    <3>3. ToSet(a1 \o x1) = ToSet(a1) \cup ToSet(x1) /\ ToSet(b1 \o y1) = ToSet(b1) \cup ToSet(y1)
      BY <3>1, MembersOfBoth
    <3> QED
      BY <2>2, <3>2, <3>3 DEF a1, b1, x1, y1
  <2>5. Len(a \o x) = Len(b \o y) /\ CallsIn(a \o x) = CallsIn(b \o y)
    BY <2>0, <2>1, <2>3 DEF Alike
  <2>6. \A who : who # "assistant" => By(a \o x, who) = By(b \o y, who)
    BY <2>0, <2>2 DEF Alike
  <2> QED
    BY <1>1, <2>4, <2>5, <2>6 DEF Agrees, Alike
<1>2. CASE to # "chat"
  BY <1>2 DEF Agrees
<1> QED
  BY <1>1, <1>2

\* All is like itself.
LEMMA AlikeItself == ASSUME NEW to, NEW a PROVE Agrees(to, a, a)
  BY DEF Agrees, Alike

-----------------------------------------------------------------------------
\* Several messages of the assistant.
Speeches == [m \in RoleMessages("assistant") |-> Assisted(m.parts)]
Speech(M) == FlattenSeq(Map(Speeches, M))

\* Each of them tells facts.
LEMMA SpeechesTell == Gives(Speeches, RoleMessages("assistant"), Seq(AllFacts))
<1> SUFFICES ASSUME NEW m \in RoleMessages("assistant") PROVE Speeches[m] \in Seq(AllFacts)
  BY DEF Gives
<1>1. m.parts \in Seq(AnswerParts)
  BY DEF RoleMessages, RoleParts
<1>2. Assisted(m.parts) \in Seq(Facts)
  BY <1>1, Assists
<1>3. Facts \subseteq AllFacts
  BY DEF Facts, AllFacts, Whos, NoId
<1> DEFINE s == Assisted(m.parts)
<1> HIDE DEF s
<1>4. s \in Seq(AllFacts)
  BY <1>2, <1>3, SeqOfMore DEF s
<1> QED
  BY <1>4 DEF Speeches, s

\* For the OpenAI protocols they tell what their parts do, for Chat in no more messages.
SpeechOut(to, M, out) ==
  /\ Sequence(out) /\ Tolds(to, out) \in Seq(Seq(Voice)) /\ (to = "chat" => Len(out) <= Len(M))
  /\ Agrees(to, FlattenSeq(Tolds(to, out)), Speech(M))

\* writeMessages writes them so.
LEMMA SpeechWritten ==
  ASSUME NEW to \in OpenAI, NEW M \in Seq(RoleMessages("assistant"))
  PROVE  SpeechOut(to, M, WriteMessages(to, M))
<1> DEFINE S == RoleMessages("assistant")
           P == {s \in Seq(S) : SpeechOut(to, s, WriteMessages(to, s))}
<1>0. \A m \in S : HasParts(m) /\ ~ IsSystem(m) /\ m = Message("assistant", m.parts) /\ m.parts \in Seq(AnswerParts)
  <2> TAKE m \in S
  <2>1. m.role = "assistant" /\ m.parts \in Seq(AnswerParts) /\ m = Message("assistant", m.parts)
    BY DEF RoleMessages, RoleParts, Message
  <2> QED
    BY <2>1, IsSequence DEF HasParts, IsSystem
<1>1. <<>> \in P
  <2>1. WriteMessages(to, <<>>) = <<>> /\ Speech(<<>>) = <<>>
    BY MessagesNone, MapEmpty, FlattenEmpty DEF Speech
  <2>2. TellsAs(to, <<>>, Voice, <<>>)
    BY NoneTells
  <2>3. Agrees(to, <<>>, <<>>)
    BY AlikeItself
  <2>4. Len(<<>>) <= Len(<<>>) /\ <<>> \in Seq(S)
    OBVIOUS
  <2> QED
    BY <2>1, <2>2, <2>3, <2>4 DEF SpeechOut, TellsAs
<1>2. ASSUME NEW s \in Seq(S), NEW m \in S, s \in P PROVE Append(s, m) \in P
  <2> DEFINE a == WriteMessages(to, s)
             b == WriteMessage(to, <<>>, m)
             t == Append(s, m)
             out == WriteMessages(to, t)
  <2>1. m = Message("assistant", m.parts) /\ m.parts \in Seq(AnswerParts) /\ HasParts(m)
    BY <1>0
  <2>2. SpeechOut(to, s, a)
    BY <1>2
  <2>3. out = Gathered(to, a, m)
    BY MessagesMore
  <2> HIDE DEF a, out
  <2>4. out = WriteMessage(to, a, m)
    BY <1>0, <2>3 DEF Gathered
  <2>5. Sequence(a)
    BY <2>2 DEF SpeechOut
  <2>6. out = a \o b
    BY <2>1, <2>4, <2>5, MessageApart
  <2>7. /\ Sequence(b) /\ Tolds(to, b) \in Seq(Seq(Voice)) /\ (to = "chat" => Len(b) <= 1)
        /\ Agrees(to, FlattenSeq(Tolds(to, b)), Assisted(m.parts))
    BY <2>1, AssistantOuts
  <2> HIDE DEF b
  <2> DEFINE A == Tolds(to, a)
             B == Tolds(to, b)
  <2>8. Sequence(out) /\ Tolds(to, out) = A \o B
    BY <2>5, <2>6, <2>7, ToldsConcat
  <2>9. A \in Seq(Seq(Voice)) /\ B \in Seq(Seq(Voice))
    BY <2>2, <2>7 DEF SpeechOut
  <2>10. Agrees(to, FlattenSeq(A), Speech(s)) /\ Agrees(to, FlattenSeq(B), Assisted(m.parts))
    BY <2>2, <2>7 DEF SpeechOut
  <2> HIDE DEF A, B
  <2>11. A \o B \in Seq(Seq(Voice)) /\ FlattenSeq(A \o B) = FlattenSeq(A) \o FlattenSeq(B)
         /\ FlattenSeq(A) \in Seq(Voice) /\ FlattenSeq(B) \in Seq(Voice)
    BY <2>9, FlattenConcat, FlattenType, ConcatProperties
  <2>12. Speech(t) = Speech(s) \o Assisted(m.parts)
    <3>1. FlattenSeq(Map(Speeches, t)) = FlattenSeq(Map(Speeches, s)) \o Speeches[m]
      <4> DEFINE k == Speeches
      <4>1. Gives(k, S, Seq(AllFacts)) /\ s \in Seq(S) /\ m \in S
        BY <1>2, SpeechesTell
      <4> HIDE DEF S, k
      <4>2. FlattenSeq(Map(k, Append(s, m))) = FlattenSeq(Map(k, s)) \o k[m]
        BY <4>1, FlattenMapAppend
      <4> QED
        BY <4>2 DEF k
    <3> QED
      BY <3>1 DEF Speech, Speeches
  <2>13. Speech(s) \in Seq(AllFacts) /\ Assisted(m.parts) \in Seq(AllFacts)
    <3>1. Speech(s) \in Seq(AllFacts)
      BY SpeechesTell, FlattenMapType DEF Speech
    <3>2. Speeches[m] \in Seq(AllFacts)
      BY SpeechesTell DEF Gives
    <3> QED
      BY <3>1, <3>2 DEF Speeches
  <2>14. FlattenSeq(A) \in Seq(AllFacts) /\ FlattenSeq(B) \in Seq(AllFacts)
    BY <2>11, VoiceOf
  <2>15. Agrees(to, FlattenSeq(A) \o FlattenSeq(B), Speech(s) \o Assisted(m.parts))
    BY <2>10, <2>13, <2>14, AlikeJoins
  <2>16. t \in Seq(S) /\ Len(t) = Len(s) + 1 /\ Len(s) \in Nat
    <3> HIDE DEF S
    <3> QED
      BY AppendProperties, LenProperties
  <2>17. to = "chat" => Len(out) <= Len(t)
    <3> SUFFICES ASSUME to = "chat" PROVE Len(out) <= Len(t)
      OBVIOUS
    <3>1. Len(a) <= Len(s) /\ Len(b) <= 1
      BY <2>2, <2>7 DEF SpeechOut
    <3>2. Len(a \o b) = Len(a) + Len(b) /\ Len(a) \in Nat /\ Len(b) \in Nat
      <4> DEFINE T == ToSet(a) \cup ToSet(b)
      <4>1. a \in Seq(T) /\ b \in Seq(T)
        BY <2>5, <2>7, SeqOfMore DEF Sequence
      <4> HIDE DEF T
      <4> QED
        BY <4>1, ConcatProperties, LenProperties
    <3> QED
      BY <2>6, <2>16, <3>1, <3>2
  <2>18. SpeechOut(to, t, out)
    BY <2>8, <2>11, <2>12, <2>15, <2>17 DEF SpeechOut
  <2> HIDE DEF t
  <2>19. t \in P
    BY <2>16, <2>18 DEF out
  <2> QED
    BY <2>19 DEF t
<1> HIDE DEF P
<1>3. Seq(S) \subseteq P
  <2> HIDE DEF S
  <2> QED
    BY <1>1, <1>2, SeqInduction
<1>4. M \in P
  BY <1>3
<1> QED
  BY <1>4 DEF P

\* If only the last of them calls tools, so it is for Chat.
LEMMA QuietSpeech ==
  ASSUME NEW f \in Seq(RoleMessages("assistant")), NEW e \in RoleMessages("assistant"), CallsIn(Speech(f)) = <<>>
  PROVE  CallsLast(Tolds("chat", WriteMessages("chat", Append(f, e))))
<1> DEFINE to == "chat"
           S == RoleMessages("assistant")
           a == WriteMessages(to, f)
           b == WriteMessages(to, <<e>>)
           A == Tolds(to, a)
           B == Tolds(to, b)
<1>1. to \in OpenAI
  BY DEF OpenAI
<1>2. \A m \in S : HasParts(m)
  <2> TAKE m \in S
  <2>1. m.parts \in Seq(AnswerParts)
    BY DEF RoleMessages, RoleParts
  <2> QED
    BY <2>1, IsSequence DEF HasParts
<1>3. <<e>> \in Seq(S) /\ Len(<<e>>) = 1 /\ Append(f, e) = f \o <<e>>
  <2>1. f \in Seq(S) /\ e \in S
    OBVIOUS
  <2> HIDE DEF S
  <2>2. <<e>> \in Seq(S) /\ Len(<<e>>) = 1
    BY <2>1
  <2>3. Append(f, e) = f \o <<e>>
    BY <2>1, AppendIsConcat
  <2> QED
    BY <2>2, <2>3
<1>4. WriteMessages(to, f \o <<e>>) = a \o b
  <2> DEFINE g == <<e>>
  <2>1. g \in Seq(S) /\ f \in Seq(S)
    BY <1>3
  <2> HIDE DEF g, S, to
  <2>2. WriteMessages(to, f \o g) = WriteMessages(to, f) \o WriteMessages(to, g)
    BY <1>1, <1>2, <2>1, MessagesApart
  <2> QED
    BY <2>2 DEF g
<1>5. SpeechOut(to, f, a)
  BY <1>1, SpeechWritten
<1>6. SpeechOut(to, <<e>>, b)
  <2> DEFINE g == <<e>>
  <2>1. g \in Seq(S)
    BY <1>3
  <2> HIDE DEF g, to
  <2>2. SpeechOut(to, g, WriteMessages(to, g))
    BY <1>1, <2>1, SpeechWritten
  <2> QED
    BY <2>2 DEF g
<1>7. /\ Sequence(a) /\ A \in Seq(Seq(Voice)) /\ Alike(FlattenSeq(A), Speech(f))
      /\ Sequence(b) /\ B \in Seq(Seq(Voice)) /\ Len(b) <= 1
  BY <1>3, <1>5, <1>6 DEF SpeechOut, Agrees
<1> HIDE DEF a, b
<1>8. Tolds(to, a \o b) = A \o B
  BY <1>7, ToldsConcat
<1>9. CallsIn(FlattenSeq(A)) = <<>>
  BY <1>7 DEF Alike
<1>10. A \in Seq(Seq(AllFacts)) /\ Len(B) <= 1
  <2>1. Seq(Voice) \subseteq Seq(AllFacts)
    BY VoiceOf
  <2>2. A \in Seq(Seq(AllFacts))
    BY <1>7, <2>1, SeqOfMore
  <2>3. DOMAIN B = DOMAIN b /\ DOMAIN b = 1 .. Len(b) /\ Len(b) \in Nat
    BY <1>7, LenProperties DEF Tolds, Sequence
  <2>4. Len(B) = Len(b)
    BY <1>7, <2>3, LenProperties
  <2> QED
    BY <1>7, <2>2, <2>4
<1> DEFINE C == A \o B
<1>11. A \in Seq(Seq(Voice)) /\ B \in Seq(Seq(Voice))
  BY <1>7
<1> HIDE DEF A, B
<1>12. \A i \in DOMAIN A : CallsIn(A[i]) = <<>>
  BY <1>9, <1>10, NoCallsAtAll
<1>13. CallsLast(C)
  <2> DEFINE n == Len(A)
             k == Len(B)
  <2> HIDE DEF n, k, C
  <2>1. /\ C \in Seq(Seq(Voice)) /\ n \in Nat /\ k \in Nat /\ Len(C) = n + k /\ DOMAIN C = 1 .. n + k
        /\ DOMAIN A = 1 .. n /\ \A i \in 1 .. n : C[i] = A[i]
    BY <1>11, Joined DEF n, k, C
  <2>2. k <= 1
    BY <1>10 DEF k
  <2>3. ASSUME NEW i \in DOMAIN C, i < Len(C) PROVE CallsIn(C[i]) = <<>>
    <3>1. i \in 1 .. n
      BY <2>1, <2>2, <2>3
    <3> QED
      BY <1>12, <2>1, <3>1
  <2> QED
    BY <2>3 DEF CallsLast
<1> QED
  BY <1>3, <1>4, <1>8, <1>13

-----------------------------------------------------------------------------
\* What a kept message calls.
ItemCalls(b) == IF b.type = "function_call" THEN <<b.call_id>> ELSE <<>>
UseCalls(b) == IF b.type = "tool_use" THEN <<b.id>> ELSE <<>>
\* Words of the assistant are no calls,
LEMMA WordsCallNothing ==
  ASSUME NEW text \in WordSeq
  PROVE  CallsIn(FlattenSeq([i \in DOMAIN text |-> <<Fact("assistant", NoId, text[i])>>])) = <<>>
<1> DEFINE u == Utter("assistant", NoId, text)
<1>1. FlattenSeq([i \in DOMAIN text |-> <<Fact("assistant", NoId, text[i])>>]) = u
  BY AssistantUtters
<1>2. text \in Seq(Int)
  BY SeqOfMore DEF WordSeq
<1>3. u \in Seq(FactsOf("assistant", NoId))
  BY <1>2, PlainBy DEF Whos, NoId
<1> HIDE DEF u
<1>4. u \in Seq(FactsBy("assistant"))
  BY <1>3, PlainBy DEF Whos, NoId
<1>5. CallsIn(u) = <<>>
  BY <1>4, ByOne
<1> QED
  BY <1>1, <1>5

\* those of a block,
LEMMA TextCallsNothing ==
  ASSUME NEW b, b.text \in WordSeq, b.type \notin {"thinking", "image_url", "input_image", "image"}
  PROVE  CallsIn(BlockFacts("assistant", NoId, b)) = <<>>
<1>1. BlockFacts("assistant", NoId, b) = FlattenSeq([i \in DOMAIN b.text |-> <<Fact("assistant", NoId, b.text[i])>>])
  BY DEF BlockFacts, FlattenEach
<1> QED
  BY <1>1, WordsCallNothing

\* or of one in a content.
LEMMA OneTextCallsNothing ==
  ASSUME NEW b, b.text \in WordSeq, b.type \notin {"thinking", "image_url", "input_image", "image"}
  PROVE  CallsIn(ContentFacts("assistant", NoId, <<b>>)) = <<>>
<1> DEFINE s == BlockFacts("assistant", NoId, b)
<1>1. CallsIn(s) = <<>> /\ s \in Seq(Facts)
  BY TextCallsNothing, TextTold
<1>2. ContentFacts("assistant", NoId, <<b>>) = FlattenSeq(<<s>>)
  BY DEF ContentFacts, FlattenEach
<1> HIDE DEF s
<1> QED
  BY <1>1, <1>2, FlattenOne

\* A block of an answer
LEMMA BlockCalls ==
  ASSUME NEW b \in AnswerBlocks \cup OpaqueBlock
  PROVE  b \in ABlocks /\ CallsIn(BlockTold("assistant")[b]) = UseCalls(b)
<1>1. b \in ABlocks
  BY DEF ABlocks
<1>2. BlockTold("assistant")[b] = AnthropicFacts("assistant", b)
  BY <1>1 DEF BlockTold
<1>3. CASE b.type = "tool_use"
  <2>1. AnthropicFacts("assistant", b) = <<Fact("call", NoId, b.id)>>
    BY <1>3 DEF AnthropicFacts
  <2>2. CallsIn(<<Fact("call", NoId, b.id)>>) = FlattenSeq(<< <<b.id>> >>)
    BY DEF CallsIn, FlattenEach, Fact
  <2>3. <<b.id>> \in Seq({b.id})
    OBVIOUS
  <2> DEFINE s == <<b.id>>
  <2> HIDE DEF s
  <2>4. FlattenSeq(<<s>>) = s
    BY <2>3, FlattenOne DEF s
  <2> QED
    BY <1>1, <1>2, <1>3, <2>1, <2>2, <2>4 DEF UseCalls, s
<1>4. CASE b.type = "thinking"
  <2>1. b.thinking \in WordSeq
    BY <1>4 DEF AnswerBlocks, OpaqueBlock, TextTyped, ThinkingTyped, UseTyped
  <2>2. AnthropicFacts("assistant", b) = FlattenSeq([i \in DOMAIN b.thinking |-> <<Fact("assistant", NoId, b.thinking[i])>>])
    BY <1>4 DEF AnthropicFacts, BlockFacts, FlattenEach, Speaker
  <2>3. UseCalls(b) = <<>>
    BY <1>4 DEF UseCalls
  <2> QED
    BY <1>1, <1>2, <2>1, <2>2, <2>3, WordsCallNothing
<1>5. CASE b.type \notin {"tool_use", "thinking"}
  <2>1. b.text \in WordSeq /\ b.type \in {"text", "redacted_thinking"}
    BY <1>5 DEF AnswerBlocks, OpaqueBlock, TextTyped, ThinkingTyped, UseTyped
  <2>2. AnthropicFacts("assistant", b) = BlockFacts("assistant", NoId, b)
    BY <2>1 DEF AnthropicFacts, Speaker
  <2>3. UseCalls(b) = <<>>
    BY <1>5 DEF UseCalls
  <2> QED
    BY <1>1, <1>2, <2>1, <2>2, <2>3, TextCallsNothing
<1> QED
  BY <1>3, <1>4, <1>5

\* and an item,
LEMMA ItemsCall ==
  ASSUME NEW b \in ResponsesKept
  PROVE  CallsIn(Told("responses", b)) = ItemCalls(b)
<1>1. Told("responses", b) = ResponsesFacts(b)
  BY DEF Told
<1>2. CASE b \in MessageTyped
  <2> DEFINE t == b.content[1]
  <2>1. b.type = "message" /\ b.role = "assistant" /\ b.content = <<t>> /\ t \in SaidTyped
    BY <1>2, OfMessage DEF MessageTyped
  <2> HIDE DEF t
  <2>2. ResponsesFacts(b) = ContentFacts("assistant", NoId, <<t>>)
    BY <2>1 DEF ResponsesFacts, Speaker
  <2>3. t.text \in WordSeq /\ t.type \notin {"thinking", "image_url", "input_image", "image"}
    BY <2>1 DEF SaidTyped
  <2>4. ItemCalls(b) = <<>>
    BY <2>1 DEF ItemCalls
  <2> QED
    BY <1>1, <2>2, <2>3, <2>4, OneTextCallsNothing
<1>3. CASE b \in CallTyped
  <2>1. b.type = "function_call"
    BY <1>3 DEF CallTyped
  <2>2. ResponsesFacts(b) = <<Fact("call", NoId, b.call_id)>>
    BY <2>1 DEF ResponsesFacts
  <2>3. CallsIn(<<Fact("call", NoId, b.call_id)>>) = FlattenSeq(<< <<b.call_id>> >>)
    BY DEF CallsIn, FlattenEach, Fact
  <2> DEFINE s == <<b.call_id>>
  <2>4. s \in Seq({b.call_id})
    OBVIOUS
  <2> HIDE DEF s
  <2>5. FlattenSeq(<<s>>) = s
    BY <2>4, FlattenOne
  <2> QED
    BY <1>1, <2>1, <2>2, <2>3, <2>5 DEF ItemCalls, s
<1>4. CASE b \in ReasoningTyped
  <2> DEFINE w == b.summary[1]
             t == TextBlock("text", w)
             s == ContentFacts("assistant", NoId, <<t>>)
  <2>1. b.type = "reasoning" /\ b.summary = <<w>> /\ w \in WordSeq
    BY <1>4, OfReasoning DEF ReasoningTyped
  <2> HIDE DEF w
  <2>2. t.text \in WordSeq /\ t.type \notin {"thinking", "image_url", "input_image", "image"} /\ t \in TextTyped
    BY <2>1 DEF TextBlock, TextTyped
  <2>3. CallsIn(s) = <<>>
    <3> HIDE DEF t
    <3> QED
      BY <2>2, OneTextCallsNothing
  <2>4. s \in Seq(Facts)
    <3> HIDE DEF t
    <3>1. <<t>> \in Seq(TextTyped)
      BY <2>2
    <3>2. \A x \in TextTyped : x.text \in WordSeq /\ x.type \notin {"thinking", "image_url", "input_image", "image"}
      BY DEF TextTyped
    <3> QED
      BY <3>1, <3>2, ContentTold
  <2>5. ResponsesFacts(b) = FlattenSeq(<<s>>)
    <3>1. ResponsesFacts(b) = FlattenSeq([i \in DOMAIN b.summary |->
                                ContentFacts("assistant", NoId, <<TextBlock("text", b.summary[i])>>)])
      BY <2>1 DEF ResponsesFacts, FlattenEach
    <3>2. [i \in DOMAIN b.summary |-> ContentFacts("assistant", NoId, <<TextBlock("text", b.summary[i])>>)] = <<s>>
      BY <2>1
    <3> QED
      BY <3>1, <3>2
  <2> HIDE DEF s
  <2>6. FlattenSeq(<<s>>) = s
    BY <2>4, FlattenOne
  <2>7. ItemCalls(b) = <<>>
    BY <2>1 DEF ItemCalls
  <2> QED
    BY <1>1, <2>3, <2>5, <2>6, <2>7
<1>5. CASE b \in OpaqueItem
  <2>1. b.type = "web_search_call" /\ b.text \in WordSeq
    BY <1>5 DEF OpaqueItem
  <2>2. ResponsesFacts(b) = ContentFacts("assistant", NoId, <<b>>)
    BY <2>1 DEF ResponsesFacts
  <2>3. ItemCalls(b) = <<>>
    BY <2>1 DEF ItemCalls
  <2> QED
    BY <1>1, <2>1, <2>2, <2>3, OneTextCallsNothing
<1> QED
  BY <1>2, <1>3, <1>4, <1>5 DEF ResponsesKept, AnswerItems

\* and a Chat message.
LEMMA ChatCalls ==
  ASSUME NEW m \in ChatKept
  PROVE  CallsIn(Told("chat", m)) = [i \in DOMAIN m.tool_calls |-> m.tool_calls[i].id]
<1> DEFINE Said(x) == <<Fact("assistant", NoId, x)>>
           Called(x) == <<Fact("call", NoId, x.id)>>
           A == FlattenEach(Said, m.reasoning_content)
           B == ContentFacts("assistant", NoId, m.content)
           made == m.tool_calls
           C == FlattenEach(Called, made)
<1>1. /\ m.role = "assistant" /\ m.content \in Seq(TextTyped) /\ m.reasoning_content \in WordSeq
      /\ made \in Seq(CallParted)
  BY DEF ChatKept
<1>2. Told("chat", m) = A \o B \o C
  BY <1>1 DEF Told, ChatFacts, Speaker
<1>3. A = FlattenSeq([i \in DOMAIN m.reasoning_content |-> <<Fact("assistant", NoId, m.reasoning_content[i])>>])
  BY DEF FlattenEach
<1>4. A \in Seq(Facts) /\ CallsIn(A) = <<>>
  BY <1>1, <1>3, WordsTold, WordsCallNothing
<1>5. B \in Seq(Facts)
  <2>1. \A b \in TextTyped : b.text \in WordSeq /\ b.type \notin {"thinking", "image_url", "input_image", "image"}
    BY DEF TextTyped
  <2> QED
    BY <1>1, <2>1, ContentTold
<1>6. CallsIn(B) = <<>>
  <2> DEFINE ss == [i \in DOMAIN m.content |-> BlockFacts("assistant", NoId, m.content[i])]
  <2>1. DOMAIN m.content = 1 .. Len(m.content) /\ Len(m.content) \in Nat
    BY <1>1, LenProperties
  <2>2. \A i \in DOMAIN m.content : m.content[i] \in TextTyped
    BY <1>1, MembersIn
  <2>3. \A i \in DOMAIN m.content : /\ BlockFacts("assistant", NoId, m.content[i]) \in Seq(Facts)
                                    /\ CallsIn(BlockFacts("assistant", NoId, m.content[i])) = <<>>
    BY <2>2, TextTold, TextCallsNothing DEF TextTyped
  <2>4. Facts \subseteq AllFacts
    BY DEF Facts, AllFacts, Whos, NoId
  <2>5. \A i \in DOMAIN m.content : BlockFacts("assistant", NoId, m.content[i]) \in Seq(AllFacts)
    BY <2>3, <2>4, SeqOfMore
  <2>6. ss \in Seq(Seq(AllFacts)) /\ \A i \in DOMAIN ss : CallsIn(ss[i]) = <<>>
    BY <2>1, <2>3, <2>5
  <2>7. B = FlattenSeq(ss)
    BY DEF ContentFacts, FlattenEach
  <2> HIDE DEF ss
  <2> QED
    BY <2>6, <2>7, NoCallsAtAll
<1>7. C = CallFacts(made)
  <2>1. C = FlattenSeq([i \in DOMAIN made |-> <<Fact("call", NoId, made[i].id)>>])
    BY DEF FlattenEach
  <2> HIDE DEF made
  <2> QED
    BY <1>1, <2>1, CallsTold DEF made
<1>8. C \in Seq(FactsBy("call"))
  BY <1>1, <1>7, CallsTold
<1> DEFINE ids == [i \in DOMAIN made |-> made[i].id]
<1>9. CallsIn(C) = ids
  <2> DEFINE f == [c \in CallParted |-> <<c.id>>]
             h == [c \in CallParted |-> c.id]
  <2>1. CallsIn(C) = FlattenSeq([i \in DOMAIN made |-> <<made[i].id>>])
    BY <1>7 DEF CallFacts, CallsIn, FlattenEach, Fact
  <2>2. made \in Seq(CallParted)
    BY <1>1
  <2>3. \A i \in DOMAIN made : made[i] \in CallParted
    BY <2>2, MembersIn
  <2>4. [i \in DOMAIN made |-> <<made[i].id>>] = Map(f, made) /\ ids = Map(h, made)
    BY <2>3 DEF Map
  <2>5. Alone(f, h, CallParted)
    BY DEF Alone
  <2> HIDE DEF f, h, made, C, ids
  <2>6. FlattenSeq(Map(f, made)) = Map(h, made)
    BY <2>2, <2>5, FlattenSingles
  <2> QED
    BY <2>1, <2>4, <2>6
<1> HIDE DEF A, B, C
<1>10. A \in Seq(AllFacts) /\ B \in Seq(AllFacts) /\ C \in Seq(AllFacts)
  <2>1. Facts \subseteq AllFacts /\ FactsBy("call") \subseteq AllFacts
    BY DEF Facts, AllFacts, Whos, NoId, FactsBy
  <2> QED
    BY <1>4, <1>5, <1>8, <2>1, SeqOfMore
<1>11. CallsIn(A \o B \o C) = CallsIn(A) \o CallsIn(B) \o CallsIn(C) /\ CallsIn(C) \in Seq(Int)
  <2> DEFINE D == A \o B
  <2>1. D \in Seq(AllFacts)
    BY <1>10, ConcatProperties
  <2>2. CallsIn(D) = CallsIn(A) \o CallsIn(B)
    BY <1>10, CallsIns
  <2> HIDE DEF D
  <2>3. CallsIn(D \o C) = CallsIn(D) \o CallsIn(C) /\ CallsIn(C) \in Seq(Int)
    BY <1>10, <2>1, CallsIns
  <2> QED
    BY <2>2, <2>3 DEF D
<1> DEFINE k == CallsIn(C)
<1> HIDE DEF k
<1>12. <<>> \o <<>> \o k = k
  <2>1. k \in Seq(Int)
    BY <1>11 DEF k
  <2> QED
    BY <2>1, ConcatEmptySeq
<1> QED
  BY <1>2, <1>4, <1>6, <1>9, <1>11, <1>12 DEF k

-----------------------------------------------------------------------------
\* What the client keeps of an answer, as a step of the conversation: kept messages, one at most
\* but for Responses.
Readables(c, ms) == \A i \in DOMAIN ms : ReadableMessage(c, ms[i])
AssistantStep(c, new) ==
  /\ new \in Seq(KeptMessages(c))
  /\ c # "responses" => Len(new) <= 1
  /\ c = "anthropic" => \A i \in DOMAIN new : new[i].content # <<>>

\* A kept message tells words of the assistant and calls.
LEMMA KeptVoice ==
  ASSUME NEW c \in Protocols, NEW m \in KeptMessages(c)
  PROVE  Told(c, m) \in Seq(Voice)
<1>1. Told(c, m) \in Seq(Facts)
  BY ChatTold, AnthropicTold, ResponsesTold DEF KeptMessages, Protocols
<1>2. Facts \subseteq Voice
  BY DEF Facts, Voice, AllFacts, Whos, NoId
<1> DEFINE t == Told(c, m)
<1> HIDE DEF t
<1>3. t \in Seq(Facts)
  BY <1>1 DEF t
<1>4. t \in Seq(Voice)
  BY <1>2, <1>3, SeqOfMore
<1> QED
  BY <1>4 DEF t

\* One that can be read is read as a message of the assistant.
LEMMA KeptReads ==
  ASSUME NEW c \in Protocols, NEW m \in KeptMessages(c), ReadableMessage(c, m)
  PROVE  Assistant(c, m)
<1>1. CASE c = "chat"
  BY <1>1, ChatAssists DEF KeptMessages
<1>2. CASE c = "anthropic"
  <2>1. m \in AnthropicKept /\ Readable(m.content)
    BY <1>2 DEF KeptMessages, ReadableMessage
  <2>2. m.role = "assistant" /\ m.content \in Seq(AnswerBlocks \cup OpaqueBlock)
    BY <2>1 DEF AnthropicKept
  <2> DEFINE s == m.content
  <2>3. \A i \in DOMAIN s : s[i] \in AnswerBlocks
    <3>1. \A i \in DOMAIN s : s[i] \in AnswerBlocks \cup OpaqueBlock
      BY <2>2, MembersIn
    <3>2. \A i \in DOMAIN s : s[i].type # "redacted_thinking"
      BY <2>1 DEF Readable, ReadableTypes, PlainTypes
    <3> QED
      BY <3>1, <3>2 DEF OpaqueBlock
  <2> HIDE DEF s
  <2>4. s \in Seq(AnswerBlocks)
    <3>1. DOMAIN s = 1 .. Len(s) /\ Len(s) \in Nat /\ s = [i \in 1 .. Len(s) |-> s[i]]
      BY <2>2, LenProperties DEF s
    <3> QED
      BY <2>3, <3>1
  <2> QED
    BY <1>2, <2>2, <2>4, AnthropicAssists DEF s
<1>3. CASE c = "responses"
  <2>1. m \in AnswerItems \cup OpaqueItem
    BY <1>3 DEF KeptMessages, ResponsesKept
  <2>2. m \notin OpaqueItem
    BY <1>3 DEF ReadableMessage, OpaqueItem
  <2> QED
    BY <1>3, <2>1, <2>2, ResponsesAssists
<1> QED
  BY <1>1, <1>2, <1>3 DEF Protocols

\* What is read of an answer that was kept: messages of the assistant that tell the same.
AssistantRead(c, new, M) ==
  /\ M \in Seq(RoleMessages("assistant")) /\ Len(M) = Len(new)
  /\ Reads(c, new) \in Seq(Seq(ReadSet)) /\ FlattenSeq(Reads(c, new)) = M
  /\ Map(Speeches, M) = Tolds(c, new)
\* So it is read.
LEMMA SpokenRead ==
  ASSUME NEW c \in Protocols, NEW new \in Seq(KeptMessages(c)), Readables(c, new)
  PROVE  \E M : AssistantRead(c, new, M)
<1> DEFINE K == {m \in KeptMessages(c) : ReadableMessage(c, m)}
           R == RoleMessages("assistant")
           rd == [m \in K |-> ReadMessage(c, m)[1]]
           rds == [m \in K |-> ReadMessage(c, m)]
           tl == [m \in K |-> Told(c, m)]
           M == Map(rd, new)
<1>1. new \in Seq(K)
  <2>1. \A i \in DOMAIN new : new[i] \in K
    BY MembersIn DEF Readables
  <2> HIDE DEF K
  <2>2. DOMAIN new = 1 .. Len(new) /\ Len(new) \in Nat /\ new = [i \in 1 .. Len(new) |-> new[i]]
    BY LenProperties
  <2> QED
    BY <2>1, <2>2
<1>2. \A i \in DOMAIN new : new[i] \in K
  BY <1>1, MembersIn
<1>3. Reads(c, new) = Map(rds, new) /\ Tolds(c, new) = Map(tl, new)
  BY <1>2 DEF Reads, Tolds, Map
<1>4. \A m \in K : /\ rd[m] \in R /\ rds[m] = <<rd[m]>>
                   /\ tl[m] = Assisted(rd[m].parts)
  <2> SUFFICES ASSUME NEW m \in K
               PROVE  rd[m] \in R /\ rds[m] = <<rd[m]>> /\ tl[m] = Assisted(rd[m].parts)
    OBVIOUS
  <2>1. Assistant(c, m)
    BY KeptReads
  <2>2. PICK parts \in Seq(AnswerParts) :
          ReadMessage(c, m) = <<Message("assistant", parts)>> /\ Assisted(parts) = Told(c, m)
    BY <2>1 DEF Assistant
  <2>3. rd[m] = Message("assistant", parts)
    BY <2>2
  <2>4. rd[m].parts = parts /\ rd[m] \in R
    BY <2>3 DEF Message, RoleMessages, RoleParts
  <2> QED
    BY <2>2, <2>3, <2>4
<1> HIDE DEF K, rd, rds, tl
<1>5. Gives(rd, K, R) /\ Alone(rds, rd, K)
  BY <1>4 DEF Gives, Alone
<1>6. M \in Seq(R)
  BY <1>1, <1>5, MapType
<1>7. Len(M) = Len(new)
  BY <1>1, MapAt
<1>8. FlattenSeq(Map(rds, new)) = M
  BY <1>1, <1>5, FlattenSingles
<1>9. Map(rds, new) \in Seq(Seq(ReadSet))
  <2>1. R \subseteq ReadSet
    BY DEF ReadSet
  <2> HIDE DEF R
  <2>2. \A x \in K : rds[x] \in Seq(ReadSet)
    <3> SUFFICES ASSUME NEW x \in K PROVE rds[x] \in Seq(ReadSet)
      OBVIOUS
    <3> DEFINE e == rd[x]
    <3>1. rds[x] = <<e>> /\ e \in ReadSet
      BY <1>4, <2>1
    <3> HIDE DEF e
    <3>2. <<e>> \in Seq(ReadSet)
      BY <3>1
    <3> QED
      BY <3>1, <3>2
  <2>3. Gives(rds, K, Seq(ReadSet))
    BY <2>2 DEF Gives
  <2> QED
    BY <1>1, <2>3, MapType
<1>10. Map(Speeches, M) = Map(tl, new)
  <2>1. After(tl, Speeches, rd, K)
    BY <1>4 DEF After, Speeches
  <2> QED
    BY <1>1, <2>1, MapMap
<1> HIDE DEF M
<1>11. AssistantRead(c, new, M)
  BY <1>3, <1>6, <1>7, <1>8, <1>9, <1>10 DEF AssistantRead
<1> QED
  BY <1>11

-----------------------------------------------------------------------------
\* The conversation that the gateway reads, and the request that it writes.
SystemOf(c) == IF c = "chat" THEN <<>> ELSE <<TextBlock("text", <<1>>)>>
Opening(c) == IF c = "chat" THEN <<>> ELSE <<Message("system", <<Text(<<1>>)>>)>>
Conversation(c, h) == Opening(c) \o FlattenSeq(Reads(c, h))
MsOf(c, p, h) == IF p = c THEN h ELSE WriteMessages(p, Conversation(c, h))
SysOf(c, p, h) == IF p = c THEN SystemOf(c) ELSE WriteSystem(p, Conversation(c, h))
Hears(c, p, h) == ContentFacts("system", NoId, SysOf(c, p, h)) \o FlattenSeq(Tolds(p, MsOf(c, p, h)))

\* What a request has and tells.
LEMMA RequestTells ==
  ASSUME Asking, NEW p, NEW r, r = Request(client, p, Body)
  PROVE  r.messages = MsOf(client, p, history) /\ Tells(p, r) = Hears(client, p, history)
<1>1. Body.messages = history
  BY BodyFields
<1>2. Body.system = SystemOf(client)
  BY DEF Body, Blank, SystemOf
<1> DEFINE b == Body
<1>3. ReadConversation(client, b) = Conversation(client, history)
  <2>1. (IF b.system = <<>> THEN <<>> ELSE <<Message("system", Parts(b.system))>>) = Opening(client)
    <3>1. CASE client = "chat"
      BY <1>2, <3>1 DEF SystemOf, Opening
    <3>2. CASE client # "chat"
      <4>1. b.system = <<TextBlock("text", <<1>>)>>
        BY <1>2, <3>2 DEF SystemOf
      <4>2. Part(TextBlock("text", <<1>>)) = Text(<<1>>)
        BY DEF Part, PlainPart, TextBlock, Text
      <4>3. Parts(<<TextBlock("text", <<1>>)>>) = <<Text(<<1>>)>>
        BY <4>2 DEF Parts
      <4> QED
        BY <3>2, <4>1, <4>3 DEF Opening
    <3> QED
      BY <3>1, <3>2
  <2>2. FlattenSeq([i \in DOMAIN b.messages |-> ReadMessage(client, b.messages[i])]) = FlattenSeq(Reads(client, history))
    BY <1>1 DEF Reads
  <2> HIDE DEF b
  <2> QED
    BY <2>1, <2>2 DEF ReadConversation, FlattenEach, Conversation
<1>4. r.messages = MsOf(client, p, history) /\ r.system = SysOf(client, p, history)
  <2>1. CASE p = client
    BY <1>1, <1>2, <2>1 DEF Request, MsOf, SysOf
  <2>2. CASE p # client
    <3>1. r = Converted(client, p, b)
      BY <2>2 DEF Request
    <3> HIDE DEF b
    <3>2. r.messages = WriteMessages(p, ReadConversation(client, b)) /\ r.system = WriteSystem(p, ReadConversation(client, b))
      BY <3>1 DEF Converted, Blank
    <3> QED
      BY <1>3, <2>2, <3>2 DEF MsOf, SysOf
  <2> QED
    BY <2>1, <2>2
<1> QED
  BY <1>4, TellsAllOf DEF Tells, Hears

\* What is read of messages.
LEMMA ReadApart ==
  /\ \A m \in ReadSet : HasParts(m)
  /\ \A m \in ReadSet : IsSystem(m) => m \in Systems
  /\ \A role \in Speaking : RoleMessages(role) \subseteq ReadSet /\ \A m \in RoleMessages(role) : ~ IsSystem(m)
<1>1. \A m \in ReadSet : \E S : m.parts \in Seq(S)
  BY DEF ReadSet, RoleMessages, Systems
<1>2. \A m \in ReadSet : HasParts(m)
  <2> SUFFICES ASSUME NEW m \in ReadSet PROVE HasParts(m)
    OBVIOUS
  <2>1. PICK S : m.parts \in Seq(S)
    BY <1>1
  <2> QED
    BY <2>1, IsSequence DEF HasParts
<1>3. \A m \in ReadSet : IsSystem(m) => m \in Systems
  BY DEF ReadSet, RoleMessages, IsSystem
<1>4. \A role \in Speaking : RoleMessages(role) \subseteq ReadSet /\ \A m \in RoleMessages(role) : ~ IsSystem(m)
  BY DEF ReadSet, RoleMessages, IsSystem, Speaking
<1> QED
  BY <1>2, <1>3, <1>4

\* A conversation is read, and what is said later is read after what was said before.
LEMMA ConversationGrows ==
  ASSUME NEW c \in Protocols, NEW h, Sequence(h), Reads(c, h) \in Seq(Seq(ReadSet)),
         NEW new, Sequence(new), Reads(c, new) \in Seq(Seq(ReadSet))
  PROVE  /\ Conversation(c, h) \in Seq(ReadSet) /\ FlattenSeq(Reads(c, new)) \in Seq(ReadSet)
         /\ Conversation(c, h \o new) = Conversation(c, h) \o FlattenSeq(Reads(c, new))
         /\ Reads(c, h \o new) \in Seq(Seq(ReadSet))
<1> DEFINE a == Reads(c, h)
           b == Reads(c, new)
           o == Opening(c)
<1>1. Reads(c, h \o new) = a \o b
  BY ReadsConcat
<1>2. o \in Seq(ReadSet)
  <2> DEFINE m == Message("system", <<Text(<<1>>)>>)
  <2>1. Text(<<1>>) \in PlainSet
    BY DEF Text, PlainSet, TextSet
  <2>2. m \in Systems
    BY <2>1 DEF Systems, Message
  <2> HIDE DEF m
  <2>3. <<m>> \in Seq(ReadSet)
    BY <2>2 DEF ReadSet
  <2>4. c # "chat" => o = <<m>>
    BY DEF Opening, m
  <2>5. c = "chat" => o = <<>>
    BY DEF Opening
  <2> QED
    BY <2>3, <2>4, <2>5, EmptySeq
<1> HIDE DEF a, b, o
<1>3. a \in Seq(Seq(ReadSet)) /\ b \in Seq(Seq(ReadSet))
  BY DEF a, b
<1> DEFINE x == FlattenSeq(a)
           y == FlattenSeq(b)
<1>4. x \in Seq(ReadSet) /\ y \in Seq(ReadSet)
  BY <1>3, FlattenType
<1>5. FlattenSeq(a \o b) = x \o y
  BY <1>3, FlattenConcat
<1>6. a \o b \in Seq(Seq(ReadSet))
  BY <1>3, ConcatProperties
<1> HIDE DEF x, y
<1>7. Associates(o, x, y) /\ o \o x \in Seq(ReadSet)
  BY <1>2, <1>4, ConcatTwo, ConcatProperties
<1>8. Conversation(c, h) = o \o x
  BY DEF Conversation, o, x, a
<1>9. Conversation(c, h \o new) = o \o (x \o y)
  BY <1>1, <1>5 DEF Conversation, o
<1>10. FlattenSeq(Reads(c, new)) = y
  BY DEF y, b
<1>11. Reads(c, h \o new) \in Seq(Seq(ReadSet))
  BY <1>1, <1>6
<1> QED
  BY <1>4, <1>7, <1>8, <1>9, <1>10, <1>11 DEF Associates

\* Instructions come first: what is said later adds none.
LEMMA SystemStays ==
  ASSUME NEW p, NEW C \in Seq(ReadSet), NEW role \in Speaking, NEW N \in Seq(RoleMessages(role))
  PROVE  WriteSystem(p, C \o N) = WriteSystem(p, C)
<1> DEFINE ins == [m \in ReadSet |-> IF IsSystem(m) THEN ContentParts(p, m.role, m.parts) ELSE <<>>]
<1>1. CASE p # "anthropic"
  BY <1>1 DEF WriteSystem
<1>2. CASE p = "anthropic"
  <2>1. \A s \in Seq(ReadSet) : WriteSystem(p, s) = FlattenSeq(Map(ins, s))
    <3> SUFFICES ASSUME NEW s \in Seq(ReadSet) PROVE WriteSystem(p, s) = FlattenSeq(Map(ins, s))
      OBVIOUS
    <3>1. \A i \in DOMAIN s : s[i] \in ReadSet
      BY MembersIn
    <3>2. Map(ins, s) = [i \in DOMAIN s |-> IF IsSystem(s[i]) THEN ContentParts(p, s[i].role, s[i].parts) ELSE <<>>]
      BY <3>1 DEF Map
    <3> HIDE DEF ins
    <3> QED
      BY <1>2, <3>2 DEF WriteSystem, FlattenEach
  <2>2. \A m \in ReadSet : ins[m] \in Seq(PlainBlocks)
    <3> SUFFICES ASSUME NEW m \in ReadSet PROVE ins[m] \in Seq(PlainBlocks)
      OBVIOUS
    <3>1. CASE IsSystem(m)
      <4>1. m.parts \in Seq(PlainSet)
        BY <3>1, ReadApart DEF Systems
      <4>2. ContentParts(p, m.role, m.parts) \in Seq(PlainBlocks)
        BY <4>1, ContentWritten DEF Whos, NoId
      <4> QED
        BY <3>1, <4>2
    <3>2. CASE ~ IsSystem(m)
      BY <3>2, EmptySeq
    <3> QED
      BY <3>1, <3>2
  <2>3. Silent(ins, RoleMessages(role)) /\ RoleMessages(role) \subseteq ReadSet
    BY ReadApart DEF Silent
  <2> HIDE DEF ins
  <2>4. N \in Seq(ReadSet)
    BY <2>3, SeqOfMore
  <2>5. Gives(ins, ReadSet, Seq(PlainBlocks))
    BY <2>2 DEF Gives
  <2>6. Splits(ins, C, N)
    BY <2>4, <2>5, FlattenMapConcat
  <2>7. FlattenSeq(Map(ins, N)) = <<>>
    BY <2>3, FlattenNothing
  <2> DEFINE x == FlattenSeq(Map(ins, C))
  <2>8. x \in Seq(PlainBlocks)
    BY <2>5, FlattenMapType
  <2>9. C \o N \in Seq(ReadSet)
    BY <2>4, ConcatProperties
  <2>10. WriteSystem(p, C \o N) = FlattenSeq(Map(ins, C \o N)) /\ WriteSystem(p, C) = x
    BY <2>1, <2>9
  <2>11. FlattenSeq(Map(ins, C \o N)) = x \o <<>>
    BY <2>6, <2>7 DEF Splits
  <2> HIDE DEF x
  <2>12. x \o <<>> = x
    BY <2>8, ConcatEmptySeq
  <2> QED
    BY <2>10, <2>11, <2>12
<1> QED
  BY <1>1, <1>2

-----------------------------------------------------------------------------
\* One message alone.
LEMMA OneWritten ==
  ASSUME NEW to \in OpenAI, NEW m
  PROVE  WriteMessages(to, <<m>>) = WriteMessage(to, <<>>, m)
<1>1. <<>> \in Seq({m}) /\ Append(<<>>, m) = <<m>>
  OBVIOUS
<1>2. WriteMessages(to, Append(<<>>, m)) = Gathered(to, WriteMessages(to, <<>>), m)
  BY <1>1, MessagesMore
<1> QED
  BY <1>1, <1>2, MessagesNone DEF Gathered, OpenAI

\* What the user says is written item by item, be it in one message
LEMMA UserTogether ==
  ASSUME NEW to \in OpenAI, NEW results \in Seq(ResultSet), NEW plain \in Seq(PlainSet),
         results # <<>> \/ plain # <<>>,
         NEW out, out = WriteMessages(to, <<Message("user", results \o plain)>>)
  PROVE  Sequence(out) /\ Tolds(to, out) = OutsOf("user", results, plain)
<1>1. results \o plain # <<>>
  BY ConcatProperties, LenProperties, EmptySeq
<1> DEFINE m == Message("user", results \o plain)
<1> HIDE DEF m
<1>2. out = WriteMessage(to, <<>>, m)
  BY OneWritten DEF m
<1>3. out = WriteMessage(to, <<>>, Message("user", results \o plain))
  BY <1>2 DEF m
<1>4. Sequence(out) /\ Tolds(to, out) = OutsOf(Speaker("user"), results, plain)
  BY <1>1, <1>3, UserOuts
<1> QED
  BY <1>4 DEF Speaker

\* or in several.
LEMMA UserApart ==
  ASSUME NEW to \in OpenAI, NEW results \in Seq(ResultSet), NEW plain \in Seq(PlainSet),
         NEW out, out = WriteMessages(to, Map(Apart, results) \o Beyond(plain))
  PROVE  Sequence(out) /\ Tolds(to, out) = OutsOf("user", results, plain)
<1> DEFINE R == RoleMessages("user")
           W(s) == WriteMessages(to, Map(Apart, s))
           P == {s \in Seq(ResultSet) : Tolds(to, W(s)) = Map(ResultAs, s)}
<1>1. \A m \in R : HasParts(m)
  BY ReadApart DEF Speaking
<1>2. Gives(Apart, ResultSet, R)
  <2>1. \A p \in ResultSet : Apart[p] = Message("user", <<p>>) /\ <<p>> \in Seq(RoleParts("user"))
    BY DEF Apart, RoleParts
  <2> DEFINE T == Seq(RoleParts("user"))
  <2>2. \A p \in ResultSet : Apart[p] = Message("user", <<p>>) /\ <<p>> \in T
    BY <2>1
  <2>3. \A q \in T : Message("user", q) \in R
    BY DEF RoleMessages, Message
  <2> HIDE DEF T, R
  <2>4. \A p \in ResultSet : Apart[p] \in R
    BY <2>2, <2>3
  <2> QED
    BY <2>4 DEF Gives
<1>3. \A s \in Seq(ResultSet) : Map(Apart, s) \in Seq(R)
  BY <1>2, MapType
<1>4. \A p \in ResultSet : LET o == WriteMessages(to, <<Apart[p]>>) IN Sequence(o) /\ Tolds(to, o) = <<ResultAs[p]>>
  <2> SUFFICES ASSUME NEW p \in ResultSet
               PROVE  LET o == WriteMessages(to, <<Apart[p]>>) IN Sequence(o) /\ Tolds(to, o) = <<ResultAs[p]>>
    OBVIOUS
  <2> DEFINE one == <<p>>
             o == WriteMessages(to, <<Apart[p]>>)
  <2>1. one \in Seq(ResultSet) /\ <<>> \in Seq(PlainSet) /\ one # <<>> /\ one \o <<>> = one
    BY EmptySeq
  <2>2. Apart[p] = Message("user", one)
    BY DEF Apart
  <2>3. Map(ResultAs, one) = <<ResultAs[p]>>
    BY MapOne
  <2>4. <<ResultAs[p]>> \o <<>> = <<ResultAs[p]>>
    OBVIOUS
  <2> HIDE DEF one
  <2>5. o = WriteMessages(to, <<Message("user", one \o <<>>)>>)
    BY <2>1, <2>2
  <2> HIDE DEF o
  <2> DEFINE none == <<>>
  <2>8. none \in Seq(PlainSet) /\ o = WriteMessages(to, <<Message("user", one \o none)>>) /\ one # <<>>
    BY <2>1, <2>5
  <2> HIDE DEF none
  <2>6. Sequence(o) /\ Tolds(to, o) = OutsOf("user", one, none)
    BY <2>1, <2>8, UserTogether
  <2>7. OutsOf("user", one, <<>>) = <<ResultAs[p]>>
    BY <2>3, <2>4 DEF OutsOf
  <2> QED
    BY <2>6, <2>7 DEF o, none
<1>5. <<>> \in P
  <2>1. W(<<>>) = <<>>
    BY MapEmpty, MessagesNone
  <2>2. Tolds(to, <<>>) = <<>>
    BY DEF Tolds
  <2> QED
    BY <2>1, <2>2, MapEmpty, EmptySeq
<1>6. \A s \in Seq(ResultSet), e \in ResultSet : s \in P => Append(s, e) \in P
  <2> SUFFICES ASSUME NEW s \in Seq(ResultSet), NEW e \in ResultSet, s \in P
               PROVE  Append(s, e) \in P
    OBVIOUS
  <2> DEFINE x == Map(Apart, s)
             d == Apart[e]
             u == <<d>>
             a == W(s)
             b == WriteMessages(to, u)
  <2>1. Map(Apart, Append(s, e)) = Append(x, d) /\ Map(ResultAs, Append(s, e)) = Append(Map(ResultAs, s), ResultAs[e])
    BY MapAppend
  <2>2. x \in Seq(R) /\ d \in R
    BY <1>2, <1>3 DEF Gives
  <2>3. Sequence(b) /\ Tolds(to, b) = <<ResultAs[e]>>
    BY <1>4
  <2>4. Append(s, e) \in Seq(ResultSet)
    BY AppendProperties
  <2>5. Tolds(to, a) = Map(ResultAs, s)
    OBVIOUS
  <2>6. WriteMessages(to, x) = a
    OBVIOUS
  <2> HIDE DEF x, d, a, b, P
  <2>7. Append(x, d) = x \o u /\ u \in Seq(R)
    BY <2>2, AppendIsConcat
  <2> HIDE DEF u
  <2>8. Sequence(a) /\ WriteMessages(to, x \o u) = a \o WriteMessages(to, u)
    BY <1>1, <2>2, <2>6, <2>7, MessagesApart
  <2>9. WriteMessages(to, Append(x, d)) = a \o b
    BY <2>7, <2>8 DEF b
  <2>10. Tolds(to, a \o b) = Tolds(to, a) \o Tolds(to, b)
    BY <2>3, <2>8, ToldsConcat
  <2> DEFINE f == Map(ResultAs, s)
  <2>11. f \o <<ResultAs[e]>> = Append(f, ResultAs[e])
    <3>1. f \in Seq({ResultAs[y] : y \in ResultSet})
      BY MapIn
    <3> HIDE DEF f
    <3> QED
      BY <3>1, AppendIsConcat
  <2> QED
    BY <2>1, <2>3, <2>4, <2>5, <2>9, <2>10, <2>11 DEF P
<1>7. Seq(ResultSet) \subseteq P
  <2> HIDE DEF P
  <2> QED
    BY <1>5, <1>6, SeqInduction
<1> DEFINE x == Map(Apart, results)
           y == Beyond(plain)
           a == WriteMessages(to, x)
           b == WriteMessages(to, y)
           g == IF plain = <<>> THEN <<>> ELSE <<PlainSaid("user", NoId, plain)>>
<1>8. Tolds(to, a) = Map(ResultAs, results)
  BY <1>7
<1>9. y \in Seq(R) /\ Sequence(b) /\ Tolds(to, b) = g
  <2>1. CASE plain = <<>>
    <3>1. y = <<>>
      BY <2>1 DEF Beyond
    <3>2. b = <<>>
      BY <3>1, MessagesNone
    <3>3. Sequence(<<>>) /\ Tolds(to, <<>>) = <<>>
      BY NoneHeard DEF Tolds
    <3> QED
      BY <2>1, <3>1, <3>2, <3>3, EmptySeq
  <2>2. CASE plain # <<>>
    <3>1. <<>> \in Seq(ResultSet) /\ <<>> \o plain = plain
      BY ConcatEmptySeq, EmptySeq
    <3>2. y = <<Message("user", <<>> \o plain)>>
      BY <2>2, <3>1 DEF Beyond
    <3>3. Sequence(b) /\ Tolds(to, b) = OutsOf("user", <<>>, plain)
      BY <2>2, <3>1, <3>2, UserTogether
    <3>4. OutsOf("user", <<>>, plain) = <<PlainSaid("user", NoId, plain)>>
      <4>1. Map(ResultAs, <<>>) = <<>>
        BY MapEmpty
      <4>2. OutsOf("user", <<>>, plain) = <<>> \o <<PlainSaid("user", NoId, plain)>>
        BY <2>2, <4>1 DEF OutsOf
      <4> DEFINE w == PlainSaid("user", NoId, plain)
      <4> HIDE DEF w
      <4>3. <<>> \o <<w>> = <<w>>
        OBVIOUS
      <4> QED
        BY <4>2, <4>3 DEF w
    <3>5. y \in Seq(R)
      <4>1. PlainSet \subseteq RoleParts("user")
        BY DEF RoleParts
      <4>2. plain \in Seq(RoleParts("user"))
        BY <4>1, SeqOfMore
      <4>3. Message("user", plain) \in R
        BY <4>2 DEF RoleMessages, Message
      <4> DEFINE m == Message("user", plain)
      <4> HIDE DEF m
      <4>4. <<m>> \in Seq(R)
        BY <4>3 DEF m
      <4> QED
        BY <3>1, <3>2, <4>4 DEF m
    <3> QED
      BY <2>2, <3>3, <3>4, <3>5
  <2> QED
    BY <2>1, <2>2
<1>10. x \in Seq(R)
  BY <1>3
<1> HIDE DEF x, y
<1>11. Sequence(a) /\ WriteMessages(to, x \o y) = a \o b
  BY <1>1, <1>9, <1>10, MessagesApart
<1>12. out = a \o b
  BY <1>11 DEF x, y
<1> HIDE DEF a, b
<1>13. Sequence(a \o b) /\ Tolds(to, a \o b) = Tolds(to, a) \o Tolds(to, b)
  BY <1>9, <1>11, ToldsConcat
<1> QED
  BY <1>8, <1>9, <1>12, <1>13 DEF OutsOf

-----------------------------------------------------------------------------
\* For Anthropic, messages of one role after another are their blocks, added together.
PartsField(role) == [m \in RoleMessages(role) |-> m.parts]
AllParts(role, N) == FlattenSeq(Map(PartsField(role), N))

\* The parts of messages.
LEMMA AllPartsTyped ==
  ASSUME NEW role
  PROVE  /\ Gives(PartsField(role), RoleMessages(role), Seq(RoleParts(role)))
         /\ AllParts(role, <<>>) = <<>>
         /\ \A N \in Seq(RoleMessages(role)) : AllParts(role, N) \in Seq(RoleParts(role))
         /\ \A N \in Seq(RoleMessages(role)), e \in RoleMessages(role) :
              AllParts(role, Append(N, e)) = AllParts(role, N) \o e.parts
<1> DEFINE f == PartsField(role)
           R == RoleMessages(role)
           S == RoleParts(role)
<1>1. \A m \in R : f[m] = m.parts /\ f[m] \in Seq(S)
  BY DEF PartsField, RoleMessages
<1> HIDE DEF f, R, S
<1>2. Gives(f, R, Seq(S))
  BY <1>1 DEF Gives
<1>3. FlattenSeq(Map(f, <<>>)) = <<>>
  BY MapEmpty, FlattenEmpty
<1>4. \A N \in Seq(R) : FlattenSeq(Map(f, N)) \in Seq(S)
  BY <1>2, FlattenMapType
<1>5. \A N \in Seq(R), e \in R : FlattenSeq(Map(f, Append(N, e))) = FlattenSeq(Map(f, N)) \o f[e]
  BY <1>2, FlattenMapAppend
<1> QED
  BY <1>1, <1>2, <1>3, <1>4, <1>5 DEF AllParts, f, R, S

\* Blocks of parts after others.
LEMMA BlocksConcat ==
  ASSUME NEW role \in Speaking
  PROVE  /\ Blocks(role, <<>>) = <<>>
         /\ \A a \in Seq(RoleParts(role)) : Blocks(role, a) \in Seq(ABlocks)
         /\ \A a, b \in Seq(RoleParts(role)) : Blocks(role, a \o b) = Blocks(role, a) \o Blocks(role, b)
<1> DEFINE h == BlockAs(role)
           S == RoleParts(role)
<1>1. Gives(h, S, ABlocks)
  BY BlockOf
<1> HIDE DEF h, S
<1> QED
  BY <1>1, MapEmpty, MapType, MapConcat DEF Blocks, h, S

\* So they are written.
AddsAll(C, role, N) ==
  WriteMessages("anthropic", C \o N)
    = Add("anthropic", WriteMessages("anthropic", C), role, Blocks(role, AllParts(role, N)))

\* writeMessages adds the blocks of all the messages of one role as one content.
LEMMA AllAdded ==
  ASSUME NEW C \in Seq(ReadSet), WriteMessages("anthropic", C) \in Seq(AMessages),
         NEW role \in Speaking, NEW N \in Seq(RoleMessages(role))
  PROVE  AddsAll(C, role, N)
<1> DEFINE R == RoleMessages(role)
           S == RoleParts(role)
           items == WriteMessages("anthropic", C)
           P == {s \in Seq(R) : AddsAll(C, role, s)}
<1>1. R \subseteq ReadSet /\ \A m \in R : ~ IsSystem(m)
  BY ReadApart
<1>2. <<>> \in P
  <2>1. C \o <<>> = C
    BY ConcatEmptySeq
  <2>2. Blocks(role, AllParts(role, <<>>)) = <<>>
    BY AllPartsTyped, BlocksConcat
  <2>3. Add("anthropic", items, role, <<>>) = items
    BY DEF Add
  <2>4. AddsAll(C, role, <<>>)
    BY <2>1, <2>2, <2>3 DEF AddsAll
  <2> QED
    BY <2>4, EmptySeq
<1>3. \A s \in Seq(R), e \in R : s \in P => Append(s, e) \in P
  <2> SUFFICES ASSUME NEW s \in Seq(R), NEW e \in R, s \in P
               PROVE  Append(s, e) \in P
    OBVIOUS
  <2> DEFINE q == AllParts(role, s)
             r == e.parts
             a == Blocks(role, q)
             b == Blocks(role, r)
             x == C \o s
             w == WriteMessages("anthropic", x)
  <2>1. e = Message(role, r) /\ r \in Seq(S)
    BY DEF RoleMessages, Message
  <2>2. q \in Seq(S) /\ AllParts(role, Append(s, e)) = q \o r
    BY AllPartsTyped
  <2>3. w = Add("anthropic", items, role, a)
    BY DEF AddsAll
  <2>4. ~ IsSystem(e)
    BY <1>1
  <2>5. s \in Seq(ReadSet) /\ e \in ReadSet
    BY <1>1, SeqOfMore
  <2>6. C \o Append(s, e) = Append(x, e) /\ x \in Seq(ReadSet)
    <3>1. Sequence(C) /\ Sequence(s)
      BY IsSequence
    <3> QED
      BY <2>5, <3>1, AppendApart, ConcatProperties
  <2>7. Append(s, e) \in Seq(R)
    BY AppendProperties
  <2>8. items \in Seq(AMessages)
    OBVIOUS
  <2> HIDE DEF q, r, x, P, R, S, items
  <2>9. a \in Seq(ABlocks) /\ b \in Seq(ABlocks) /\ Blocks(role, q \o r) = a \o b
    BY <2>1, <2>2, BlocksConcat DEF S
  <2> HIDE DEF a, b, w
  <2>10. w \in Seq(AMessages)
    BY <2>3, <2>8, <2>9, AddAdds DEF Speaking
  <2>11. WriteMessages("anthropic", Append(x, e)) = Gathered("anthropic", w, e)
    BY <2>5, <2>6, MessagesMore DEF w
  <2>12. Gathered("anthropic", w, e) = WriteMessage("anthropic", w, Message(role, r))
    BY <2>1, <2>4 DEF Gathered
  <2>13. WriteMessage("anthropic", w, Message(role, r)) = Add("anthropic", w, role, Blocks(role, r))
    BY <2>1, <2>10, AnthropicAdds DEF S
  <2>14. Add("anthropic", Add("anthropic", items, role, a), role, b) = Add("anthropic", items, role, a \o b)
    BY <2>8, <2>9, AddTwice DEF Speaking
  <2>15. WriteMessages("anthropic", C \o Append(s, e)) = Add("anthropic", items, role, Blocks(role, q \o r))
    BY <2>3, <2>6, <2>9, <2>11, <2>12, <2>13, <2>14 DEF b
  <2>16. AddsAll(C, role, Append(s, e))
    BY <2>2, <2>15 DEF AddsAll, items
  <2> QED
    BY <2>7, <2>16 DEF P
<1>4. Seq(R) \subseteq P
  <2> HIDE DEF P, R
  <2> QED
    BY <1>2, <1>3, SeqInduction
<1> QED
  BY <1>4

\* What the assistant's parts are written as tells what its messages tell.
LEMMA SpeechBlocks ==
  ASSUME NEW M \in Seq(RoleMessages("assistant")), NEW b, b = Blocks("assistant", AllParts("assistant", M))
  PROVE  b \in Seq(ABlocks) /\ BlocksSay("assistant", b) = Speech(M)
<1> DEFINE R == RoleMessages("assistant")
           f == PartsField("assistant")
           q == AllParts("assistant", M)
<1>1. RoleParts("assistant") = AnswerParts
  BY DEF RoleParts
<1>2. q \in Seq(AnswerParts) /\ Gives(f, R, Seq(AnswerParts))
  BY <1>1, AllPartsTyped
<1>3. b \in Seq(ABlocks)
  BY <1>1, <1>2, BlocksConcat DEF Speaking
<1>4. BlocksSay("assistant", b) = Assisted(q)
  BY <1>2, AssistantBlocks
<1>5. Chained(Speeches, f, AsTold, R)
  BY DEF Chained, Speeches, PartsField, Assisted
<1>6. Gives(AsTold, AnswerParts, Seq(Facts))
  BY PartsTell
<1> HIDE DEF R, f
<1>7. FlattenSeq(Map(AsTold, FlattenSeq(Map(f, M)))) = FlattenSeq(Map(Speeches, M))
  BY <1>2, <1>5, <1>6, FlattenTwice DEF R
<1>8. q = FlattenSeq(Map(f, M))
  BY DEF AllParts, f
<1> QED
  BY <1>3, <1>4, <1>7, <1>8 DEF Assisted, Speech

-----------------------------------------------------------------------------
\* What is read of what a user says.
UserMessages(c, results, plain) ==
  IF c = "anthropic" THEN <<Message("user", results \o plain)>> ELSE Map(Apart, results) \o Beyond(plain)
\* Its parts are the results and the rest, in one message
LEMMA PartsTogether ==
  ASSUME NEW q \in Seq(RoleParts("user"))
  PROVE  <<Message("user", q)>> \in Seq(RoleMessages("user")) /\ AllParts("user", <<Message("user", q)>>) = q
<1> DEFINE m == Message("user", q)
           S == RoleParts("user")
           f == PartsField("user")
<1>1. m \in RoleMessages("user") /\ f[m] = q
  BY DEF RoleMessages, Message, PartsField
<1> HIDE DEF m, S, f
<1>2. Map(f, <<m>>) = <<f[m]>>
  BY MapOne
<1>3. FlattenSeq(<<q>>) = q
  BY FlattenOne DEF S
<1>4. <<m>> \in Seq(RoleMessages("user"))
  BY <1>1
<1> QED
  BY <1>1, <1>2, <1>3, <1>4 DEF AllParts, m, f

\* or in several.
LEMMA PartsSeveral ==
  ASSUME NEW results \in Seq(ResultSet), NEW plain \in Seq(PlainSet),
         NEW N, N = Map(Apart, results) \o Beyond(plain)
  PROVE  N \in Seq(RoleMessages("user")) /\ AllParts("user", N) = results \o plain
<1> DEFINE R == RoleMessages("user")
           S == RoleParts("user")
           f == PartsField("user")
           a == Map(Apart, results)
           b == Beyond(plain)
           g == [p \in ResultSet |-> <<p>>]
           id == [p \in ResultSet |-> p]
<1>1. \A p \in ResultSet : Apart[p] \in R /\ f[Apart[p]] = <<p>>
  <2> SUFFICES ASSUME NEW p \in ResultSet PROVE Apart[p] \in R /\ f[Apart[p]] = <<p>>
    OBVIOUS
  <2> DEFINE q == <<p>>
  <2>1. Apart[p] = Message("user", q) /\ q \in Seq(S)
    BY DEF Apart, RoleParts
  <2> HIDE DEF q
  <2>2. Message("user", q) \in R /\ f[Message("user", q)] = q
    BY <2>1 DEF RoleMessages, Message, PartsField
  <2> QED
    BY <2>1, <2>2 DEF q
<1>2. Gives(Apart, ResultSet, R) /\ After(g, f, Apart, ResultSet) /\ Alone(g, id, ResultSet)
  BY <1>1 DEF Gives, After, Alone
<1>3. Map(id, results) = results
  <2>1. \A i \in DOMAIN results : id[results[i]] = results[i]
    BY MembersIn
  <2>2. results = [i \in DOMAIN results |-> results[i]]
    OBVIOUS
  <2> QED
    BY <2>1, <2>2 DEF Map
<1>4. PlainSet \subseteq S /\ ResultSet \subseteq S
  BY DEF RoleParts
<1>5. Gives(f, R, Seq(S))
  BY AllPartsTyped
<1> HIDE DEF g, id, f, R, S
<1>6. a \in Seq(R)
  BY <1>2, MapType
<1>7. FlattenSeq(Map(f, a)) = results
  <2>1. Map(f, a) = Map(g, results)
    BY <1>2, MapMap
  <2>2. FlattenSeq(Map(g, results)) = Map(id, results)
    BY <1>2, FlattenSingles
  <2> QED
    BY <1>3, <2>1, <2>2
<1>8. b \in Seq(R) /\ FlattenSeq(Map(f, b)) = plain
  <2>1. CASE plain = <<>>
    BY <2>1, MapEmpty, FlattenEmpty, EmptySeq DEF Beyond
  <2>2. CASE plain # <<>>
    <3>1. b = <<Message("user", plain)>>
      BY <2>2 DEF Beyond
    <3>2. plain \in Seq(RoleParts("user"))
      BY <1>4, SeqOfMore DEF S
    <3>3. <<Message("user", plain)>> \in Seq(RoleMessages("user")) /\ AllParts("user", <<Message("user", plain)>>) = plain
      BY <3>2, PartsTogether
    <3> QED
      BY <3>1, <3>3 DEF AllParts, f, R
  <2> QED
    BY <2>1, <2>2
<1> HIDE DEF a, b
<1>9. Splits(f, a, b)
  BY <1>5, <1>6, <1>8, FlattenMapConcat
<1>10. a \o b \in Seq(R)
  BY <1>6, <1>8, ConcatProperties
<1>11. N = a \o b
  BY DEF a, b
<1> QED
  BY <1>7, <1>8, <1>9, <1>10, <1>11 DEF Splits, AllParts, f, R

\* So it is for every client.
LEMMA UserPartsRead ==
  ASSUME NEW c, NEW results \in Seq(ResultSet), NEW plain \in Seq(PlainSet), NEW N, N = UserMessages(c, results, plain)
  PROVE  N \in Seq(RoleMessages("user")) /\ AllParts("user", N) = results \o plain
<1>1. results \o plain \in Seq(RoleParts("user"))
  BY UserBlocksSay
<1> DEFINE q == results \o plain
<1> HIDE DEF q
<1>2. <<Message("user", q)>> \in Seq(RoleMessages("user")) /\ AllParts("user", <<Message("user", q)>>) = q
  BY <1>1, PartsTogether DEF q
<1>3. CASE c = "anthropic"
  BY <1>2, <1>3 DEF UserMessages, q
<1>4. CASE c # "anthropic"
  BY <1>4, PartsSeveral DEF UserMessages
<1> QED
  BY <1>3, <1>4

\* For an OpenAI provider it is written item by item,
LEMMA UserWritten ==
  ASSUME NEW to \in OpenAI, NEW c, NEW results \in Seq(ResultSet), NEW plain \in Seq(PlainSet),
         results # <<>> \/ plain # <<>>,
         NEW out, out = WriteMessages(to, UserMessages(c, results, plain))
  PROVE  Sequence(out) /\ Tolds(to, out) = OutsOf("user", results, plain)
<1>1. CASE c = "anthropic"
  <2>1. out = WriteMessages(to, <<Message("user", results \o plain)>>)
    BY <1>1 DEF UserMessages
  <2> QED
    BY <2>1, UserTogether
<1>2. CASE c # "anthropic"
  <2>1. out = WriteMessages(to, Map(Apart, results) \o Beyond(plain))
    BY <1>2 DEF UserMessages
  <2> QED
    BY <2>1, UserApart
<1> QED
  BY <1>1, <1>2

\* and for Anthropic as blocks, the results first.
LEMMA UserBlocksAnswer ==
  ASSUME NEW results \in Seq(ResultSet), NEW plain \in Seq(PlainSet), NEW b, b = Blocks("user", results \o plain)
  PROVE  Answering(b, results, plain)
<1> DEFINE q == results \o plain
           S == RoleParts("user")
           h == BlockAs("user")
           n == Len(results)
           m == Len(plain)
<1>1. q \in Seq(S) /\ BlocksSay("user", b) = FlattenSeq(Map(ResultAs, results)) \o PlainSaid("user", NoId, plain)
  BY UserBlocksSay
<1>2. b \in Seq(ABlocks)
  BY <1>1, BlocksConcat DEF Speaking
<1>3. \A p \in ResultSet : h[p].type = "tool_result" /\ h[p].tool_use_id = p.id
  <2> SUFFICES ASSUME NEW p \in ResultSet
               PROVE  h[p].type = "tool_result" /\ h[p].tool_use_id = p.id
    OBVIOUS
  <2>1. p.kind = "result"
    BY DEF ResultSet
  <2>2. h[p] = BlockFor(p)
    BY DEF BlockAs, RoleParts
  <2> QED
    BY <2>1, <2>2 DEF BlockFor, ToolResult
<1>4. b = Map(h, q)
  BY DEF Blocks
<1>5. n \in Nat /\ m \in Nat /\ Len(q) = n + m /\ DOMAIN results = 1 .. n /\ \A i \in 1 .. n : q[i] = results[i]
  <2>1. ResultSet \subseteq S /\ PlainSet \subseteq S
    BY DEF RoleParts
  <2> HIDE DEF S, q, n, m
  <2>2. results \in Seq(S) /\ plain \in Seq(S)
    BY <2>1, SeqOfMore
  <2>3. /\ q \in Seq(S) /\ n \in Nat /\ m \in Nat /\ Len(q) = n + m /\ DOMAIN q = 1 .. n + m
        /\ DOMAIN results = 1 .. n /\ DOMAIN plain = 1 .. m
        /\ \A i \in 1 .. n : q[i] = results[i]
        /\ \A i \in 1 .. m : q[n + i] = plain[i]
        /\ \A i \in n + 1 .. n + m : q[i] = plain[i - n]
    BY <2>2, Joined DEF q, n, m
  <2> QED
    BY <2>3
<1> HIDE DEF q, h, n, m, S
<1>6. Len(b) = n + m /\ DOMAIN b = 1 .. n + m /\ \A i \in 1 .. n + m : b[i] = h[q[i]]
  <2>1. /\ Len(Map(h, q)) = Len(q) /\ DOMAIN Map(h, q) = 1 .. Len(q)
        /\ \A i \in 1 .. Len(q) : Map(h, q)[i] = h[q[i]]
    BY <1>1, MapAt
  <2> QED
    BY <1>4, <1>5, <2>1
<1>7. \A k \in DOMAIN results : k \in DOMAIN b /\ b[k].type = "tool_result" /\ b[k].tool_use_id = results[k].id
  <2> SUFFICES ASSUME NEW k \in DOMAIN results
               PROVE  k \in DOMAIN b /\ b[k].type = "tool_result" /\ b[k].tool_use_id = results[k].id
    OBVIOUS
  <2>1. k \in 1 .. n /\ k \in 1 .. n + m
    BY <1>5
  <2>2. b[k] = h[results[k]] /\ results[k] \in ResultSet
    BY <1>5, <1>6, <2>1, MembersIn
  <2> QED
    BY <1>3, <1>6, <2>1, <2>2
<1>8. b = <<>> <=> results = <<>> /\ plain = <<>>
  <2>1. b = <<>> <=> n + m = 0
    BY <1>2, <1>6, EmptySeq, LenProperties
  <2>2. results = <<>> <=> n = 0
    BY EmptySeq, LenProperties DEF n
  <2>3. plain = <<>> <=> m = 0
    BY EmptySeq, LenProperties DEF m
  <2> QED
    BY <1>5, <2>1, <2>2, <2>3
<1> QED
  BY <1>1, <1>2, <1>7, <1>8 DEF Answering

-----------------------------------------------------------------------------
\* How the request grows with what is said.  For an OpenAI provider: what is told later comes
\* after what was told before.
GrowsBy(p, ms, ms2, G) == Sequence(ms2) /\ Tolds(p, ms2) = Tolds(p, ms) \o G
Readied(c, p, h) == Sequence(h) /\ (p # c => Reads(c, h) \in Seq(Seq(ReadSet)))

\* A history that can be read, and what is said later.
LEMMA ReadMore ==
  ASSUME NEW c \in Protocols, NEW p, NEW h, Readied(c, p, h), NEW role \in Speaking, NEW new, Sequence(new),
         p # c => Reads(c, new) \in Seq(Seq(ReadSet)) /\ FlattenSeq(Reads(c, new)) \in Seq(RoleMessages(role))
  PROVE  /\ Readied(c, p, h \o new) /\ SysOf(c, p, h \o new) = SysOf(c, p, h)
         /\ p # c => /\ Conversation(c, h) \in Seq(ReadSet)
                     /\ Conversation(c, h \o new) = Conversation(c, h) \o FlattenSeq(Reads(c, new))
<1>1. Sequence(h) /\ Sequence(h \o new)
  BY SequencesJoin DEF Readied
<1>2. CASE p = c
  BY <1>1, <1>2 DEF Readied, SysOf
<1>3. CASE p # c
  <2> DEFINE N == FlattenSeq(Reads(c, new))
             C == Conversation(c, h)
  <2>1. Reads(c, h) \in Seq(Seq(ReadSet)) /\ Reads(c, new) \in Seq(Seq(ReadSet)) /\ N \in Seq(RoleMessages(role))
    BY <1>3 DEF Readied
  <2>2. C \in Seq(ReadSet) /\ Conversation(c, h \o new) = C \o N /\ Reads(c, h \o new) \in Seq(Seq(ReadSet))
    BY <1>1, <2>1, ConversationGrows
  <2> HIDE DEF N, C
  <2>3. WriteSystem(p, C \o N) = WriteSystem(p, C)
    BY <2>1, <2>2, SystemStays
  <2>4. SysOf(c, p, h \o new) = SysOf(c, p, h)
    BY <1>3, <2>2, <2>3 DEF SysOf, C
  <2> QED
    BY <1>1, <1>3, <2>2, <2>4 DEF Readied, C, N
<1> QED
  BY <1>2, <1>3

\* Messages that are written after others.
LEMMA WrittenMore ==
  ASSUME NEW p \in OpenAI, NEW C \in Seq(ReadSet), NEW N \in Seq(ReadSet)
  PROVE  GrowsBy(p, WriteMessages(p, C), WriteMessages(p, C \o N), Tolds(p, WriteMessages(p, N)))
<1> DEFINE a == WriteMessages(p, C)
           b == WriteMessages(p, N)
<1>1. Sequence(a) /\ Sequence(b) /\ WriteMessages(p, C \o N) = a \o b
  BY MessagesApart, ReadApart
<1> HIDE DEF a, b
<1>2. Sequence(a \o b) /\ Tolds(p, a \o b) = Tolds(p, a) \o Tolds(p, b)
  BY <1>1, ToldsConcat
<1> QED
  BY <1>1, <1>2 DEF GrowsBy, a, b

\* The user speaks,
LEMMA UserGrows ==
  ASSUME NEW p \in OpenAI, NEW c \in Protocols, NEW h, Readied(c, p, h), NEW new, NEW results, NEW plain,
         UserStep(c, new, results, plain)
  PROVE  GrowsBy(p, MsOf(c, p, h), MsOf(c, p, h \o new), OutsOf("user", results, plain))
<1>1. /\ results \in Seq(ResultSet) /\ plain \in Seq(PlainSet) /\ Sequence(new) /\ UserIsRead(c, new, results, plain)
      /\ results # <<>> \/ plain # <<>>
  BY DEF UserStep
<1>2. CASE p = c
  <2>1. Tolds(c, new) = OutsOf("user", results, plain)
    BY <1>2 DEF UserStep
  <2>2. Sequence(h) /\ MsOf(c, p, h) = h /\ MsOf(c, p, h \o new) = h \o new
    BY <1>2 DEF MsOf, Readied
  <2>3. Sequence(h \o new) /\ Tolds(p, h \o new) = Tolds(p, h) \o Tolds(p, new)
    BY <1>1, <2>2, ToldsConcat
  <2> QED
    BY <1>2, <2>1, <2>2, <2>3 DEF GrowsBy
<1>3. CASE p # c
  <2> DEFINE N == UserMessages(c, results, plain)
             C == Conversation(c, h)
  <2>1. FlattenSeq(Reads(c, new)) = N /\ Reads(c, new) \in Seq(Seq(ReadSet))
    BY <1>1 DEF UserIsRead, UserMessages
  <2>2. N \in Seq(RoleMessages("user"))
    BY <1>1, UserPartsRead
  <2>3. N \in Seq(ReadSet)
    <3> HIDE DEF N
    <3> QED
      BY <2>2, ReadApart, SeqOfMore DEF Speaking
  <2>4. Sequence(h) /\ Reads(c, h) \in Seq(Seq(ReadSet))
    BY <1>3 DEF Readied
  <2>5. C \in Seq(ReadSet) /\ Conversation(c, h \o new) = C \o N
    BY <1>1, <2>1, <2>4, ConversationGrows
  <2> DEFINE out == WriteMessages(p, N)
  <2>6. Tolds(p, out) = OutsOf("user", results, plain)
    BY <1>1, UserWritten
  <2> HIDE DEF N, C, out
  <2>7. GrowsBy(p, WriteMessages(p, C), WriteMessages(p, C \o N), Tolds(p, out))
    BY <2>3, <2>5, WrittenMore DEF out
  <2> QED
    BY <1>3, <2>5, <2>6, <2>7 DEF MsOf, C
<1> QED
  BY <1>2, <1>3

\* or an answer is kept.
Quiet(new) == \A i \in DOMAIN new : i < Len(new) => new[i].type # "function_call"
AssistantSays(p, c, new, G) ==
  /\ G \in Seq(Seq(Voice)) /\ Agrees(p, FlattenSeq(G), TellsAll(c, new))
  /\ p = "chat" /\ (c = "responses" => Quiet(new)) => CallsLast(G)

\* What it tells in the client's own protocol,
LEMMA OwnSays ==
  ASSUME NEW c \in OpenAI, NEW new, AssistantStep(c, new)
  PROVE  AssistantSays(c, c, new, Tolds(c, new))
<1> DEFINE G == Tolds(c, new)
<1>1. new \in Seq(KeptMessages(c)) /\ c \in Protocols
  BY DEF AssistantStep, OpenAI, Protocols
<1>2. DOMAIN new = 1 .. Len(new) /\ Len(new) \in Nat
  BY <1>1, LenProperties
<1>3. \A i \in DOMAIN new : Told(c, new[i]) \in Seq(Voice)
  BY <1>1, MembersIn, KeptVoice
<1>4. G \in Seq(Seq(Voice)) /\ Len(G) = Len(new)
  BY <1>2, <1>3 DEF Tolds
<1>5. TellsAll(c, new) = FlattenSeq(G)
  BY TellsAllOf
<1>6. c = "chat" => Len(G) <= 1
  BY <1>4 DEF AssistantStep
<1> HIDE DEF G
<1>7. Agrees(c, FlattenSeq(G), TellsAll(c, new))
  BY <1>5, AlikeItself
<1>8. c = "chat" => CallsLast(G)
  BY <1>4, <1>6, OneCallsLast
<1> QED
  BY <1>4, <1>7, <1>8 DEF AssistantSays, G

\* What is read of each item tells what the item tells.
LEMMA SpeechAt ==
  ASSUME NEW c, NEW new, NEW M, AssistantRead(c, new, M)
  PROVE  \A i \in 1 .. Len(M) : Map(Speeches, M)[i] = Speeches[M[i]]
<1>1. M \in Seq(RoleMessages("assistant"))
  BY DEF AssistantRead
<1> QED
  BY <1>1, MapAt

EndsIn(M, f, e) == M = Append(f, e)
\* What several kept items call: only the last may, if none before it is a call.
LEMMA QuietCalls ==
  ASSUME NEW new \in Seq(KeptMessages("responses")), Quiet(new), NEW M, AssistantRead("responses", new, M),
         NEW f \in Seq(RoleMessages("assistant")), NEW e \in RoleMessages("assistant"), EndsIn(M, f, e)
  PROVE  CallsIn(Speech(f)) = <<>>
<1> DEFINE R == RoleMessages("assistant")
           n == Len(f)
           G == Map(Speeches, f)
<1>1. n \in Nat /\ Len(M) = n + 1 /\ Len(new) = n + 1 /\ \A i \in 1 .. n : M[i] = f[i]
  BY AppendProperties, LenProperties DEF AssistantRead, EndsIn
<1>2. DOMAIN new = 1 .. n + 1 /\ \A i \in 1 .. n + 1 : new[i] \in ResponsesKept
  BY <1>1, MembersIn, LenProperties DEF KeptMessages
<1>3. Map(Speeches, M) = Tolds("responses", new) /\ M \in Seq(R)
  BY DEF AssistantRead
<1>4. Gives(Speeches, R, Seq(AllFacts))
  BY SpeechesTell
<1> HIDE DEF R
<1>5. G \in Seq(Seq(AllFacts)) /\ DOMAIN G = 1 .. n /\ \A i \in 1 .. n : G[i] = Speeches[f[i]]
  BY <1>4, MapType, MapAt DEF R
<1>6. \A i \in 1 .. Len(M) : Map(Speeches, M)[i] = Speeches[M[i]]
  BY SpeechAt
<1>7. \A i \in 1 .. n : CallsIn(G[i]) = <<>>
  <2> SUFFICES ASSUME NEW i \in 1 .. n PROVE CallsIn(G[i]) = <<>>
    OBVIOUS
  <2>1. i \in 1 .. n + 1 /\ i < n + 1 /\ M[i] = f[i]
    BY <1>1
  <2>2. G[i] = Told("responses", new[i])
    <3>1. G[i] = Map(Speeches, M)[i]
      BY <1>1, <1>5, <1>6, <2>1
    <3>2. Tolds("responses", new)[i] = Told("responses", new[i])
      BY <1>2, <2>1 DEF Tolds
    <3> QED
      BY <1>3, <3>1, <3>2
  <2>3. CallsIn(Told("responses", new[i])) = ItemCalls(new[i])
    BY <1>2, <2>1, ItemsCall
  <2>4. ItemCalls(new[i]) = <<>>
    BY <1>1, <1>2, <2>1 DEF Quiet, ItemCalls
  <2> QED
    BY <2>2, <2>3, <2>4
<1> HIDE DEF G
<1>8. CallsIn(FlattenSeq(G)) = <<>>
  BY <1>5, <1>7, NoCallsAtAll
<1> QED
  BY <1>8 DEF Speech, G

\* and converted.
LEMMA ConvertedSays ==
  ASSUME NEW p \in OpenAI, NEW c \in Protocols, NEW new, AssistantStep(c, new), NEW M, AssistantRead(c, new, M)
  PROVE  AssistantSays(p, c, new, Tolds(p, WriteMessages(p, M)))
<1> DEFINE out == WriteMessages(p, M)
           G == Tolds(p, out)
           R == RoleMessages("assistant")
<1>1. M \in Seq(R) /\ Len(M) = Len(new) /\ Map(Speeches, M) = Tolds(c, new)
  BY DEF AssistantRead
<1>2. SpeechOut(p, M, out)
  BY <1>1, SpeechWritten
<1>3. Speech(M) = TellsAll(c, new)
  BY <1>1, TellsAllOf DEF Speech
<1>4. Len(G) = Len(out) /\ Len(out) \in Nat
  <2>1. Sequence(out)
    BY <1>2 DEF SpeechOut
  <2>2. DOMAIN out = 1 .. Len(out) /\ Len(out) \in Nat
    BY <2>1, LenProperties DEF Sequence
  <2> HIDE DEF out
  <2> QED
    BY <2>2 DEF Tolds
<1>5. G \in Seq(Seq(Voice)) /\ Agrees(p, FlattenSeq(G), TellsAll(c, new)) /\ (p = "chat" => Len(G) <= Len(M))
  BY <1>2, <1>3, <1>4 DEF SpeechOut
<1>6. p = "chat" /\ (c = "responses" => Quiet(new)) => CallsLast(G)
  <2> SUFFICES ASSUME p = "chat", c = "responses" => Quiet(new)
               PROVE  CallsLast(G)
    OBVIOUS
  <2>1. CASE M = <<>>
    <3>1. Len(G) <= 1
      BY <1>4, <1>5, <2>1
    <3> HIDE DEF G
    <3> QED
      BY <1>5, <3>1, OneCallsLast
  <2>2. CASE M # <<>> /\ c = "responses"
    <3>1. PICK f \in Seq(R), e \in R : M = Append(f, e)
      <4> HIDE DEF R
      <4> QED
        BY <1>1, <2>2, Ended
    <3>2. new \in Seq(KeptMessages("responses")) /\ Quiet(new) /\ AssistantRead("responses", new, M)
      BY <2>2 DEF AssistantStep
    <3>3. CallsIn(Speech(f)) = <<>>
      BY <3>1, <3>2, QuietCalls DEF EndsIn
    <3> QED
      BY <3>1, <3>3, QuietSpeech
  <2>3. CASE c # "responses"
    <3>1. Len(new) <= 1
      BY <2>3 DEF AssistantStep
    <3>2. Len(M) \in Nat
      BY <1>1, LenProperties
    <3>3. Len(G) <= 1
      BY <1>1, <1>4, <1>5, <3>1, <3>2
    <3> HIDE DEF G
    <3> QED
      BY <1>5, <3>3, OneCallsLast
  <2> QED
    BY <2>1, <2>2, <2>3
<1> HIDE DEF G
<1> QED
  BY <1>5, <1>6 DEF AssistantSays, G

\* So the request grows.
LEMMA AssistantGrows ==
  ASSUME NEW p \in OpenAI, NEW c \in Protocols, NEW h, Readied(c, p, h), NEW new, AssistantStep(c, new),
         p # c => Readables(c, new)
  PROVE  \E G : GrowsBy(p, MsOf(c, p, h), MsOf(c, p, h \o new), G) /\ AssistantSays(p, c, new, G)
<1>1. new \in Seq(KeptMessages(c)) /\ Sequence(new)
  BY IsSequence DEF AssistantStep
<1>2. CASE p = c
  <2>1. Sequence(h) /\ MsOf(c, p, h) = h /\ MsOf(c, p, h \o new) = h \o new
    BY <1>2 DEF MsOf, Readied
  <2>2. Sequence(h \o new) /\ Tolds(p, h \o new) = Tolds(p, h) \o Tolds(p, new)
    BY <1>1, <2>1, ToldsConcat
  <2>3. AssistantSays(p, c, new, Tolds(p, new))
    BY <1>2, OwnSays
  <2> QED
    BY <2>1, <2>2, <2>3 DEF GrowsBy
<1>3. CASE p # c
  <2>1. PICK N : AssistantRead(c, new, N)
    BY <1>1, <1>3, SpokenRead
  <2> DEFINE C == Conversation(c, h)
  <2>2. N \in Seq(RoleMessages("assistant")) /\ FlattenSeq(Reads(c, new)) = N /\ Reads(c, new) \in Seq(Seq(ReadSet))
    BY <2>1 DEF AssistantRead
  <2>3. N \in Seq(ReadSet)
    BY <2>2, ReadApart, SeqOfMore DEF Speaking
  <2>4. Sequence(h) /\ Reads(c, h) \in Seq(Seq(ReadSet))
    BY <1>3 DEF Readied
  <2>5. C \in Seq(ReadSet) /\ Conversation(c, h \o new) = C \o N
    BY <1>1, <2>2, <2>4, ConversationGrows
  <2> DEFINE G == Tolds(p, WriteMessages(p, N))
  <2>6. AssistantSays(p, c, new, G)
    BY <2>1, ConvertedSays
  <2> HIDE DEF C, G
  <2>7. GrowsBy(p, WriteMessages(p, C), WriteMessages(p, C \o N), G)
    BY <2>3, <2>5, WrittenMore DEF G
  <2>8. GrowsBy(p, MsOf(c, p, h), MsOf(c, p, h \o new), G)
    BY <1>3, <2>5, <2>7 DEF MsOf, C
  <2> QED
    BY <2>6, <2>8
<1> QED
  BY <1>2, <1>3

-----------------------------------------------------------------------------
\* For Anthropic: blocks of the role are added to the last message, or are a message of their own.
Grown(ms, role, B, ms2) ==
  \/ B = <<>> /\ ms2 = ms
  \/ \E f \in Seq(AMessages), x \in Seq(ABlocks) :
       ms = Append(f, AMessage(role, x)) /\ ms2 = Append(f, AMessage(role, x \o B))
  \/ B # <<>> /\ ms2 = Append(ms, AMessage(role, B))
Grows(c, ms, role, B, ms2) == Grown(ms, role, B, ms2) /\ (c # "anthropic" => Adds(ms, role, B, ms2))

\* What is read of one role is added.
LEMMA AddedGrows ==
  ASSUME NEW c \in Protocols, c # "anthropic", NEW h, Readied(c, "anthropic", h), NEW new, Sequence(new),
         NEW role \in Speaking, NEW N \in Seq(RoleMessages(role)), FlattenSeq(Reads(c, new)) = N,
         Reads(c, new) \in Seq(Seq(ReadSet)), MsOf(c, "anthropic", h) \in Seq(AMessages),
         NEW b, b = Blocks(role, AllParts(role, N))
  PROVE  b \in Seq(ABlocks) /\ Grows(c, MsOf(c, "anthropic", h), role, b, MsOf(c, "anthropic", h \o new))
<1> DEFINE C == Conversation(c, h)
           ms == WriteMessages("anthropic", C)
           ms2 == WriteMessages("anthropic", C \o N)
<1>1. Sequence(h) /\ Reads(c, h) \in Seq(Seq(ReadSet))
  BY DEF Readied
<1>2. C \in Seq(ReadSet) /\ Conversation(c, h \o new) = C \o N
  BY <1>1, ConversationGrows
<1>3. MsOf(c, "anthropic", h) = ms /\ MsOf(c, "anthropic", h \o new) = ms2
  BY <1>2 DEF MsOf
<1>4. ms \in Seq(AMessages)
  BY <1>3
<1>5. b \in Seq(ABlocks)
  BY AllPartsTyped, BlocksConcat
<1> HIDE DEF C
<1>6. ms2 = Add("anthropic", ms, role, b)
  BY <1>2, <1>4, AllAdded DEF AddsAll
<1> HIDE DEF ms, ms2
<1>7. Adds(ms, role, b, ms2)
  BY <1>4, <1>5, <1>6, AddAdds DEF Speaking
<1>8. Grown(ms, role, b, ms2)
  BY <1>7 DEF Adds, Grown
<1> QED
  BY <1>3, <1>5, <1>7, <1>8 DEF Grows

\* The user speaks,
LEMMA AnthropicUser ==
  ASSUME NEW c \in Protocols, NEW h, Readied(c, "anthropic", h), MsOf(c, "anthropic", h) \in Seq(AMessages),
         NEW new, NEW results, NEW plain, UserStep(c, new, results, plain)
  PROVE  \E B : /\ Answering(B, results, plain) /\ B # <<>>
                /\ Grows(c, MsOf(c, "anthropic", h), "user", B, MsOf(c, "anthropic", h \o new))
<1>1. /\ results \in Seq(ResultSet) /\ plain \in Seq(PlainSet) /\ Sequence(new) /\ UserIsRead(c, new, results, plain)
      /\ results # <<>> \/ plain # <<>>
  BY DEF UserStep
<1>2. \A B : Answering(B, results, plain) => B # <<>>
  BY <1>1 DEF Answering
<1>3. CASE c = "anthropic"
  <2>1. PICK B : new = <<AMessage("user", B)>> /\ Answering(B, results, plain)
    BY <1>3 DEF UserStep
  <2> DEFINE m == AMessage("user", B)
  <2>2. MsOf(c, "anthropic", h) = h /\ MsOf(c, "anthropic", h \o new) = h \o new
    BY <1>3 DEF MsOf
  <2>3. h \in Seq(AMessages) /\ B \in Seq(ABlocks)
    BY <2>1, <2>2 DEF Answering
  <2>4. m \in AMessages
    BY <2>3 DEF AMessages, AMessage
  <2> HIDE DEF m
  <2>5. h \o <<m>> = Append(h, m)
    BY <2>3, <2>4, AppendIsConcat
  <2>6. Grown(h, "user", B, h \o new)
    BY <1>2, <2>1, <2>5 DEF Grown, m
  <2> QED
    BY <1>2, <1>3, <2>1, <2>2, <2>6 DEF Grows
<1>4. CASE c # "anthropic"
  <2> DEFINE N == UserMessages(c, results, plain)
             B == Blocks("user", AllParts("user", N))
  <2>1. FlattenSeq(Reads(c, new)) = N /\ Reads(c, new) \in Seq(Seq(ReadSet))
    BY <1>1 DEF UserIsRead, UserMessages
  <2>2. N \in Seq(RoleMessages("user")) /\ AllParts("user", N) = results \o plain
    <3>1. results \in Seq(ResultSet) /\ plain \in Seq(PlainSet) /\ N = UserMessages(c, results, plain)
      BY <1>1
    <3> HIDE DEF N
    <3> QED
      BY <3>1, UserPartsRead
  <2>3. B = Blocks("user", results \o plain)
    BY <2>2
  <2> HIDE DEF N, B
  <2>4. Answering(B, results, plain)
    BY <1>1, <2>3, UserBlocksAnswer
  <2>5. Grows(c, MsOf(c, "anthropic", h), "user", B, MsOf(c, "anthropic", h \o new))
    BY <1>1, <1>4, <2>1, <2>2, AddedGrows DEF Speaking, B
  <2> QED
    BY <1>2, <2>4, <2>5
<1> QED
  BY <1>3, <1>4

\* or an answer is kept.
LEMMA AnthropicAssistant ==
  ASSUME NEW c \in Protocols, NEW h, Readied(c, "anthropic", h), MsOf(c, "anthropic", h) \in Seq(AMessages),
         NEW new, AssistantStep(c, new), c # "anthropic" => Readables(c, new)
  PROVE  \E B \in Seq(ABlocks) :
           /\ BlocksSay("assistant", B) = TellsAll(c, new)
           /\ Grows(c, MsOf(c, "anthropic", h), "assistant", B, MsOf(c, "anthropic", h \o new))
<1>1. new \in Seq(KeptMessages(c)) /\ Sequence(new)
  BY IsSequence DEF AssistantStep
<1>2. TellsAll(c, new) = FlattenSeq(Tolds(c, new))
  BY TellsAllOf
<1>3. CASE c = "anthropic"
  <2>1. MsOf(c, "anthropic", h) = h /\ MsOf(c, "anthropic", h \o new) = h \o new /\ h \in Seq(AMessages)
    BY <1>3 DEF MsOf
  <2>2. new \in Seq(AnthropicKept) /\ Len(new) <= 1 /\ \A i \in DOMAIN new : new[i].content # <<>>
    BY <1>1, <1>3 DEF AssistantStep, KeptMessages
  <2>3. CASE new = <<>>
    <3>1. h \o new = h
      BY <2>1, <2>3, ConcatEmptySeq
    <3>2. Tolds(c, new) = <<>>
      BY <2>3 DEF Tolds
    <3>3. TellsAll(c, new) = <<>>
      BY <1>2, <3>2, FlattenEmpty
    <3>4. <<>> \in Seq(ABlocks) /\ BlocksSay("assistant", <<>>) = <<>>
      BY BlocksTell, EmptySeq DEF Speaking
    <3>5. Grown(h, "assistant", <<>>, h \o new)
      BY <3>1 DEF Grown
    <3>6. Grows(c, MsOf(c, "anthropic", h), "assistant", <<>>, MsOf(c, "anthropic", h \o new))
      BY <1>3, <2>1, <3>5 DEF Grows
    <3> QED
      BY <3>3, <3>4, <3>6
  <2>4. CASE new # <<>>
    <3> DEFINE m == new[1]
               B == m.content
    <3>1. Len(new) = 1 /\ new = <<m>> /\ m \in AnthropicKept /\ 1 \in DOMAIN new
      <4>1. Len(new) \in Nat /\ DOMAIN new = 1 .. Len(new) /\ (Len(new) = 0 => new = <<>>)
        BY <2>2, EmptySeq, LenProperties
      <4>2. Len(new) = 1
        BY <2>2, <2>4, <4>1
      <4>3. 1 \in DOMAIN new
        BY <4>1, <4>2
      <4>4. new[1] \in AnthropicKept
        BY <2>2, <4>3, MembersIn
      <4>5. new = <<new[1]>>
        BY <2>2, <4>2
      <4> QED
        BY <4>2, <4>3, <4>4, <4>5
    <3>2. B # <<>> /\ m = AMessage("assistant", B) /\ B \in Seq(AnswerBlocks \cup OpaqueBlock)
      BY <2>2, <3>1 DEF AnthropicKept, AMessage
    <3>3. AnswerBlocks \cup OpaqueBlock \subseteq ABlocks
      BY DEF ABlocks
    <3> HIDE DEF m, B
    <3>4. B \in Seq(ABlocks)
      BY <3>2, <3>3, SeqOfMore
    <3>5. m \in AMessages
      BY <3>2, <3>4 DEF AMessages, AMessage
    <3>6. h \o <<m>> = Append(h, m)
      BY <2>1, <3>5, AppendIsConcat
    <3>7. Grown(h, "assistant", B, h \o new)
      BY <3>1, <3>2, <3>6 DEF Grown
    <3>8. Told("anthropic", m) = BlocksSay("assistant", B) /\ BlocksSay("assistant", B) \in Seq(AllFacts)
      BY <3>2, <3>4, BlocksTell DEF Speaking
    <3> DEFINE t == BlocksSay("assistant", B)
    <3>9. Tolds(c, new) = <<t>>
      BY <1>3, <3>1, <3>8 DEF Tolds
    <3> HIDE DEF t
    <3>10. TellsAll(c, new) = t
      <4>1. t \in Seq(AllFacts)
        BY <3>8 DEF t
      <4>2. FlattenSeq(<<t>>) = t
        BY <4>1, FlattenOne
      <4> QED
        BY <1>2, <3>9, <4>2
    <3>11. Grows(c, MsOf(c, "anthropic", h), "assistant", B, MsOf(c, "anthropic", h \o new))
      BY <1>3, <2>1, <3>7 DEF Grows
    <3> QED
      BY <3>4, <3>10, <3>11 DEF t
  <2> QED
    BY <2>3, <2>4
<1>4. CASE c # "anthropic"
  <2>1. PICK N : AssistantRead(c, new, N)
    BY <1>1, <1>4, SpokenRead
  <2> DEFINE B == Blocks("assistant", AllParts("assistant", N))
  <2>2. /\ N \in Seq(RoleMessages("assistant")) /\ FlattenSeq(Reads(c, new)) = N
        /\ Reads(c, new) \in Seq(Seq(ReadSet)) /\ Map(Speeches, N) = Tolds(c, new)
    BY <2>1 DEF AssistantRead
  <2> HIDE DEF B
  <2>3. B \in Seq(ABlocks) /\ BlocksSay("assistant", B) = Speech(N)
    BY <2>2, SpeechBlocks DEF B
  <2>4. Grows(c, MsOf(c, "anthropic", h), "assistant", B, MsOf(c, "anthropic", h \o new))
    BY <1>1, <1>4, <2>2, AddedGrows DEF Speaking, B
  <2>5. BlocksSay("assistant", B) = TellsAll(c, new)
    BY <1>2, <2>2, <2>3 DEF Speech
  <2> QED
    BY <2>3, <2>4, <2>5
<1> QED
  BY <1>3, <1>4

-----------------------------------------------------------------------------
\* What the messages of a request answer.  Words of a result answer its call,
LEMMA ResultReplies ==
  ASSUME NEW id \in Int, NEW s \in Seq(FactsOf("result", id)), s # <<>>
  PROVE  Replies(s) = {id}
<1>1. DOMAIN s = 1 .. Len(s) /\ Len(s) \in Nat /\ 1 \in DOMAIN s
  BY EmptySeq, LenProperties
<1>2. \A i \in DOMAIN s : s[i].by = "result" /\ s[i].of = id
  BY MembersIn DEF FactsOf
<1> QED
  BY <1>1, <1>2 DEF Replies, ToSet

\* and nobody else's words answer any.
LEMMA NoReplies ==
  ASSUME NEW S, NEW s \in Seq(S), \A f \in S : f.by # "result"
  PROVE  Replies(s) = {}
<1>1. \A i \in DOMAIN s : s[i].by # "result"
  BY MembersIn
<1> QED
  BY <1>1 DEF Replies, ToSet

\* What the user says answers the calls in their order.
UserReplies(G, ids) ==
  /\ G \in Seq(Seq(AllFacts)) /\ Len(ids) <= Len(G)
  /\ \A k \in DOMAIN G : /\ CallsIn(G[k]) = <<>>
                         /\ Replies(G[k]) = IF k <= Len(ids) THEN {ids[k]} ELSE {}

\* The results come first, one message for each, and what is plain after them.
LEMMA OutsReply ==
  ASSUME NEW results \in Seq(ResultSet), NEW plain \in Seq(PlainSet), NEW ids \in Seq(Nat), Answers2(results, ids),
         \A i \in DOMAIN results : ResultWords(results[i]) # <<>>
  PROVE  UserReplies(OutsOf("user", results, plain), ids)
<1> DEFINE a == Map(ResultAs, results)
           t == PlainSaid("user", NoId, plain)
           b == IF plain = <<>> THEN <<>> ELSE <<t>>
           n == Len(results)
           m == Len(b)
           c == a \o b
<1>1. n \in Nat /\ DOMAIN results = 1 .. n /\ Len(ids) = n /\ \A i \in 1 .. n : results[i].id = ids[i] /\ results[i] \in ResultSet
  <2>1. n \in Nat /\ DOMAIN results = 1 .. n /\ Len(ids) = n /\ DOMAIN ids = 1 .. n
    BY LenProperties DEF Answers2
  <2> QED
    BY <2>1, MembersIn DEF Answers2
<1>2. Gives(ResultAs, ResultSet, Seq(AllFacts))
  BY ResultTold DEF Gives, ResultAs
<1>3. a \in Seq(Seq(AllFacts)) /\ Len(a) = n /\ \A i \in 1 .. n : a[i] = ResultWords(results[i])
  <2>1. Len(a) = n /\ \A i \in 1 .. n : a[i] = ResultAs[results[i]]
    BY MapAt
  <2>2. a \in Seq(Seq(AllFacts))
    BY <1>2, MapType
  <2> HIDE DEF a
  <2> QED
    BY <1>1, <2>1, <2>2 DEF ResultAs
<1>4. t \in Seq(FactsBy("user")) /\ t \in Seq(AllFacts)
  <2>1. t \in Seq(FactsOf("user", NoId))
    BY PlainBy DEF Whos, NoId
  <2>2. t \in Seq(FactsBy("user"))
    BY <2>1, PlainBy DEF Whos, NoId
  <2> HIDE DEF t
  <2> QED
    BY <2>2, ByOne
<1>5. CallsIn(t) = <<>> /\ Replies(t) = {}
  <2> HIDE DEF t
  <2> QED
    <3>1. CallsIn(t) = <<>>
      BY <1>4, ByOne
    <3>2. \A f \in FactsBy("user") : f.by # "result"
      BY DEF FactsBy
    <3>3. Replies(t) = {}
      BY <1>4, <3>2, NoReplies
    <3> QED
      BY <3>1, <3>3
<1> HIDE DEF t
<1>6. b \in Seq(Seq(AllFacts)) /\ m \in Nat /\ \A i \in 1 .. m : b[i] = t
  <2>1. CASE plain = <<>>
    BY <2>1, EmptySeq
  <2>2. CASE plain # <<>>
    <3>1. b = <<t>>
      BY <2>2
    <3> QED
      BY <1>4, <3>1
  <2> QED
    BY <2>1, <2>2
<1>7. \A i \in 1 .. n : CallsIn(a[i]) = <<>> /\ Replies(a[i]) = {ids[i]}
  <2> SUFFICES ASSUME NEW i \in 1 .. n PROVE CallsIn(a[i]) = <<>> /\ Replies(a[i]) = {ids[i]}
    OBVIOUS
  <2> DEFINE p == results[i]
             w == ResultWords(p)
  <2>1. a[i] = w /\ p \in ResultSet /\ p.id = ids[i] /\ w # <<>>
    BY <1>1, <1>3
  <2> HIDE DEF p
  <2>2. w \in Seq(FactsOf("result", p.id)) /\ p.id \in Int
    BY <2>1, ResultBy DEF ResultSet
  <2> HIDE DEF w
  <2>3. Replies(w) = {p.id}
    BY <2>1, <2>2, ResultReplies
  <2>4. w \in Seq(FactsBy("result"))
    BY <2>2, PlainBy DEF Whos
  <2>5. CallsIn(w) = <<>>
    BY <2>4, ByOne
  <2> QED
    BY <2>1, <2>3, <2>5
<1> HIDE DEF a, b, n, m, c
<1>8. /\ c \in Seq(Seq(AllFacts)) /\ n \in Nat /\ m \in Nat /\ Len(c) = n + m /\ DOMAIN c = 1 .. n + m
      /\ DOMAIN a = 1 .. n /\ DOMAIN b = 1 .. m
      /\ \A i \in 1 .. n : c[i] = a[i]
      /\ \A i \in 1 .. m : c[n + i] = b[i]
      /\ \A i \in n + 1 .. n + m : c[i] = b[i - n]
  <2> DEFINE S == Seq(AllFacts)
  <2>1. n = Len(a) /\ m = Len(b) /\ c = a \o b /\ a \in Seq(S) /\ b \in Seq(S)
    BY <1>3, <1>6 DEF m, c
  <2> HIDE DEF S
  <2>2. /\ c \in Seq(S) /\ n \in Nat /\ m \in Nat /\ Len(c) = n + m /\ DOMAIN c = 1 .. n + m
        /\ DOMAIN a = 1 .. n /\ DOMAIN b = 1 .. m
        /\ \A i \in 1 .. n : c[i] = a[i]
        /\ \A i \in 1 .. m : c[n + i] = b[i]
        /\ \A i \in n + 1 .. n + m : c[i] = b[i - n]
    BY <2>1, Joined
  <2> QED
    BY <2>2 DEF S
<1>9. \A k \in DOMAIN c : CallsIn(c[k]) = <<>> /\ Replies(c[k]) = IF k <= n THEN {ids[k]} ELSE {}
  <2> SUFFICES ASSUME NEW k \in DOMAIN c
               PROVE  CallsIn(c[k]) = <<>> /\ Replies(c[k]) = IF k <= n THEN {ids[k]} ELSE {}
    OBVIOUS
  <2>1. CASE k <= n
    BY <1>7, <1>8, <2>1
  <2>2. CASE ~ k <= n
    <3>1. k \in n + 1 .. n + m /\ k - n \in 1 .. m
      BY <1>8, <2>2
    <3>2. c[k] = t
      BY <1>6, <1>8, <3>1
    <3> QED
      BY <1>5, <2>2, <3>2
  <2> QED
    BY <2>1, <2>2
<1>10. OutsOf("user", results, plain) = c
  BY DEF OutsOf, c, a, b, t
<1>11. Len(ids) = n /\ n <= Len(c)
  BY <1>1, <1>8
<1> QED
  BY <1>8, <1>9, <1>10, <1>11 DEF UserReplies

\* What the assistant says answers nothing.
LEMMA VoiceReplies ==
  ASSUME NEW G \in Seq(Seq(Voice))
  PROVE  G \in Seq(Seq(AllFacts)) /\ \A k \in DOMAIN G : Replies(G[k]) = {}
<1>1. Voice \subseteq AllFacts /\ \A f \in Voice : f.by # "result"
  BY DEF Voice
<1>2. Seq(Voice) \subseteq Seq(AllFacts)
  BY VoiceOf
<1>3. G \in Seq(Seq(AllFacts))
  BY <1>2, SeqOfMore
<1>4. \A k \in DOMAIN G : G[k] \in Seq(Voice)
  BY MembersIn
<1>5. \A s \in Seq(Voice) : Replies(s) = {}
  BY <1>1, NoReplies
<1> QED
  BY <1>3, <1>4, <1>5

\* Two sequences of what is told, one after the other.
Joins(F, G, H, n, m) ==
  /\ H \in Seq(Seq(AllFacts)) /\ n \in Nat /\ m \in Nat /\ n = Len(F) /\ m = Len(G) /\ Len(H) = n + m
  /\ DOMAIN H = 1 .. n + m /\ DOMAIN F = 1 .. n /\ DOMAIN G = 1 .. m
  /\ \A i \in 1 .. n : H[i] = F[i]
  /\ \A i \in 1 .. m : H[n + i] = G[i]

\* The joined sequence, with its lengths and its members.
LEMMA FactsJoin ==
  ASSUME NEW F \in Seq(Seq(AllFacts)), NEW G \in Seq(Seq(AllFacts))
  PROVE  \E H, n, m : H = F \o G /\ Joins(F, G, H, n, m)
<1> DEFINE S == Seq(AllFacts)
           n == Len(F)
           m == Len(G)
           H == F \o G
<1>1. F \in Seq(S) /\ G \in Seq(S)
  OBVIOUS
<1> HIDE DEF S, n, m, H
<1>2. /\ H \in Seq(S) /\ n \in Nat /\ m \in Nat /\ Len(H) = n + m /\ DOMAIN H = 1 .. n + m
      /\ DOMAIN F = 1 .. n /\ DOMAIN G = 1 .. m
      /\ \A i \in 1 .. n : H[i] = F[i]
      /\ \A i \in 1 .. m : H[n + i] = G[i]
      /\ \A i \in n + 1 .. n + m : H[i] = G[i - n]
  BY <1>1, Joined DEF n, m, H
<1>3. Joins(F, G, H, n, m)
  BY <1>2 DEF Joins, S, n, m
<1> QED
  BY <1>3 DEF H

-----------------------------------------------------------------------------
\* Every call is answered once, but for those the client still has to answer.  F is what each
\* message tells, cl the calls that are open, w the words said so far.
AnsweredOnce(F, i, id) ==
  \E j \in i + 1 .. Len(F) : \A l \in i + 1 .. Len(F) : Replies(F[l]) = {id} <=> l = j
Once(F, cl, w) ==
  /\ \A j \in DOMAIN F : Replies(F[j]) \subseteq 1 .. w
  /\ \A i \in DOMAIN F : \A id \in ToSet(CallsIn(F[i])) :
       /\ id \in 1 .. w
       /\ id \in ToSet(cl) => \A j \in DOMAIN F : Replies(F[j]) # {id}
       /\ id \notin ToSet(cl) => AnsweredOnce(F, i, id)
Distinct(ids) == \A i, j \in DOMAIN ids : ids[i] = ids[j] => i = j

\* The user answers every open call once,
LEMMA OnceUser ==
  ASSUME NEW F \in Seq(Seq(AllFacts)), NEW cl \in Seq(Nat), Distinct(cl), NEW w \in Nat, ToSet(cl) \subseteq 1 .. w,
         NEW w2 \in Nat, w2 >= w, Once(F, cl, w), NEW G, UserReplies(G, cl)
  PROVE  Once(F \o G, <<>>, w2)
<1>1. G \in Seq(Seq(AllFacts))
  BY DEF UserReplies
<1>2. PICK H, n, m : H = F \o G /\ Joins(F, G, H, n, m)
  BY <1>1, FactsJoin
<1>3. DOMAIN cl = 1 .. Len(cl) /\ Len(cl) \in Nat /\ Len(cl) <= m
  BY <1>2, LenProperties DEF UserReplies, Joins
<1>4. \A k \in 1 .. m : CallsIn(G[k]) = <<>> /\ Replies(G[k]) = IF k <= Len(cl) THEN {cl[k]} ELSE {}
  BY <1>2 DEF UserReplies, Joins
<1>5. \A k \in 1 .. Len(cl) : cl[k] \in 1 .. w /\ cl[k] \in ToSet(cl)
  BY <1>3 DEF ToSet
<1>6. \A j \in DOMAIN H : Replies(H[j]) \subseteq 1 .. w2
  <2> SUFFICES ASSUME NEW j \in DOMAIN H PROVE Replies(H[j]) \subseteq 1 .. w2
    OBVIOUS
  <2>1. CASE j <= n
    <3>1. j \in DOMAIN F /\ H[j] = F[j]
      BY <1>2, <2>1 DEF Joins
    <3>2. Replies(F[j]) \subseteq 1 .. w
      BY <3>1 DEF Once
    <3> QED
      BY <3>1, <3>2
  <2>2. CASE ~ j <= n
    <3>1. j - n \in 1 .. m /\ H[j] = G[j - n]
      <4>1. j \in 1 .. n + m /\ n \in Nat /\ m \in Nat
        BY <1>2 DEF Joins
      <4>2. j - n \in 1 .. m /\ n + (j - n) = j
        BY <2>2, <4>1
      <4> QED
        BY <1>2, <4>2 DEF Joins
    <3>2. Replies(G[j - n]) \subseteq 1 .. w
      <4> DEFINE k == j - n
      <4>1. k \in 1 .. m /\ Replies(G[k]) = IF k <= Len(cl) THEN {cl[k]} ELSE {}
        BY <1>4, <3>1
      <4> HIDE DEF k
      <4>2. k <= Len(cl) => k \in 1 .. Len(cl)
        BY <1>3, <4>1
      <4>3. k <= Len(cl) => cl[k] \in 1 .. w
        BY <1>5, <4>2
      <4>4. Replies(G[k]) \subseteq 1 .. w
        BY <4>1, <4>3
      <4> QED
        BY <4>4 DEF k
    <3> QED
      BY <3>1, <3>2
  <2> QED
    BY <2>1, <2>2
<1>7. ASSUME NEW i \in DOMAIN H, NEW id \in ToSet(CallsIn(H[i]))
      PROVE  id \in 1 .. w2 /\ AnsweredOnce(H, i, id)
  <2>1. i \in 1 .. n + m /\ n \in Nat /\ m \in Nat /\ Len(H) = n + m /\ DOMAIN F = 1 .. n
    BY <1>2 DEF Joins
  <2>2. i <= n
    <3> SUFFICES ASSUME ~ i <= n PROVE FALSE
      OBVIOUS
    <3>1. i - n \in 1 .. m /\ n + (i - n) = i
      BY <2>1
    <3>2. H[i] = G[i - n]
      BY <1>2, <3>1 DEF Joins
    <3>3. CallsIn(H[i]) = <<>>
      BY <1>4, <3>1, <3>2
    <3> QED
      BY <3>3 DEF ToSet
  <2>3. i \in DOMAIN F /\ H[i] = F[i]
    BY <1>2, <2>1, <2>2 DEF Joins
  <2>4. /\ id \in 1 .. w
        /\ id \in ToSet(cl) => \A j \in DOMAIN F : Replies(F[j]) # {id}
        /\ id \notin ToSet(cl) => AnsweredOnce(F, i, id)
    BY <2>3 DEF Once
  <2>5. \A l \in i + 1 .. n : l \in DOMAIN F /\ H[l] = F[l]
    BY <1>2, <2>1 DEF Joins
  <2>6. \A l \in n + 1 .. n + m : l - n \in 1 .. m /\ Replies(H[l]) = IF l - n <= Len(cl) THEN {cl[l - n]} ELSE {}
    <3> SUFFICES ASSUME NEW l \in n + 1 .. n + m
                 PROVE  l - n \in 1 .. m /\ Replies(H[l]) = IF l - n <= Len(cl) THEN {cl[l - n]} ELSE {}
      OBVIOUS
    <3>1. l - n \in 1 .. m /\ n + (l - n) = l
      BY <2>1
    <3>2. H[l] = G[l - n]
      BY <1>2, <3>1 DEF Joins
    <3> QED
      BY <1>4, <3>1, <3>2
  <2>7. CASE id \in ToSet(cl)
    <3>1. PICK k \in 1 .. Len(cl) : cl[k] = id
      BY <1>3, <2>7 DEF ToSet
    <3>2. n + k \in i + 1 .. n + m /\ n + k \in n + 1 .. n + m /\ (n + k) - n = k
      BY <1>3, <2>1, <2>2
    <3>3. \A l \in i + 1 .. n + m : Replies(H[l]) = {id} <=> l = n + k
      <4> SUFFICES ASSUME NEW l \in i + 1 .. n + m PROVE Replies(H[l]) = {id} <=> l = n + k
        OBVIOUS
      <4>1. CASE l <= n
        <5>1. l \in i + 1 .. n /\ l # n + k
          BY <2>1, <4>1
        <5>2. Replies(H[l]) # {id}
          BY <2>4, <2>5, <2>7, <5>1
        <5> QED
          BY <5>1, <5>2
      <4>2. CASE ~ l <= n
        <5>1. l \in n + 1 .. n + m
          BY <2>1, <2>2, <4>2
        <5>2. Replies(H[l]) = IF l - n <= Len(cl) THEN {cl[l - n]} ELSE {}
          BY <2>6, <5>1
        <5>3. l - n <= Len(cl) => l - n \in DOMAIN cl
          BY <1>3, <2>1, <5>1
        <5>4. l - n = k <=> l = n + k
          BY <2>1, <5>1
        <5>5. l - n <= Len(cl) => (cl[l - n] = id <=> l - n = k)
          BY <1>3, <3>1, <5>3 DEF Distinct
        <5>6. l - n <= Len(cl) \/ l - n # k
          BY <1>3, <2>1, <5>1
        <5> QED
          BY <5>2, <5>4, <5>5, <5>6
      <4> QED
        BY <4>1, <4>2
    <3>4. AnsweredOnce(H, i, id)
      <4> DEFINE N == n + m
                 a == n + k
      <4>1. N = Len(H) /\ a \in i + 1 .. N /\ \A l \in i + 1 .. N : Replies(H[l]) = {id} <=> l = a
        BY <2>1, <3>2, <3>3
      <4> HIDE DEF N, a
      <4> QED
        BY <4>1, Zenon DEF AnsweredOnce
    <3> QED
      BY <2>4, <3>4
  <2>8. CASE id \notin ToSet(cl)
    <3>1. PICK j \in i + 1 .. n : \A l \in i + 1 .. n : Replies(F[l]) = {id} <=> l = j
      BY <1>2, <2>4, <2>8 DEF AnsweredOnce, Joins
    <3>2. j \in i + 1 .. n + m
      BY <2>1
    <3>3. \A l \in i + 1 .. n + m : Replies(H[l]) = {id} <=> l = j
      <4> SUFFICES ASSUME NEW l \in i + 1 .. n + m PROVE Replies(H[l]) = {id} <=> l = j
        OBVIOUS
      <4>1. CASE l <= n
        <5>1. l \in i + 1 .. n
          BY <2>1, <4>1
        <5> QED
          BY <2>5, <3>1, <5>1
      <4>2. CASE ~ l <= n
        <5>1. l \in n + 1 .. n + m /\ l # j
          BY <2>1, <2>2, <4>2
        <5>2. Replies(H[l]) = IF l - n <= Len(cl) THEN {cl[l - n]} ELSE {}
          BY <2>6, <5>1
        <5>3. l - n <= Len(cl) => cl[l - n] # id
          <6>1. l - n <= Len(cl) => l - n \in 1 .. Len(cl)
            BY <1>3, <2>1, <5>1
          <6> QED
            BY <1>5, <2>8, <6>1
        <5> QED
          BY <5>1, <5>2, <5>3
      <4> QED
        BY <4>1, <4>2
    <3>4. AnsweredOnce(H, i, id)
      <4> DEFINE N == n + m
      <4>1. N = Len(H) /\ j \in i + 1 .. N /\ \A l \in i + 1 .. N : Replies(H[l]) = {id} <=> l = j
        BY <2>1, <3>2, <3>3
      <4> HIDE DEF N
      <4> QED
        BY <4>1, Zenon DEF AnsweredOnce
    <3> QED
      BY <2>4, <3>4
  <2> QED
    BY <2>7, <2>8
<1>8. ToSet(<<>>) = {}
  BY DEF ToSet
<1>9. Once(H, <<>>, w2)
  BY <1>6, <1>7, <1>8 DEF Once
<1> QED
  BY <1>2, <1>9

\* and an answer opens its calls.
LEMMA OnceAssistant ==
  ASSUME NEW F \in Seq(Seq(AllFacts)), NEW w \in Nat, NEW w2 \in Nat, w2 >= w, Once(F, <<>>, w),
         NEW G \in Seq(Seq(Voice)), NEW cl, ToSet(CallsIn(FlattenSeq(G))) = ToSet(cl), ToSet(cl) \subseteq w + 1 .. w2
  PROVE  Once(F \o G, cl, w2)
<1>1. G \in Seq(Seq(AllFacts)) /\ \A k \in DOMAIN G : Replies(G[k]) = {}
  BY VoiceReplies
<1>2. PICK H, n, m : H = F \o G /\ Joins(F, G, H, n, m)
  BY <1>1, FactsJoin
<1>3. /\ n \in Nat /\ m \in Nat /\ Len(H) = n + m /\ DOMAIN H = 1 .. n + m /\ DOMAIN F = 1 .. n
      /\ DOMAIN G = 1 .. m /\ Len(F) = n
      /\ \A i \in 1 .. n : H[i] = F[i]
      /\ \A i \in 1 .. m : H[n + i] = G[i]
  BY <1>2 DEF Joins
<1>4. \A l \in n + 1 .. n + m : l - n \in 1 .. m /\ H[l] = G[l - n]
  <2> SUFFICES ASSUME NEW l \in n + 1 .. n + m PROVE l - n \in 1 .. m /\ H[l] = G[l - n]
    OBVIOUS
  <2>1. l - n \in 1 .. m /\ n + (l - n) = l
    BY <1>3
  <2> QED
    BY <1>3, <2>1
<1>5. \A i \in 1 .. m : ToSet(CallsIn(G[i])) \subseteq w + 1 .. w2
  BY <1>1, <1>3, CallsOfAll
<1>6. \A i \in 1 .. m : ToSet(CallsIn(G[i])) \subseteq ToSet(cl)
  BY <1>1, <1>3, CallsOfAll
<1>7. \A j \in DOMAIN H : Replies(H[j]) \subseteq 1 .. w
  <2> SUFFICES ASSUME NEW j \in DOMAIN H PROVE Replies(H[j]) \subseteq 1 .. w
    OBVIOUS
  <2>1. CASE j <= n
    <3>1. j \in 1 .. n
      BY <1>3, <2>1
    <3> QED
      BY <1>3, <3>1 DEF Once
  <2>2. CASE ~ j <= n
    <3>1. j \in n + 1 .. n + m
      BY <1>3, <2>2
    <3>2. Replies(H[j]) = {}
      BY <1>1, <1>3, <1>4, <3>1
    <3> QED
      BY <3>2
  <2> QED
    BY <2>1, <2>2
<1>8. \A j \in DOMAIN H : Replies(H[j]) \subseteq 1 .. w2
  <2>1. 1 .. w \subseteq 1 .. w2
    OBVIOUS
  <2> QED
    BY <1>7, <2>1
<1>9. ASSUME NEW i \in DOMAIN H, NEW id \in ToSet(CallsIn(H[i]))
      PROVE  /\ id \in 1 .. w2
             /\ id \in ToSet(cl) => \A j \in DOMAIN H : Replies(H[j]) # {id}
             /\ id \notin ToSet(cl) => AnsweredOnce(H, i, id)
  <2>1. CASE i <= n
    <3>1. i \in 1 .. n /\ H[i] = F[i]
      BY <1>3, <2>1
    <3>2. id \notin ToSet(<<>>)
      BY DEF ToSet
    <3>3. id \in 1 .. w /\ AnsweredOnce(F, i, id)
      BY <1>3, <3>1, <3>2 DEF Once
    <3>4. id \notin ToSet(cl) /\ id \in 1 .. w2
      <4>1. id \notin w + 1 .. w2
        BY <3>3
      <4> QED
        BY <3>3, <4>1
    <3>5. PICK j \in i + 1 .. n : \A l \in i + 1 .. n : Replies(F[l]) = {id} <=> l = j
      BY <1>3, <3>3 DEF AnsweredOnce
    <3>6. j \in i + 1 .. n + m
      BY <1>3, <3>1
    <3>7. \A l \in i + 1 .. n + m : Replies(H[l]) = {id} <=> l = j
      <4> SUFFICES ASSUME NEW l \in i + 1 .. n + m PROVE Replies(H[l]) = {id} <=> l = j
        OBVIOUS
      <4>1. CASE l <= n
        <5>1. l \in i + 1 .. n /\ l \in 1 .. n
          BY <1>3, <3>1, <4>1
        <5> QED
          BY <1>3, <3>5, <5>1
      <4>2. CASE ~ l <= n
        <5>1. l \in n + 1 .. n + m /\ l # j
          BY <1>3, <3>1, <4>2
        <5>2. Replies(H[l]) = {}
          BY <1>1, <1>3, <1>4, <5>1
        <5> QED
          BY <5>1, <5>2
      <4> QED
        BY <4>1, <4>2
    <3>8. AnsweredOnce(H, i, id)
      <4> DEFINE N == n + m
      <4>1. N = Len(H) /\ j \in i + 1 .. N /\ \A l \in i + 1 .. N : Replies(H[l]) = {id} <=> l = j
        BY <1>3, <3>6, <3>7
      <4> HIDE DEF N
      <4> QED
        BY <4>1, Zenon DEF AnsweredOnce
    <3> QED
      BY <3>4, <3>8
  <2>2. CASE ~ i <= n
    <3>1. i \in n + 1 .. n + m
      BY <1>3, <2>2
    <3>2. id \in ToSet(cl) /\ id \in w + 1 .. w2
      BY <1>4, <1>5, <1>6, <3>1
    <3>3. \A j \in DOMAIN H : Replies(H[j]) # {id}
      BY <1>7, <3>2
    <3>4. id \in 1 .. w2
      BY <3>2
    <3> QED
      BY <3>2, <3>3, <3>4
  <2> QED
    BY <2>1, <2>2
<1>10. Once(H, cl, w2)
  BY <1>8, <1>9 DEF Once
<1> QED
  BY <1>2, <1>10

-----------------------------------------------------------------------------
\* What was said, and what the provider hears of it: a piece for each step of the conversation.
Pieces(p, heard, said1) ==
  \E pieces \in Seq(Seq(AllFacts)) :
    /\ Len(pieces) = Len(said1) /\ heard = FlattenSeq(pieces)
    /\ \A i \in DOMAIN said1 : Agrees(p, pieces[i], said1[i])

\* What the user says, as one text.
UserTells(results, plain) == FlattenSeq(Map(ResultAs, results)) \o PlainSaid("user", NoId, plain)

\* It is what the user's messages say together.
LEMMA UserWords ==
  ASSUME NEW results \in Seq(ResultSet), NEW plain \in Seq(PlainSet)
  PROVE  /\ UserTells(results, plain) \in Seq(AllFacts)
         /\ UserSaid(results, plain) \in Seq(Seq(AllFacts))
         /\ FlattenSeq(UserSaid(results, plain)) = UserTells(results, plain)
         /\ OutsOf("user", results, plain) \in Seq(Seq(AllFacts))
         /\ FlattenSeq(OutsOf("user", results, plain)) = UserTells(results, plain)
<1> DEFINE S == Seq(AllFacts)
           a == Map(ResultAs, results)
           u == FlattenSeq(a)
           v == PlainSaid("user", NoId, plain)
           x == IF results = <<>> THEN <<>> ELSE <<u>>
           y == IF plain = <<>> THEN <<>> ELSE <<v>>
<1>1. Gives(ResultAs, ResultSet, S)
  BY ResultTold DEF Gives, ResultAs
<1>2. a \in Seq(S) /\ u \in S
  BY <1>1, MapType, FlattenMapType
<1>3. v \in S
  BY PlainsTold DEF Whos, NoId
<1>4. results = <<>> => u = <<>>
  <2>1. results = <<>> => a = <<>>
    BY MapEmpty
  <2> QED
    BY <2>1, FlattenEmpty
<1>5. plain = <<>> => v = <<>>
  BY PlainsTold DEF Whos, NoId
<1> HIDE DEF a, u, v
<1>6. FlattenSeq(<<u>>) = u /\ FlattenSeq(<<v>>) = v
  BY <1>2, <1>3, FlattenOne
<1>7. x \in Seq(S) /\ y \in Seq(S) /\ FlattenSeq(x) = u /\ FlattenSeq(y) = v
  <2>1. <<>> \in Seq(S)
    BY EmptySeq
  <2>2. <<u>> \in Seq(S) /\ <<v>> \in Seq(S)
    <3> HIDE DEF S
    <3> QED
      BY <1>2, <1>3
  <2> QED
    BY <1>4, <1>5, <1>6, <2>1, <2>2, FlattenEmpty
<1> HIDE DEF x, y
<1>8. FlattenSeq(x \o y) = u \o v /\ FlattenSeq(a \o y) = u \o v
  BY <1>2, <1>7, FlattenConcat DEF u
<1>9. x \o y \in Seq(S) /\ a \o y \in Seq(S) /\ u \o v \in S
  <2>1. x \o y \in Seq(S) /\ a \o y \in Seq(S)
    <3> HIDE DEF S
    <3> QED
      BY <1>2, <1>7, ConcatProperties
  <2> QED
    BY <1>2, <1>3, <2>1, ConcatProperties
<1>10. UserSaid(results, plain) = x \o y
  BY DEF UserSaid, x, y, u, a, v
<1>11. OutsOf("user", results, plain) = a \o y
  BY DEF OutsOf, y, a, v
<1>12. UserTells(results, plain) = u \o v
  BY DEF UserTells, u, a, v
<1> QED
  BY <1>8, <1>9, <1>10, <1>11, <1>12

\* Agreement is a matter of two texts of the same length.
LEMMA AgreesLength ==
  ASSUME NEW p, NEW a, NEW b, Agrees(p, a, b)
  PROVE  Len(a) = Len(b)
BY DEF Agrees, Alike

\* More is said, and heard the same way.
LEMMA PiecesMore ==
  ASSUME NEW p, NEW heard, NEW said1 \in Seq(Seq(AllFacts)), Pieces(p, heard, said1),
         NEW x \in Seq(Seq(AllFacts)), NEW y \in Seq(Seq(AllFacts)), Len(x) = Len(y),
         \A i \in DOMAIN y : Agrees(p, x[i], y[i])
  PROVE  Pieces(p, heard \o FlattenSeq(x), said1 \o y)
<1> DEFINE S == Seq(AllFacts)
<1>1. PICK pieces \in Seq(S) :
        /\ Len(pieces) = Len(said1) /\ heard = FlattenSeq(pieces)
        /\ \A i \in DOMAIN said1 : Agrees(p, pieces[i], said1[i])
  BY DEF Pieces
<1>2. FlattenSeq(pieces \o x) = heard \o FlattenSeq(x)
  BY <1>1, FlattenConcat
<1>3. PICK b, n, m : b = said1 \o y /\ Joins(said1, y, b, n, m)
  BY FactsJoin
<1>4. PICK a, k, l : a = pieces \o x /\ Joins(pieces, x, a, k, l)
  BY FactsJoin
<1>5. /\ k = n /\ l = m /\ a \in Seq(S) /\ Len(a) = n + m
      /\ \A i \in 1 .. n : a[i] = pieces[i]
      /\ \A i \in 1 .. m : a[n + i] = x[i]
  BY <1>1, <1>3, <1>4 DEF Joins
<1>6. /\ Len(b) = n + m /\ n \in Nat /\ m \in Nat /\ DOMAIN b = 1 .. n + m
      /\ DOMAIN said1 = 1 .. n /\ DOMAIN y = 1 .. m
      /\ \A i \in 1 .. n : b[i] = said1[i]
      /\ \A i \in 1 .. m : b[n + i] = y[i]
  BY <1>3 DEF Joins
<1> HIDE DEF S
<1>7. \A i \in DOMAIN b : Agrees(p, a[i], b[i])
  <2> SUFFICES ASSUME NEW i \in DOMAIN b PROVE Agrees(p, a[i], b[i])
    OBVIOUS
  <2>1. CASE i <= n
    <3>1. i \in 1 .. n
      BY <1>6, <2>1
    <3> QED
      BY <1>1, <1>5, <1>6, <3>1
  <2>2. CASE ~ i <= n
    <3>1. i - n \in 1 .. m /\ n + (i - n) = i
      BY <1>6, <2>2
    <3>2. a[i] = x[i - n] /\ b[i] = y[i - n] /\ i - n \in DOMAIN y
      BY <1>5, <1>6, <3>1
    <3> QED
      BY <3>2
  <2> QED
    BY <2>1, <2>2
<1>8. Pieces(p, heard \o FlattenSeq(x), b)
  <2>1. a \in Seq(Seq(AllFacts)) /\ Len(a) = Len(b) /\ heard \o FlattenSeq(x) = FlattenSeq(a)
    BY <1>2, <1>4, <1>5, <1>6 DEF S
  <2> QED
    BY <1>7, <2>1, Zenon DEF Pieces
<1> QED
  BY <1>3, <1>8

\* What is in the middle of three texts.
LEMMA MiddleOf ==
  ASSUME NEW S, NEW a \in Seq(S), NEW x \in Seq(S), NEW z \in Seq(S)
  PROVE  SubSeq((a \o x) \o z, Len(a) + 1, Len(a) + Len(x)) = x
<1> DEFINE n == Len(a)
           m == Len(x)
           k == Len(z)
           ax == a \o x
           t == ax \o z
           c == SubSeq(t, n + 1, n + m)
<1>1. /\ ax \in Seq(S) /\ n \in Nat /\ m \in Nat /\ Len(ax) = n + m
      /\ \A i \in 1 .. m : ax[n + i] = x[i]
      /\ DOMAIN x = 1 .. m
  BY Joined
<1>2. k \in Nat
  BY LenProperties
<1> HIDE DEF n, m, k, ax
<1> DEFINE l == n + m
<1>3. l = Len(ax) /\ l \in Nat
  BY <1>1
<1> HIDE DEF l
<1>4. \A i \in 1 .. l : t[i] = ax[i]
  BY <1>1, <1>3, Joined
<1>5. \A i \in 1 .. m : t[n + i] = x[i]
  BY <1>1, <1>4 DEF l
<1>6. \A i \in 1 .. m : x[i] \in S
  BY <1>1, MembersIn
<1>7. \A i \in n + 1 .. n + m : t[i] \in S
  <2> SUFFICES ASSUME NEW i \in n + 1 .. n + m PROVE t[i] \in S
    OBVIOUS
  <2>1. i - n \in 1 .. m /\ n + (i - n) = i
    BY <1>1
  <2> QED
    BY <1>5, <1>6, <2>1
<1> HIDE DEF t
<1> DEFINE u == n + 1
           v == n + m
<1>8. u \in Int /\ v \in Int /\ \A i \in u .. v : t[i] \in S
  BY <1>1, <1>7
<1>9. v - u + 1 = m /\ \A i \in 1 .. m : u + i - 1 = n + i
  BY <1>1
<1> HIDE DEF u, v
<1>10. /\ SubSeq(t, u, v) \in Seq(S)
       /\ Len(SubSeq(t, u, v)) = IF u <= v THEN v - u + 1 ELSE 0
       /\ \A i \in 1 .. v - u + 1 : SubSeq(t, u, v)[i] = t[u + i - 1]
  BY <1>8, SubSeqProperties
<1>11. Len(SubSeq(t, u, v)) = m
  BY <1>1, <1>8, <1>9, <1>10
<1>12. \A i \in 1 .. m : SubSeq(t, u, v)[i] = x[i]
  BY <1>5, <1>9, <1>10
<1>13. SubSeq(t, u, v) = x
  <2> DEFINE s == SubSeq(t, u, v)
  <2>1. s \in Seq(S) /\ Len(s) = m /\ Len(x) = m /\ \A i \in 1 .. m : s[i] = x[i]
    BY <1>10, <1>11, <1>12 DEF m
  <2> HIDE DEF s
  <2>2. s = x
    BY <2>1, SeqEqual
  <2> QED
    BY <2>2 DEF s
<1> QED
  BY <1>13 DEF t, ax, u, v, n, m

-----------------------------------------------------------------------------
\* The first n of several texts, as one.
Upto(s, n) == FlattenSeq(SubSeq(s, 1, n))

\* Taking one text more appends it.
LEMMA UptoMore ==
  ASSUME NEW s \in Seq(Seq(AllFacts))
  PROVE  /\ Upto(s, 0) = <<>> /\ Upto(s, Len(s)) = FlattenSeq(s)
         /\ \A n \in 0 .. Len(s) : Upto(s, n) \in Seq(AllFacts)
         /\ \A n \in 0 .. Len(s) : n < Len(s) => Upto(s, n + 1) = Upto(s, n) \o s[n + 1]
         /\ \A n \in 0 .. Len(s) : \E rest \in Seq(AllFacts) : FlattenSeq(s) = Upto(s, n) \o rest
<1> DEFINE S == Seq(AllFacts)
           k == Len(s)
<1>1. s \in Seq(S) /\ k \in Nat /\ \A i \in 1 .. k : s[i] \in S
  BY LenProperties, MembersIn
<1> HIDE DEF S
<1>2. \A n \in 0 .. k : SubSeq(s, 1, n) \in Seq(S)
  <2> SUFFICES ASSUME NEW n \in 0 .. k PROVE SubSeq(s, 1, n) \in Seq(S)
    OBVIOUS
  <2>1. n \in Int /\ 1 \in Int /\ \A i \in 1 .. n : s[i] \in S
    BY <1>1
  <2> QED
    BY <2>1, SubSeqProperties
<1>3. \A n \in 0 .. k : Upto(s, n) \in S
  BY <1>2, FlattenType DEF Upto, S
<1>4. Upto(s, 0) = <<>> /\ Upto(s, k) = FlattenSeq(s)
  <2>1. SubSeq(s, 1, 0) = <<>>
    BY SubSeqEmpty
  <2>2. SubSeq(s, 1, k) = s
    BY <1>1, SubSeqFull
  <2> QED
    BY <2>1, <2>2, FlattenEmpty DEF Upto
<1>5. ASSUME NEW n \in 0 .. k, n < k
      PROVE  Upto(s, n + 1) = Upto(s, n) \o s[n + 1]
  <2> DEFINE n1 == n + 1
             e == s[n1]
             f == SubSeq(s, 1, n)
  <2>1. n1 \in 1 .. k /\ n1 - 1 = n /\ 1 \in 1 .. k /\ n1 \in 1 .. Len(s) /\ e \in S
    BY <1>1, <1>5
  <2>2. SubSeq(s, 1, n1) = SubSeq(s, 1, n1 - 1) \o <<s[n1]>>
    <3> HIDE DEF n1
    <3> QED
      BY <1>1, <2>1, SubSeqRecursiveSecond
  <2>3. SubSeq(s, 1, n1) = f \o <<e>>
    BY <2>1, <2>2
  <2>4. f \in Seq(S)
    BY <1>2
  <2> HIDE DEF n1, e, f
  <2>5. f \o <<e>> = Append(f, e)
    BY <2>1, <2>4, AppendIsConcat
  <2>6. FlattenSeq(Append(f, e)) = FlattenSeq(f) \o e
    BY <2>1, <2>4, FlattenAppend DEF S
  <2>7. Upto(s, n1) = Upto(s, n) \o e
    BY <2>3, <2>5, <2>6 DEF Upto, f
  <2> QED
    BY <2>7 DEF n1, e
<1>6. ASSUME NEW n \in 0 .. k
      PROVE  \E rest \in S : FlattenSeq(s) = Upto(s, n) \o rest
  <2> DEFINE n1 == n + 1
             a == SubSeq(s, 1, n)
             b == SubSeq(s, n1, k)
  <2>1. a \in Seq(S)
    BY <1>2
  <2>2. b \in Seq(S)
    <3>1. n1 \in Int /\ k \in Int /\ \A i \in n1 .. k : s[i] \in S
      BY <1>1
    <3> HIDE DEF n1, k
    <3> QED
      BY <3>1, SubSeqProperties
  <2>3. a \o b = SubSeq(s, 1, k)
    <3>1. 1 \in 1 .. Len(s) + 1 /\ n \in 1 - 1 .. Len(s) /\ k \in n .. Len(s)
      BY <1>1
    <3> HIDE DEF k
    <3> QED
      BY <1>1, <3>1, ConcatAdjacentSubSeq
  <2>4. SubSeq(s, 1, k) = s
    BY <1>1, SubSeqFull
  <2> HIDE DEF a, b
  <2>5. FlattenSeq(a \o b) = FlattenSeq(a) \o FlattenSeq(b) /\ FlattenSeq(b) \in S
    BY <2>1, <2>2, FlattenConcat, FlattenType DEF S
  <2>6. FlattenSeq(s) = Upto(s, n) \o FlattenSeq(b)
    BY <2>3, <2>4, <2>5 DEF Upto, a
  <2> QED
    BY <2>5, <2>6
<1> QED
  BY <1>3, <1>4, <1>5, <1>6 DEF S

\* So what agrees piece by piece begins at the same places.
LEMMA UptoAgrees ==
  ASSUME NEW p, NEW pieces \in Seq(Seq(AllFacts)), NEW said1 \in Seq(Seq(AllFacts)), Len(pieces) = Len(said1),
         \A i \in DOMAIN said1 : Agrees(p, pieces[i], said1[i])
  PROVE  \A n \in 0 .. Len(said1) : Len(Upto(pieces, n)) = Len(Upto(said1, n))
<1> DEFINE k == Len(said1)
           N == {n \in Nat : n <= k => Len(Upto(pieces, n)) = Len(Upto(said1, n))}
<1>1. k \in Nat /\ DOMAIN said1 = 1 .. k /\ \A i \in 1 .. k : pieces[i] \in Seq(AllFacts) /\ said1[i] \in Seq(AllFacts)
  <2>1. k \in Nat /\ DOMAIN said1 = 1 .. k /\ DOMAIN pieces = 1 .. k
    BY LenProperties
  <2>2. \A i \in DOMAIN pieces : pieces[i] \in Seq(AllFacts)
    BY MembersIn
  <2>3. \A i \in DOMAIN said1 : said1[i] \in Seq(AllFacts)
    BY MembersIn
  <2> QED
    BY <2>1, <2>2, <2>3
<1>2. \A i \in 1 .. k : Len(pieces[i]) = Len(said1[i])
  BY <1>1, AgreesLength
<1>3. 0 \in N
  <2>1. Upto(pieces, 0) = <<>> /\ Upto(said1, 0) = <<>>
    BY UptoMore
  <2> QED
    BY <2>1
<1>4. ASSUME NEW n \in Nat, n \in N PROVE n + 1 \in N
  <2> SUFFICES ASSUME n + 1 <= k PROVE Len(Upto(pieces, n + 1)) = Len(Upto(said1, n + 1))
    OBVIOUS
  <2> DEFINE a == Upto(pieces, n)
             b == Upto(said1, n)
             x == pieces[n + 1]
             y == said1[n + 1]
  <2>1. n \in 0 .. k /\ n < k /\ n + 1 \in 1 .. k /\ n <= k
    BY <1>1
  <2>2. a \in Seq(AllFacts) /\ Upto(pieces, n + 1) = a \o x
    BY <2>1, UptoMore
  <2>3. b \in Seq(AllFacts) /\ Upto(said1, n + 1) = b \o y
    BY <2>1, UptoMore
  <2>4. Len(a) = Len(b) /\ Len(x) = Len(y) /\ x \in Seq(AllFacts) /\ y \in Seq(AllFacts)
    BY <1>1, <1>2, <1>4, <2>1
  <2> HIDE DEF a, b, x, y
  <2>5. Len(a \o x) = Len(a) + Len(x) /\ Len(b \o y) = Len(b) + Len(y)
    <3> DEFINE S == AllFacts
    <3>1. a \in Seq(S) /\ b \in Seq(S) /\ x \in Seq(S) /\ y \in Seq(S)
      BY <2>2, <2>3, <2>4
    <3> HIDE DEF S
    <3>2. Len(a \o x) = Len(a) + Len(x)
      BY <3>1, ConcatProperties
    <3>3. Len(b \o y) = Len(b) + Len(y)
      BY <3>1, ConcatProperties
    <3> QED
      BY <3>2, <3>3
  <2> QED
    BY <2>2, <2>3, <2>4, <2>5
<1> HIDE DEF N
<1>5. Nat \subseteq N
  BY <1>3, <1>4, Induction
<1> QED
  BY <1>1, <1>5 DEF N

\* What is heard in a step is the piece of that step.
Begins(said1, step) == Len(FlattenSeq(SubSeq(said1, 1, step - 1)))

\* What is heard, in pieces that agree with what was said step by step.
InPieces(p, pieces, said1, told) ==
  /\ pieces \in Seq(Seq(AllFacts)) /\ said1 \in Seq(Seq(AllFacts)) /\ Len(pieces) = Len(said1)
  /\ told = FlattenSeq(pieces)
  /\ \A i \in DOMAIN said1 : Agrees(p, pieces[i], said1[i])

\* Cutting what is heard at the lengths of what was said gives the pieces back.
LEMMA PieceHeard ==
  ASSUME NEW p, NEW pieces, NEW said1, NEW told, InPieces(p, pieces, said1, told)
  PROVE  /\ Len(told) = Len(FlattenSeq(said1))
         /\ \A step \in DOMAIN said1 :
              SubSeq(told, Begins(said1, step) + 1, Begins(said1, step + 1)) = pieces[step]
<1> DEFINE k == Len(said1)
<1> SUFFICES ASSUME pieces \in Seq(Seq(AllFacts)), said1 \in Seq(Seq(AllFacts)), Len(pieces) = Len(said1),
                    told = FlattenSeq(pieces), \A i \in DOMAIN said1 : Agrees(p, pieces[i], said1[i])
             PROVE  /\ Len(told) = Len(FlattenSeq(said1))
                    /\ \A step \in DOMAIN said1 :
                         SubSeq(told, Begins(said1, step) + 1, Begins(said1, step + 1)) = pieces[step]
  BY DEF InPieces
<1>1. k \in Nat /\ DOMAIN said1 = 1 .. k /\ DOMAIN pieces = 1 .. k
  BY LenProperties
<1>2. \A n \in 0 .. k : Len(Upto(pieces, n)) = Len(Upto(said1, n))
  BY UptoAgrees
<1>3. Len(told) = Len(FlattenSeq(said1))
  <2>1. Upto(pieces, k) = FlattenSeq(pieces) /\ Upto(said1, k) = FlattenSeq(said1)
    BY UptoMore
  <2> QED
    BY <1>1, <1>2, <2>1
<1>4. ASSUME NEW step \in DOMAIN said1
      PROVE  SubSeq(told, Begins(said1, step) + 1, Begins(said1, step + 1)) = pieces[step]
  <2> DEFINE n == step - 1
             a == Upto(pieces, n)
             x == pieces[step]
  <2>1. n \in 0 .. k /\ n < k /\ n + 1 = step /\ step \in 0 .. k /\ (step + 1) - 1 = step
    BY <1>1
  <2>2. a \in Seq(AllFacts) /\ Upto(pieces, step) = a \o x
    BY <2>1, UptoMore
  <2>3. PICK rest \in Seq(AllFacts) : FlattenSeq(pieces) = Upto(pieces, step) \o rest
    BY <2>1, UptoMore
  <2>4. x \in Seq(AllFacts)
    BY <1>1, MembersIn
  <2>5. Begins(said1, step) = Len(a)
    BY <1>2, <2>1 DEF Begins, Upto
  <2>6. Begins(said1, step + 1) = Len(a \o x)
    <3>1. Begins(said1, step + 1) = Len(Upto(said1, step))
      BY <2>1 DEF Begins, Upto
    <3> QED
      BY <1>2, <2>1, <2>2, <3>1
  <2> HIDE DEF a, x
  <2>7. Len(a \o x) = Len(a) + Len(x)
    BY <2>2, <2>4, ConcatProperties
  <2>8. told = (a \o x) \o rest
    BY <2>2, <2>3
  <2>9. SubSeq((a \o x) \o rest, Len(a) + 1, Len(a) + Len(x)) = x
    BY <2>2, <2>4, MiddleOf
  <2> QED
    BY <2>5, <2>6, <2>7, <2>8, <2>9 DEF x
<1> QED
  BY <1>3, <1>4

\* Agreement, as ToldEverything has it.
LEMMA AgreesBy ==
  ASSUME NEW p, NEW a, NEW b, Agrees(p, a, b), NEW who
  PROVE  IF p = "chat" /\ who = "assistant" THEN ToSet(By(a, who)) = ToSet(By(b, who)) ELSE By(a, who) = By(b, who)
BY DEF Agrees, Alike

\* So the provider hears everything.
LEMMA HeardIsTold ==
  ASSUME said \in Seq(Seq(AllFacts)),
         phase = "waiting" => Pieces(provider, Tells(provider, sent), said)
  PROVE  ToldEverything
<1> SUFFICES ASSUME phase = "waiting"
             PROVE  /\ Len(Tells(provider, sent)) = Len(FlattenSeq(said))
                    /\ \A step \in DOMAIN said, who \in {"system", "user", "assistant", "call", "result"} :
                         LET a == By(SubSeq(Tells(provider, sent), Begins(said, step) + 1, Begins(said, step + 1)), who)
                             b == By(said[step], who)
                         IN IF provider = "chat" /\ who = "assistant" THEN ToSet(a) = ToSet(b) ELSE a = b
  BY DEF ToldEverything, Begins
<1> DEFINE told == Tells(provider, sent)
<1>1. PICK pieces \in Seq(Seq(AllFacts)) :
        /\ Len(pieces) = Len(said) /\ told = FlattenSeq(pieces)
        /\ \A i \in DOMAIN said : Agrees(provider, pieces[i], said[i])
  BY DEF Pieces
<1> HIDE DEF told
<1>2. /\ Len(told) = Len(FlattenSeq(said))
      /\ \A step \in DOMAIN said :
           SubSeq(told, Begins(said, step) + 1, Begins(said, step + 1)) = pieces[step]
  <2>1. InPieces(provider, pieces, said, told)
    BY <1>1 DEF InPieces
  <2> QED
    BY <2>1, PieceHeard
<1>3. ASSUME NEW step \in DOMAIN said, NEW who
      PROVE  LET a == By(SubSeq(told, Begins(said, step) + 1, Begins(said, step + 1)), who)
                 b == By(said[step], who)
             IN IF provider = "chat" /\ who = "assistant" THEN ToSet(a) = ToSet(b) ELSE a = b
  <2>1. SubSeq(told, Begins(said, step) + 1, Begins(said, step + 1)) = pieces[step]
    BY <1>2
  <2> DEFINE x == pieces[step]
             y == said[step]
  <2>2. Agrees(provider, x, y)
    BY <1>1
  <2> HIDE DEF x, y
  <2>3. IF provider = "chat" /\ who = "assistant" THEN ToSet(By(x, who)) = ToSet(By(y, who)) ELSE By(x, who) = By(y, who)
    BY <2>2, AgreesBy
  <2> QED
    BY <2>1, <2>3 DEF x, y
<1> QED
  BY <1>2, <1>3 DEF told

-----------------------------------------------------------------------------
\* What the client writes so far, as a provider p hears it.
Hearing(c, p, h, said1) ==
  /\ Readied(c, p, h) /\ Sequence(MsOf(c, p, h)) /\ Tolds(p, MsOf(c, p, h)) \in Seq(Seq(AllFacts))
  /\ ContentFacts("system", NoId, SysOf(c, p, h)) \in Seq(AllFacts)
  /\ p = "anthropic" => MsOf(c, p, h) \in Seq(AMessages)
  /\ Pieces(p, Hears(c, p, h), said1)

\* Something more is told, and heard after what was.
TellsMore(c, p, h, h2, x) ==
  /\ ContentFacts("system", NoId, SysOf(c, p, h)) \in Seq(AllFacts)
  /\ Tolds(p, MsOf(c, p, h)) \in Seq(Seq(AllFacts))
  /\ x \in Seq(AllFacts) /\ SysOf(c, p, h2) = SysOf(c, p, h)
  /\ FlattenSeq(Tolds(p, MsOf(c, p, h2))) = FlattenSeq(Tolds(p, MsOf(c, p, h))) \o x

\* The instructions stay in front of it.
LEMMA HearsMore ==
  ASSUME NEW c, NEW p, NEW h, NEW h2, NEW x, TellsMore(c, p, h, h2, x)
  PROVE  Hears(c, p, h2) = Hears(c, p, h) \o x
<1> DEFINE s == ContentFacts("system", NoId, SysOf(c, p, h))
           t == FlattenSeq(Tolds(p, MsOf(c, p, h)))
           t2 == FlattenSeq(Tolds(p, MsOf(c, p, h2)))
           S == AllFacts
<1>1. s \in Seq(S) /\ t \in Seq(S) /\ x \in Seq(S)
  BY FlattenType DEF TellsMore
<1>2. Hears(c, p, h2) = s \o t2 /\ Hears(c, p, h) = s \o t
  BY DEF Hears, TellsMore
<1>3. t2 = t \o x
  BY DEF TellsMore
<1> HIDE DEF s, t, t2, S
<1>4. Associates(s, t, x)
  BY <1>1, ConcatTwo
<1>5. s \o (t \o x) = (s \o t) \o x
  BY <1>4 DEF Associates
<1> QED
  BY <1>2, <1>3, <1>5

\* Blocks that are added for Anthropic are told after all that was told.
LEMMA GrownTells ==
  ASSUME NEW ms \in Seq(AMessages), NEW role \in Speaking, NEW b \in Seq(ABlocks), NEW ms2,
         Grown(ms, role, b, ms2)
  PROVE  /\ ms2 \in Seq(AMessages) /\ Sequence(ms2) /\ Tolds("anthropic", ms2) \in Seq(Seq(AllFacts))
         /\ FlattenSeq(Tolds("anthropic", ms2)) = FlattenSeq(Tolds("anthropic", ms)) \o BlocksSay(role, b)
<1> DEFINE t(items) == FlattenSeq(Tolds("anthropic", items))
           y == BlocksSay(role, b)
<1>1. y \in Seq(AllFacts) /\ role \in {"user", "assistant"}
  BY BlocksTell DEF Speaking
<1>2. Sequence(ms) /\ Tolds("anthropic", ms) \in Seq(Seq(AllFacts))
  BY AMessagesTell
<1>3. ms2 \in Seq(AMessages) /\ t(ms2) = t(ms) \o y
  <2>1. CASE b = <<>> /\ ms2 = ms
    <3>1. y = <<>>
      BY <2>1, BlocksTell
    <3>2. t(ms) \in Seq(AllFacts)
      BY <1>2, FlattenType
    <3> HIDE DEF t, y
    <3>3. t(ms) \o <<>> = t(ms)
      BY <3>2, ConcatEmptySeq
    <3> QED
      BY <2>1, <3>1, <3>3
  <2>2. CASE \E f \in Seq(AMessages), x \in Seq(ABlocks) :
               ms = Append(f, AMessage(role, x)) /\ ms2 = Append(f, AMessage(role, x \o b))
    <3>1. PICK f \in Seq(AMessages), x \in Seq(ABlocks) :
            ms = Append(f, AMessage(role, x)) /\ ms2 = Append(f, AMessage(role, x \o b))
      BY <2>2
    <3>2. ms2 = Add("anthropic", ms, role, b)
      BY <1>1, <3>1, AddsToLast
    <3>3. ms2 \in Seq(AMessages)
      BY <1>1, <3>2, AddAdds
    <3>4. FlattenSeq(Tolds("anthropic", ms2)) = FlattenSeq(Tolds("anthropic", ms)) \o BlocksSay(role, b)
      <4>1. ms \in Seq(AMessages) /\ role \in Speaking /\ b \in Seq(ABlocks) /\ ms2 = Add("anthropic", ms, role, b)
        BY <3>2
      <4> HIDE DEF t, y
      <4> QED
        BY <4>1, AddTells
    <3> QED
      BY <3>3, <3>4
  <2>3. CASE b # <<>> /\ ms2 = Append(ms, AMessage(role, b))
    <3> DEFINE m == AMessage(role, b)
               f == Tolds("anthropic", ms)
    <3>1. m \in AMessages
      BY <1>1 DEF AMessage, AMessages
    <3>2. Told("anthropic", m) = y
      BY BlocksTell
    <3> HIDE DEF m, y
    <3>3. Append(ms, m) \in Seq(AMessages)
      BY <3>1, AppendProperties
    <3>4. Tolds("anthropic", Append(ms, m)) = Append(f, Told("anthropic", m))
      BY <1>2, ToldsAppend
    <3>5. FlattenSeq(Append(f, y)) = FlattenSeq(f) \o y
      BY <1>1, <1>2, FlattenAppend
    <3> QED
      BY <2>3, <3>2, <3>3, <3>4, <3>5 DEF m
  <2> QED
    BY <2>1, <2>2, <2>3 DEF Grown
<1>4. Sequence(ms2) /\ Tolds("anthropic", ms2) \in Seq(Seq(AllFacts))
  BY <1>3, AMessagesTell
<1> QED
  BY <1>3, <1>4

\* The user speaks and is heard,
LEMMA UserHeard ==
  ASSUME NEW c \in Protocols, NEW p \in Protocols, NEW h, NEW said1 \in Seq(Seq(AllFacts)), Hearing(c, p, h, said1),
         NEW new, NEW results, NEW plain, UserStep(c, new, results, plain)
  PROVE  /\ said1 \o UserSaid(results, plain) \in Seq(Seq(AllFacts))
         /\ Hearing(c, p, h \o new, said1 \o UserSaid(results, plain))
<1> DEFINE h2 == h \o new
           x == UserSaid(results, plain)
           u == UserTells(results, plain)
           O == OutsOf("user", results, plain)
           ms == MsOf(c, p, h)
           ms2 == MsOf(c, p, h2)
<1>1. results \in Seq(ResultSet) /\ plain \in Seq(PlainSet) /\ Sequence(new)
  BY DEF UserStep
<1>2. /\ u \in Seq(AllFacts) /\ x \in Seq(Seq(AllFacts)) /\ FlattenSeq(x) = u
      /\ O \in Seq(Seq(AllFacts)) /\ FlattenSeq(O) = u
  BY <1>1, UserWords
<1>3. Readied(c, p, h) /\ Sequence(ms) /\ Tolds(p, ms) \in Seq(Seq(AllFacts))
  BY DEF Hearing
<1>4. Readied(c, p, h2) /\ SysOf(c, p, h2) = SysOf(c, p, h)
  <2> DEFINE N == UserMessages(c, results, plain)
             role == "user"
  <2>1. Reads(c, new) \in Seq(Seq(ReadSet)) /\ FlattenSeq(Reads(c, new)) = N
    BY DEF UserStep, UserIsRead, UserMessages
  <2>2. N \in Seq(RoleMessages(role))
    BY <1>1, UserPartsRead
  <2>3. role \in Speaking
    BY DEF Speaking
  <2> HIDE DEF N, role
  <2> QED
    BY <1>1, <1>3, <2>1, <2>2, <2>3, ReadMore
<1>5. /\ Sequence(ms2) /\ Tolds(p, ms2) \in Seq(Seq(AllFacts)) /\ (p = "anthropic" => ms2 \in Seq(AMessages))
      /\ FlattenSeq(Tolds(p, ms2)) = FlattenSeq(Tolds(p, ms)) \o u
  <2>1. CASE p = "anthropic"
    <3>1. ms \in Seq(AMessages) /\ Readied(c, "anthropic", h)
      BY <1>3, <2>1 DEF Hearing
    <3>2. PICK B : /\ Answering(B, results, plain) /\ B # <<>>
                   /\ Grows(c, MsOf(c, "anthropic", h), "user", B, MsOf(c, "anthropic", h \o new))
      BY <2>1, <3>1, AnthropicUser
    <3>3. B \in Seq(ABlocks) /\ BlocksSay("user", B) = u
      BY <3>2 DEF Answering, UserTells
    <3>4. Grown(ms, "user", B, ms2)
      BY <2>1, <3>2 DEF Grows
    <3> HIDE DEF ms, ms2
    <3>5. /\ ms2 \in Seq(AMessages) /\ Sequence(ms2) /\ Tolds("anthropic", ms2) \in Seq(Seq(AllFacts))
          /\ FlattenSeq(Tolds("anthropic", ms2)) = FlattenSeq(Tolds("anthropic", ms)) \o BlocksSay("user", B)
      BY <3>1, <3>3, <3>4, GrownTells DEF Speaking
    <3> QED
      BY <2>1, <3>3, <3>5
  <2>2. CASE p # "anthropic"
    <3>1. p \in OpenAI
      BY <2>2 DEF Protocols, OpenAI
    <3>2. GrowsBy(p, ms, ms2, O)
      BY <1>3, <3>1, UserGrows
    <3> HIDE DEF ms, ms2, O, u
    <3>3. Sequence(ms2) /\ Tolds(p, ms2) = Tolds(p, ms) \o O
      BY <3>2 DEF GrowsBy
    <3>4. FlattenSeq(Tolds(p, ms) \o O) = FlattenSeq(Tolds(p, ms)) \o FlattenSeq(O)
      BY <1>2, <1>3, FlattenConcat
    <3>5. Tolds(p, ms) \o O \in Seq(Seq(AllFacts))
      <4> DEFINE S == Seq(AllFacts)
                 f == Tolds(p, ms)
      <4>1. f \in Seq(S) /\ O \in Seq(S)
        BY <1>2, <1>3
      <4> HIDE DEF S, f
      <4>2. f \o O \in Seq(S)
        BY <4>1, ConcatProperties
      <4> QED
        BY <4>2 DEF S, f
    <3> QED
      BY <1>2, <2>2, <3>3, <3>4, <3>5
  <2> QED
    BY <2>1, <2>2
<1>6. Hears(c, p, h2) = Hears(c, p, h) \o u
  <2>1. TellsMore(c, p, h, h2, u)
    BY <1>2, <1>3, <1>4, <1>5 DEF TellsMore, Hearing
  <2> HIDE DEF h2, u, x, O
  <2> QED
    BY <2>1, HearsMore
<1>7. Pieces(p, Hears(c, p, h) \o FlattenSeq(x), said1 \o x)
  <2>1. Pieces(p, Hears(c, p, h), said1) /\ Len(x) = Len(x) /\ \A i \in DOMAIN x : Agrees(p, x[i], x[i])
    BY AlikeItself DEF Hearing
  <2> HIDE DEF x
  <2> DEFINE heard == Hears(c, p, h)
  <2> HIDE DEF heard
  <2>2. Pieces(p, heard, said1)
    BY <2>1 DEF heard
  <2>3. Pieces(p, heard \o FlattenSeq(x), said1 \o x)
    BY <1>2, <2>1, <2>2, PiecesMore
  <2> QED
    BY <2>3 DEF heard
<1>8. Pieces(p, Hears(c, p, h2), said1 \o x)
  BY <1>2, <1>6, <1>7
<1>9. said1 \o x \in Seq(Seq(AllFacts))
  <2> DEFINE S == Seq(AllFacts)
  <2>1. said1 \in Seq(S) /\ x \in Seq(S)
    BY <1>2
  <2> HIDE DEF S, x
  <2>2. said1 \o x \in Seq(S)
    BY <2>1, ConcatProperties
  <2> QED
    BY <2>2 DEF S
<1>10. ContentFacts("system", NoId, SysOf(c, p, h2)) \in Seq(AllFacts)
  BY <1>4 DEF Hearing
<1> HIDE DEF h2, x, ms2
<1>11. Hearing(c, p, h2, said1 \o x)
  BY <1>4, <1>5, <1>8, <1>10 DEF Hearing, ms2
<1> QED
  BY <1>9, <1>11 DEF h2, x

\* or the assistant is.
LEMMA AssistantHeard ==
  ASSUME NEW c \in Protocols, NEW p \in Protocols, NEW h, NEW said1 \in Seq(Seq(AllFacts)), Hearing(c, p, h, said1),
         NEW new, AssistantStep(c, new), p # c => Readables(c, new)
  PROVE  /\ TellsAll(c, new) \in Seq(AllFacts) /\ Append(said1, TellsAll(c, new)) \in Seq(Seq(AllFacts))
         /\ Hearing(c, p, h \o new, Append(said1, TellsAll(c, new)))
<1> DEFINE h2 == h \o new
           y == TellsAll(c, new)
           ms == MsOf(c, p, h)
           ms2 == MsOf(c, p, h2)
<1>1. new \in Seq(KeptMessages(c)) /\ Sequence(new)
  BY IsSequence DEF AssistantStep
<1>2. Voice \subseteq AllFacts /\ Seq(Voice) \subseteq Seq(AllFacts)
  BY VoiceOf DEF Voice
<1>3. y \in Seq(AllFacts)
  <2> DEFINE t == Tolds(c, new)
             K == KeptMessages(c)
             S == Seq(AllFacts)
  <2>1. new \in Seq(K) /\ \A m \in K : Told(c, m) \in S
    BY <1>1, <1>2, KeptVoice
  <2> HIDE DEF K, S
  <2>2. Len(new) \in Nat /\ DOMAIN new = 1 .. Len(new) /\ \A i \in DOMAIN new : new[i] \in K
    BY <2>1, LenProperties, MembersIn
  <2>3. t \in Seq(S)
    BY <2>1, <2>2 DEF Tolds
  <2> HIDE DEF t
  <2>4. FlattenSeq(t) \in S
    BY <2>3, FlattenType DEF S
  <2> QED
    BY <2>4, TellsAllOf DEF S, t
<1>4. Readied(c, p, h) /\ Sequence(ms) /\ Tolds(p, ms) \in Seq(Seq(AllFacts))
  BY DEF Hearing
<1>5. Readied(c, p, h2) /\ SysOf(c, p, h2) = SysOf(c, p, h)
  <2> DEFINE role == "assistant"
  <2>1. role \in Speaking
    BY DEF Speaking
  <2>2. p # c => Reads(c, new) \in Seq(Seq(ReadSet)) /\ FlattenSeq(Reads(c, new)) \in Seq(RoleMessages(role))
    BY <1>1, SpokenRead DEF AssistantRead
  <2> HIDE DEF role
  <2> QED
    BY <1>1, <1>4, <2>1, <2>2, ReadMore
<1>6. \E x : /\ x \in Seq(AllFacts) /\ Agrees(p, x, y)
             /\ Sequence(ms2) /\ Tolds(p, ms2) \in Seq(Seq(AllFacts)) /\ (p = "anthropic" => ms2 \in Seq(AMessages))
             /\ FlattenSeq(Tolds(p, ms2)) = FlattenSeq(Tolds(p, ms)) \o x
  <2>1. CASE p = "anthropic"
    <3>1. ms \in Seq(AMessages) /\ Readied(c, "anthropic", h)
      BY <1>4, <2>1 DEF Hearing
    <3>2. PICK B \in Seq(ABlocks) :
           /\ BlocksSay("assistant", B) = TellsAll(c, new)
           /\ Grows(c, MsOf(c, "anthropic", h), "assistant", B, MsOf(c, "anthropic", h \o new))
      BY <2>1, <3>1, AnthropicAssistant
    <3>3. Grown(ms, "assistant", B, ms2)
      BY <2>1, <3>2 DEF Grows
    <3> HIDE DEF ms, ms2
    <3>4. /\ ms2 \in Seq(AMessages) /\ Sequence(ms2) /\ Tolds("anthropic", ms2) \in Seq(Seq(AllFacts))
          /\ FlattenSeq(Tolds("anthropic", ms2)) = FlattenSeq(Tolds("anthropic", ms)) \o BlocksSay("assistant", B)
      BY <3>1, <3>2, <3>3, GrownTells DEF Speaking
    <3>5. Agrees(p, y, y)
      BY AlikeItself
    <3> QED
      BY <1>3, <2>1, <3>2, <3>4, <3>5
  <2>2. CASE p # "anthropic"
    <3>1. p \in OpenAI
      BY <2>2 DEF Protocols, OpenAI
    <3>2. PICK G : GrowsBy(p, MsOf(c, p, h), MsOf(c, p, h \o new), G) /\ AssistantSays(p, c, new, G)
      BY <1>4, <3>1, AssistantGrows
    <3> DEFINE x == FlattenSeq(G)
    <3>3. G \in Seq(Seq(Voice)) /\ Agrees(p, x, y)
      BY <3>2 DEF AssistantSays
    <3>4. G \in Seq(Seq(AllFacts)) /\ x \in Seq(AllFacts)
      BY <3>3, VoiceReplies, FlattenType
    <3>5. Sequence(ms2) /\ Tolds(p, ms2) = Tolds(p, ms) \o G
      BY <3>2 DEF GrowsBy
    <3> HIDE DEF ms, ms2
    <3>6. FlattenSeq(Tolds(p, ms) \o G) = FlattenSeq(Tolds(p, ms)) \o FlattenSeq(G)
      BY <1>4, <3>4, FlattenConcat
    <3>7. Tolds(p, ms) \o G \in Seq(Seq(AllFacts))
      <4> DEFINE S == Seq(AllFacts)
                 f == Tolds(p, ms)
      <4>1. f \in Seq(S) /\ G \in Seq(S)
        BY <1>4, <3>4
      <4> HIDE DEF S, f
      <4>2. f \o G \in Seq(S)
        BY <4>1, ConcatProperties
      <4> QED
        BY <4>2 DEF S, f
    <3> HIDE DEF y
    <3> QED
      BY <2>2, <3>3, <3>4, <3>5, <3>6, <3>7
  <2> QED
    BY <2>1, <2>2
<1>7. PICK x : /\ x \in Seq(AllFacts) /\ Agrees(p, x, y)
               /\ Sequence(ms2) /\ Tolds(p, ms2) \in Seq(Seq(AllFacts)) /\ (p = "anthropic" => ms2 \in Seq(AMessages))
               /\ FlattenSeq(Tolds(p, ms2)) = FlattenSeq(Tolds(p, ms)) \o x
  BY <1>6
<1> HIDE DEF y
<1>8. Hears(c, p, h2) = Hears(c, p, h) \o x
  <2>1. TellsMore(c, p, h, h2, x)
    BY <1>4, <1>5, <1>7 DEF TellsMore, Hearing
  <2> DEFINE z == x
  <2>2. TellsMore(c, p, h, h2, z)
    BY <2>1
  <2> HIDE DEF h2, z
  <2>3. Hears(c, p, h2) = Hears(c, p, h) \o z
    BY <2>2, HearsMore
  <2> QED
    BY <2>3 DEF z
<1> DEFINE xs == <<x>>
           ys == <<y>>
<1>9. xs \in Seq(Seq(AllFacts)) /\ ys \in Seq(Seq(AllFacts)) /\ FlattenSeq(xs) = x
  <2> DEFINE S == Seq(AllFacts)
  <2>1. x \in S /\ y \in S
    BY <1>3, <1>7
  <2>2. FlattenSeq(xs) = x
    BY <1>7, FlattenOne
  <2> HIDE DEF S
  <2>3. xs \in Seq(S) /\ ys \in Seq(S)
    BY <2>1
  <2> QED
    BY <2>2, <2>3 DEF S
<1>10. said1 \o ys = Append(said1, y) /\ Append(said1, y) \in Seq(Seq(AllFacts))
  <2> DEFINE S == Seq(AllFacts)
  <2>1. y \in S /\ said1 \in Seq(S)
    BY <1>3
  <2> HIDE DEF S
  <2>2. said1 \o ys = Append(said1, y) /\ Append(said1, y) \in Seq(S)
    BY <2>1, AppendIsConcat, AppendProperties
  <2> QED
    BY <2>2 DEF S
<1>11. Pieces(p, Hears(c, p, h2), said1 \o ys)
  <2>1. Len(xs) = Len(ys) /\ \A i \in DOMAIN ys : Agrees(p, xs[i], ys[i])
    BY <1>7
  <2> DEFINE heard == Hears(c, p, h)
  <2>2. Pieces(p, heard, said1)
    BY DEF Hearing
  <2> HIDE DEF xs, ys, heard
  <2>3. Pieces(p, heard \o FlattenSeq(xs), said1 \o ys)
    BY <1>9, <2>1, <2>2, PiecesMore
  <2> QED
    BY <1>8, <1>9, <2>3 DEF heard
<1>12. ContentFacts("system", NoId, SysOf(c, p, h2)) \in Seq(AllFacts)
  BY <1>5 DEF Hearing
<1> HIDE DEF h2, ms2, ys
<1>13. Hearing(c, p, h2, Append(said1, y))
  BY <1>5, <1>7, <1>10, <1>11, <1>12 DEF Hearing, ms2
<1> QED
  BY <1>3, <1>10, <1>13 DEF h2, y

-----------------------------------------------------------------------------
\* How a conversation begins: with the client's instructions, which are all that is heard.
Instructions == <<Fact("system", NoId, 1)>>
Begun(p, ms, sys) ==
  /\ Sequence(ms) /\ Tolds(p, ms) \in Seq(Seq(AllFacts)) /\ (p = "anthropic" => ms = <<>>)
  /\ ContentFacts("system", NoId, sys) \in Seq(AllFacts)
  /\ ContentFacts("system", NoId, sys) \o FlattenSeq(Tolds(p, ms)) = Instructions
  /\ \A i \in DOMAIN Tolds(p, ms) : Tolds(p, ms)[i] = Instructions

\* The instructions, as a text that is written and one that is read.
LEMMA InstructionsSaid ==
  /\ Instructions \in Seq(AllFacts) /\ Text(<<1>>) \in PlainSet /\ <<Text(<<1>>)>> \in Seq(PlainSet)
  /\ PlainSaid("system", NoId, <<Text(<<1>>)>>) = Instructions
  /\ TextBlock("text", <<1>>) \in PlainBlocks /\ Parts(<<TextBlock("text", <<1>>)>>) = <<Text(<<1>>)>>
  /\ ContentFacts("system", NoId, <<TextBlock("text", <<1>>)>>) = Instructions
<1> DEFINE t == Text(<<1>>)
           b == TextBlock("text", <<1>>)
<1>1. <<1>> \in Seq(Int) /\ NoId \in Int /\ "system" \in Whos
  BY DEF NoId, Whos
<1>2. t \in PlainSet /\ b \in PlainBlocks
  BY <1>1 DEF PlainSet, TextSet, Text, PlainBlocks, TextBlocks, TextBlock
<1>3. Part(b) = t
  BY DEF Part, PlainPart, TextBlock, Text
<1>4. PlainWords("system", NoId, t) = Instructions
  BY DEF PlainWords, Text, Utter, Instructions
<1> HIDE DEF t, b
<1>5. <<t>> \in Seq(PlainSet) /\ <<b>> \in Seq(PlainBlocks)
  <2> DEFINE S == PlainSet
             B == PlainBlocks
  <2>1. t \in S /\ b \in B
    BY <1>2
  <2> HIDE DEF S, B
  <2>2. <<t>> \in Seq(S) /\ <<b>> \in Seq(B)
    BY <2>1
  <2> QED
    BY <2>2 DEF S, B
<1>6. Parts(<<b>>) = <<t>>
  BY <1>3 DEF Parts
<1>7. PlainSaid("system", NoId, <<t>>) = Instructions
  BY <1>1, <1>2, <1>4, PlainsTold
<1>8. ContentFacts("system", NoId, <<b>>) = Instructions
  <2> DEFINE w == <<b>>
  <2>1. w \in Seq(PlainBlocks) /\ Parts(w) = <<t>>
    BY <1>5, <1>6
  <2> HIDE DEF w
  <2>2. ContentFacts("system", NoId, w) = PlainSaid("system", NoId, Parts(w))
    BY <1>1, <2>1, ContentRead
  <2> QED
    BY <1>7, <2>1, <2>2 DEF w
<1>9. Instructions \in Seq(AllFacts)
  BY <1>1, <1>5, <1>7, PlainsTold
<1> QED
  BY <1>2, <1>5, <1>6, <1>7, <1>8, <1>9 DEF t, b

\* They are what a converted request begins with,
LEMMA BegunConverted ==
  ASSUME NEW p \in Protocols, NEW role \in {"system", "developer"},
         NEW C, C = <<Message(role, <<Text(<< 1 >>)>>)>>
  PROVE  Begun(p, WriteMessages(p, C), WriteSystem(p, C))
<1> DEFINE q == <<Text(<<1>>)>>
           m == Message(role, q)
           ms == WriteMessages(p, C)
           sys == WriteSystem(p, C)
<1>1. q \in Seq(PlainSet) /\ Instructions \in Seq(AllFacts) /\ PlainSaid("system", NoId, q) = Instructions
  BY InstructionsSaid
<1>2. C = <<m>> /\ q # <<>> /\ m.role = role /\ m.parts = q /\ IsSystem(m)
  BY DEF Message, IsSystem
<1> HIDE DEF q, m
<1>3. CASE p = "anthropic"
  <2>1. ms = <<>>
    <3>1. <<>> \in Seq({m}) /\ m \in {m} /\ Append(<<>>, m) = <<m>>
      BY EmptySeq
    <3>2. WriteMessages(p, Append(<<>>, m)) = Gathered(p, WriteMessages(p, <<>>), m)
      BY <3>1, MessagesMore
    <3>3. WriteMessages(p, <<>>) = <<>>
      BY MessagesNone
    <3> QED
      BY <1>2, <1>3, <3>1, <3>2, <3>3 DEF Gathered
  <2> DEFINE b == ContentParts(p, role, q)
  <2>2. b \in Seq(PlainBlocks) /\ ContentFacts("system", NoId, b) = PlainSaid("system", NoId, q)
    BY <1>1, ContentWritten DEF Whos, NoId
  <2> HIDE DEF b
  <2>3. sys = b
    <3>1. sys = FlattenSeq(<<b>>)
      BY <1>2, <1>3 DEF WriteSystem, FlattenEach, b
    <3> QED
      BY <2>2, <3>1, FlattenOne
  <2>4. Sequence(ms) /\ Tolds(p, ms) = <<>> /\ <<>> \in Seq(Seq(AllFacts))
    BY <2>1, NoneHeard, EmptySeq DEF Tolds
  <2>5. FlattenSeq(Tolds(p, ms)) = <<>> /\ Instructions \o <<>> = Instructions
    BY <1>1, <2>4, FlattenEmpty, ConcatEmptySeq
  <2> DEFINE f == ContentFacts("system", NoId, sys)
             told == Tolds(p, ms)
  <2>6. f = Instructions /\ told = <<>> /\ \A i \in DOMAIN <<>> : <<>>[i] = Instructions
    BY <1>1, <2>2, <2>3, <2>4
  <2> HIDE DEF f, told
  <2>7. f \o FlattenSeq(told) = Instructions
    BY <2>4, <2>5, <2>6 DEF told
  <2>8. Begun(p, ms, sys)
    <3> HIDE DEF ms, sys
    <3> QED
      BY <1>1, <2>1, <2>4, <2>6, <2>7 DEF Begun, f, told
  <2> QED
    BY <2>8
<1>4. CASE p # "anthropic"
  <2>1. p \in OpenAI
    BY <1>4 DEF Protocols, OpenAI
  <2>2. sys = <<>>
    BY <1>4 DEF WriteSystem
  <2>3. ms = WriteMessage(p, <<>>, m)
    BY <1>2, <2>1, OneWritten
  <2>4. <<>> \o q = q /\ <<>> \in Seq(ResultSet)
    BY <1>1, ConcatEmptySeq, EmptySeq
  <2> DEFINE r == <<>>
  <2>5. m = Message(role, r \o q) /\ r \o q # <<>> /\ r \in Seq(ResultSet) /\ role \in {"user", "system", "developer"}
    BY <1>2, <2>4 DEF m
  <2> HIDE DEF r
  <2>6. Sequence(ms) /\ Tolds(p, ms) = OutsOf(Speaker(role), r, q)
    BY <1>1, <2>1, <2>3, <2>5, UserOuts
  <2>7. Map(ResultAs, r) = <<>>
    BY MapEmpty DEF r
  <2>8. Speaker(role) = "system"
    BY DEF Speaker
  <2>9. Tolds(p, ms) = <<Instructions>>
    <3> DEFINE e == Instructions
    <3>1. Tolds(p, ms) = <<>> \o <<PlainSaid("system", NoId, q)>>
      BY <1>2, <2>6, <2>7, <2>8 DEF OutsOf
    <3>2. <<>> \o <<e>> = <<e>>
      <4> HIDE DEF e
      <4> QED
        OBVIOUS
    <3> QED
      BY <1>1, <3>1, <3>2
  <2> DEFINE e == Instructions
             S == Seq(AllFacts)
  <2>10. e \in S
    BY <1>1
  <2>11. FlattenSeq(<<e>>) = e /\ <<>> \o e = e
    BY <1>1, FlattenOne, ConcatEmptySeq
  <2> HIDE DEF e, S
  <2>12. <<e>> \in Seq(S) /\ \A i \in DOMAIN <<e>> : <<e>>[i] = e
    BY <2>10
  <2>13. ContentFacts("system", NoId, <<>>) = <<>> /\ <<>> \in Seq(AllFacts)
    BY FlattenEmpty, EmptySeq DEF ContentFacts, FlattenEach
  <2>14. Tolds(p, ms) = <<e>>
    BY <2>9 DEF e
  <2>15. Begun(p, ms, sys)
    <3> HIDE DEF ms, sys
    <3> QED
      BY <1>4, <2>2, <2>6, <2>11, <2>12, <2>13, <2>14 DEF Begun, e, S
  <2> QED
    BY <2>15
<1> QED
  BY <1>3, <1>4

\* and one in the client's own protocol.
StartOf(c) == IF c = "chat" THEN <<ChatMessage("developer", <<TextBlock("text", <<1>>)>>, <<>>, <<>>)>> ELSE <<>>

\* Both are read and written as such.
LEMMA Opened ==
  ASSUME NEW c \in Protocols, NEW p \in Protocols
  PROVE  Readied(c, p, StartOf(c)) /\ Begun(p, MsOf(c, p, StartOf(c)), SysOf(c, p, StartOf(c)))
<1> DEFINE b == TextBlock("text", <<1>>)
           m == ChatMessage("developer", <<b>>, <<>>, <<>>)
           e == Instructions
           S == Seq(AllFacts)
           h == StartOf(c)
<1>1. /\ Instructions \in Seq(AllFacts) /\ Parts(<<b>>) = <<Text(<<1>>)>>
      /\ ContentFacts("system", NoId, <<b>>) = Instructions
      /\ <<Text(<<1>>)>> \in Seq(PlainSet)
  BY InstructionsSaid
<1>2. h = IF c = "chat" THEN <<m>> ELSE <<>>
  BY DEF StartOf
<1>3. m.role = "developer" /\ m.content = <<b>> /\ m.reasoning_content = <<>> /\ m.tool_calls = <<>>
  BY DEF ChatMessage
<1> HIDE DEF b, m, e, S, h
<1>4. Sequence(h)
  <2>1. <<m>> \in Seq({m})
    OBVIOUS
  <2> QED
    BY <1>2, <2>1, NoneHeard, IsSequence
<1>5. e \in S /\ FlattenSeq(<<e>>) = e /\ <<>> \o e = e /\ e \o <<>> = e
  BY <1>1, FlattenOne, ConcatEmptySeq DEF e, S
<1>6. /\ <<e>> \in Seq(S) /\ <<>> \in Seq(S) /\ (\A i \in DOMAIN <<e>> : <<e>>[i] = e)
      /\ FlattenSeq(<<>>) = <<>> /\ <<>> \in S
  BY <1>5, EmptySeq, FlattenEmpty DEF S
<1>7. ContentFacts("system", NoId, <<>>) = <<>>
  BY FlattenEmpty DEF ContentFacts, FlattenEach
<1>8. Told("chat", m) = e
  <2> DEFINE f == ContentFacts("system", NoId, <<b>>)
  <2>1. ChatFacts(m) = <<>> \o f \o <<>>
    <3> DEFINE none == FlattenSeq(<<>>)
    <3>1. ChatFacts(m) = none \o f \o none
      BY <1>3 DEF ChatFacts, FlattenEach, Speaker
    <3> QED
      BY <3>1, FlattenEmpty
  <2>2. f = e
    BY <1>1 DEF e
  <2> HIDE DEF f
  <2> QED
    BY <1>5, <2>1, <2>2 DEF Told
<1>9. CASE p = c
  <2>1. MsOf(c, p, h) = h /\ SysOf(c, p, h) = SystemOf(c)
    BY <1>9 DEF MsOf, SysOf
  <2>2. CASE c = "chat"
    <3>1. Tolds(p, h) = <<e>>
      BY <1>2, <1>8, <1>9, <2>2 DEF Tolds
    <3>2. SysOf(c, p, h) = <<>>
      BY <2>1, <2>2 DEF SystemOf
    <3> DEFINE sys == SysOf(c, p, h)
               ms == MsOf(c, p, h)
    <3>3. p # "anthropic" /\ Tolds(p, ms) = <<e>> /\ Sequence(ms) /\ ContentFacts("system", NoId, sys) = <<>>
      BY <1>4, <1>7, <1>9, <2>1, <2>2, <3>1, <3>2
    <3> HIDE DEF sys, ms
    <3>4. Begun(p, ms, sys)
      BY <1>5, <1>6, <3>3 DEF Begun, e, S
    <3> QED
      BY <1>4, <1>9, <3>4 DEF Readied, sys, ms, h
  <2>3. CASE c # "chat"
    <3>1. h = <<>> /\ Tolds(p, h) = <<>>
      BY <1>2, <2>3 DEF Tolds
    <3>2. ContentFacts("system", NoId, SysOf(c, p, h)) = e
      BY <1>1, <2>1, <2>3 DEF SystemOf, e, b
    <3>3. Begun(p, MsOf(c, p, h), SysOf(c, p, h))
      <4> DEFINE f == ContentFacts("system", NoId, SysOf(c, p, h))
      <4>1. f = e
        BY <3>2
      <4>2. Sequence(<<>>) /\ \A i \in DOMAIN <<>> : <<>>[i] = Instructions
        BY NoneHeard
      <4> HIDE DEF f
      <4>3. MsOf(c, p, h) = <<>>
        BY <2>1, <3>1
      <4>4. Tolds(p, MsOf(c, p, h)) = <<>>
        BY <2>1, <3>1
      <4> QED
        BY <1>5, <1>6, <4>1, <4>2, <4>3, <4>4 DEF Begun, e, S, f
    <3> QED
      BY <1>4, <1>9, <3>3 DEF Readied, h
  <2> QED
    BY <2>2, <2>3
<1>10. CASE p # c
  <2> DEFINE role == IF c = "chat" THEN "developer" ELSE "system"
             M == Message(role, <<Text(<<1>>)>>)
             C == Conversation(c, h)
  <2>1. Reads(c, h) = IF c = "chat" THEN << <<M>> >> ELSE <<>>
    <3>1. CASE c = "chat"
      <4>1. ReadMessage(c, m) = <<Message("developer", (<<>> \o <<Text(<<1>>)>>) \o <<>>)>>
        BY <1>1, <1>3, <3>1 DEF ReadMessage, ThinkingOf, ToolsOf
      <4>2. (<<>> \o <<Text(<<1>>)>>) \o <<>> = <<Text(<<1>>)>>
        BY <1>1, ConcatEmptySeq
      <4> QED
        BY <1>2, <3>1, <4>1, <4>2 DEF Reads
    <3>2. CASE c # "chat"
      BY <1>2, <3>2 DEF Reads
    <3> QED
      BY <3>1, <3>2
  <2>2. M \in ReadSet
    BY <1>1 DEF Message, ReadSet, Systems
  <2>3. Opening(c) = IF c = "chat" THEN <<>> ELSE <<M>>
    BY DEF Opening
  <2>4. role \in {"system", "developer"}
    OBVIOUS
  <2>5. C = Opening(c) \o FlattenSeq(Reads(c, h))
    BY DEF Conversation
  <2> HIDE DEF M, C
  <2> DEFINE T == ReadSet
             M1 == <<M>>
  <2>6. M1 \in Seq(T) /\ <<M1>> \in Seq(Seq(T)) /\ <<>> \in Seq(Seq(T))
    <3> HIDE DEF T
    <3>1. M1 \in Seq(T)
      BY <2>2 DEF T
    <3> HIDE DEF M1
    <3> QED
      BY <3>1, EmptySeq
  <2>7. FlattenSeq(<<M1>>) = M1 /\ M1 \o <<>> = M1 /\ <<>> \o M1 = M1
    BY <2>6, FlattenOne, ConcatEmptySeq
  <2>8. C = M1
    BY <2>1, <2>3, <2>5, <2>7, FlattenEmpty
  <2>9. Reads(c, h) \in Seq(Seq(ReadSet))
    BY <2>1, <2>6
  <2>10. Begun(p, WriteMessages(p, C), WriteSystem(p, C))
    BY <2>4, <2>8, BegunConverted DEF M
  <2> QED
    BY <1>4, <1>10, <2>9, <2>10 DEF Readied, MsOf, SysOf, C, h
<1> QED
  BY <1>9, <1>10

-----------------------------------------------------------------------------
\* The calls of an answer are new: the words of the parts that call tools.
PicksOf(shape) ==
  FlattenSeq([i \in DOMAIN shape |-> IF shape[i] \in ToolKinds THEN <<words + i>> ELSE <<>>])
Fresh(ids, w, w2) == ids \in Seq(Nat) /\ Distinct(ids) /\ ToSet(ids) \subseteq w + 1 .. w2

\* No calls are new,
LEMMA FreshNone == ASSUME NEW w, NEW w2 PROVE Fresh(<<>>, w, w2)
BY DEF Fresh, Distinct, ToSet

\* they stay so when words are said,
LEMMA FreshLater ==
  ASSUME NEW w \in Nat, NEW w2 \in Nat, NEW ids, Fresh(ids, w, w2)
  PROVE  Fresh(ids, w, w2 + 1)
<1>1. w + 1 .. w2 \subseteq w + 1 .. w2 + 1
  OBVIOUS
<1> QED
  BY <1>1 DEF Fresh

\* and so is a call that is said now.
LEMMA FreshMore ==
  ASSUME NEW w \in Nat, NEW w2 \in Nat, w2 >= w, NEW ids, Fresh(ids, w, w2), NEW e, e = w2 + 1
  PROVE  Fresh(ids \o <<e>>, w, e)
<1> DEFINE n == Len(ids)
           all == ids \o <<e>>
<1>1. e \in Nat /\ <<e>> \in Seq(Nat) /\ ids \in Seq(Nat) /\ Len(<<e>>) = 1
  BY DEF Fresh
<1>2. /\ all \in Seq(Nat) /\ n \in Nat /\ DOMAIN all = 1 .. n + 1 /\ DOMAIN ids = 1 .. n
      /\ \A i \in 1 .. n : all[i] = ids[i]
      /\ \A i \in n + 1 .. n + 1 : all[i] = <<e>>[i - n]
  BY <1>1, Joined
<1>3. all[n + 1] = e
  <2>1. n + 1 \in n + 1 .. n + 1 /\ (n + 1) - n = 1
    BY <1>2
  <2> QED
    BY <1>2, <2>1
<1> HIDE DEF n, all
<1>4. \A i \in 1 .. n : ids[i] \in w + 1 .. w2
  BY <1>2 DEF Fresh, ToSet
<1>5. \A i \in 1 .. n + 1 : i \in 1 .. n \/ i = n + 1
  BY <1>2
<1>6. \A i \in 1 .. n : all[i] # e /\ all[i] \in w + 1 .. e
  BY <1>2, <1>4
<1>7. Distinct(all)
  <2> SUFFICES ASSUME NEW i \in DOMAIN all, NEW j \in DOMAIN all, all[i] = all[j] PROVE i = j
    BY DEF Distinct
  <2>1. CASE i \in 1 .. n /\ j \in 1 .. n
    BY <1>2, <2>1 DEF Fresh, Distinct
  <2>2. CASE ~ (i \in 1 .. n /\ j \in 1 .. n)
    BY <1>2, <1>3, <1>5, <1>6, <2>2
  <2> QED
    BY <2>1, <2>2
<1>8. ToSet(all) \subseteq w + 1 .. e
  <2>1. e \in w + 1 .. e
    OBVIOUS
  <2>2. \A i \in DOMAIN all : all[i] \in w + 1 .. e
    BY <1>2, <1>3, <1>5, <1>6, <2>1
  <2> QED
    BY <2>2 DEF ToSet
<1> QED
  BY <1>2, <1>7, <1>8 DEF Fresh, all

\* So they are for every shape.
LEMMA Picked ==
  ASSUME words \in Nat, NEW shape \in Seq(Kinds)
  PROVE  Fresh(PicksOf(shape), words, words + Len(shape))
<1> DEFINE P == {s \in Seq(Kinds) : Fresh(PicksOf(s), words, words + Len(s))}
<1>1. <<>> \in P
  <2>1. PicksOf(<<>>) = <<>>
    <3>1. [i \in DOMAIN <<>> |-> IF <<>>[i] \in ToolKinds THEN <<words + i>> ELSE <<>>] = <<>>
      OBVIOUS
    <3> QED
      BY <3>1, FlattenEmpty DEF PicksOf
  <2> QED
    BY <2>1, FreshNone, EmptySeq
<1>2. ASSUME NEW s \in Seq(Kinds), NEW k \in Kinds, s \in P PROVE Append(s, k) \in P
  <2> DEFINE n == Len(s)
             t == Append(s, k)
             Pick(u) == [i \in DOMAIN u |-> IF u[i] \in ToolKinds THEN <<words + i>> ELSE <<>>]
             last == IF k \in ToolKinds THEN <<words + n + 1>> ELSE <<>>
  <2>1. /\ t \in Seq(Kinds) /\ n \in Nat /\ Len(t) = n + 1 /\ DOMAIN s = 1 .. n /\ DOMAIN t = 1 .. n + 1
        /\ t[n + 1] = k /\ \A i \in 1 .. n : t[i] = s[i]
    BY AppendProperties, LenProperties
  <2>2. Pick(s) \in Seq(Seq(Nat)) /\ last \in Seq(Nat)
    <3>1. \A i \in 1 .. n : words + i \in Nat
      BY <2>1
    <3>2. \A i \in 1 .. n : Pick(s)[i] \in Seq(Nat)
      BY <2>1, <3>1
    <3>3. DOMAIN Pick(s) = 1 .. n /\ Pick(s) = [i \in 1 .. n |-> Pick(s)[i]]
      BY <2>1
    <3>4. Pick(s) \in Seq(Seq(Nat))
      <4> DEFINE g == Pick(s)
      <4>1. g = [i \in 1 .. n |-> g[i]] /\ \A i \in 1 .. n : g[i] \in Seq(Nat)
        BY <3>2, <3>3
      <4> HIDE DEF g
      <4> QED
        BY <2>1, <4>1
    <3>5. last \in Seq(Nat)
      BY <2>1
    <3> QED
      BY <3>4, <3>5
  <2>3. Pick(t) = Append(Pick(s), last)
    <3> DEFINE g == Pick(s)
               h == Pick(t)
               a == Append(g, last)
    <3>1. DOMAIN h = 1 .. n + 1 /\ DOMAIN g = 1 .. n
      BY <2>1
    <3>2. h[n + 1] = last /\ \A i \in 1 .. n : h[i] = g[i]
      BY <2>1
    <3>3. h \in [1 .. n + 1 -> {h[i] : i \in 1 .. n + 1}]
      BY <3>1
    <3> HIDE DEF h
    <3>4. g \in Seq(Seq(Nat))
      BY <2>2
    <3> HIDE DEF g, last
    <3>5. a \in Seq(Seq(Nat)) /\ Len(g) = n /\ DOMAIN a = 1 .. n + 1 /\ a[n + 1] = last
          /\ \A i \in 1 .. n : a[i] = g[i]
      BY <2>1, <2>2, <3>1, <3>4, AppendProperties, LenProperties
    <3> HIDE DEF a
    <3>6. \A i \in 1 .. n + 1 : i \in 1 .. n \/ i = n + 1
      BY <2>1
    <3>7. a = [i \in 1 .. n + 1 |-> a[i]] /\ h = [i \in 1 .. n + 1 |-> h[i]]
      BY <3>3, <3>5
    <3>8. h = a
      BY <3>2, <3>5, <3>6, <3>7
    <3> QED
      BY <3>8 DEF h, a, g
  <2>4. PicksOf(t) = PicksOf(s) \o last
    <3>1. PicksOf(t) = FlattenSeq(Pick(t)) /\ PicksOf(s) = FlattenSeq(Pick(s))
      BY DEF PicksOf
    <3> DEFINE g == Pick(s)
    <3> HIDE DEF g, last
    <3>2. FlattenSeq(Append(g, last)) = FlattenSeq(g) \o last
      BY <2>2, FlattenAppend DEF g
    <3> QED
      BY <2>3, <3>1, <3>2 DEF g
  <2> DEFINE ids == PicksOf(s)
             w2 == words + n
  <2>5. Fresh(ids, words, w2) /\ ids \in Seq(Nat)
    BY <1>2 DEF Fresh
  <2>6. w2 \in Nat /\ w2 >= words /\ words + Len(t) = w2 + 1 /\ words + n + 1 = w2 + 1
    BY <2>1
  <2> HIDE DEF ids, w2
  <2>7. CASE k \in ToolKinds
    <3> DEFINE e == w2 + 1
    <3>1. last = <<e>>
      BY <2>6, <2>7
    <3> HIDE DEF e, last
    <3>2. Fresh(ids \o <<e>>, words, e)
      BY <2>5, <2>6, FreshMore DEF e
    <3>3. Fresh(PicksOf(t), words, words + Len(t))
      BY <2>4, <2>6, <3>1, <3>2 DEF ids, e
    <3> QED
      BY <2>1, <3>3
  <2>8. CASE k \notin ToolKinds
    <3>1. last = <<>>
      BY <2>8
    <3> HIDE DEF last
    <3>2. ids \o <<>> = ids
      BY <2>5, ConcatEmptySeq
    <3>3. Fresh(ids, words, w2 + 1)
      BY <2>5, <2>6, FreshLater
    <3>4. Fresh(PicksOf(t), words, words + Len(t))
      BY <2>4, <2>6, <3>1, <3>2, <3>3 DEF ids
    <3> QED
      BY <2>1, <3>4
  <2> QED
    BY <2>7, <2>8
<1> HIDE DEF P
<1>3. Seq(Kinds) \subseteq P
  BY <1>1, <1>2, SeqInduction
<1> QED
  BY <1>3 DEF P

-----------------------------------------------------------------------------
\* The calls of an answer, as the client hears them, are those of what it keeps.  The members of
\* one type, from each member,
OneOf(S, type, id) == [b \in S |-> IF b.type = type THEN <<id[b]>> ELSE <<>>]

\* are those of that type.
LEMMA CallsOnly ==
  ASSUME NEW S, NEW blocks \in Seq(S), NEW type, NEW id, NEW uses, uses = OnlyThese(blocks, {type})
  PROVE  /\ \A i \in DOMAIN uses : uses[i] \in S
         /\ Map(id, uses) = FlattenSeq(Map(OneOf(S, type, id), blocks))
<1> DEFINE only == [b \in S |-> IF b.type = type THEN <<b>> ELSE <<>>]
           each == OneOf(S, type, id)
<1>1. uses = FlattenSeq(Map(only, blocks))
  <2>1. \A i \in DOMAIN blocks : blocks[i] \in S
    BY MembersIn
  <2>2. [i \in DOMAIN blocks |-> IF blocks[i].type \in {type} THEN <<blocks[i]>> ELSE <<>>] = Map(only, blocks)
    BY <2>1 DEF Map
  <2> QED
    BY <2>2 DEF OnlyThese
<1>2. Gives(only, S, Seq(S))
  BY DEF Gives
<1>3. Listed(each, only, id, S)
  <2> SUFFICES ASSUME NEW b \in S PROVE each[b] = Map(id, only[b])
    BY DEF Listed
  <2>1. CASE b.type = type
    <3>1. only[b] = <<b>> /\ each[b] = <<id[b]>>
      BY <2>1 DEF OneOf
    <3> QED
      BY <3>1, MapOne
  <2>2. CASE b.type # type
    <3>1. only[b] = <<>> /\ each[b] = <<>>
      BY <2>2 DEF OneOf
    <3> QED
      BY <3>1, MapEmpty
  <2> QED
    BY <2>1, <2>2
<1> HIDE DEF only, each
<1>4. uses \in Seq(S)
  BY <1>1, <1>2, FlattenMapType
<1>5. Map(id, FlattenSeq(Map(only, blocks))) = FlattenSeq(Map(each, blocks))
  BY <1>2, <1>3, MapFlatten
<1> QED
  BY <1>1, <1>4, <1>5, MembersIn DEF each

\* The calls of an Anthropic answer,
LEMMA UsesSpoken ==
  ASSUME NEW body, body.content \in Seq(AnswerBlocks \cup OpaqueBlock)
  PROVE  Spoken("anthropic", body).calls = FlattenSeq([i \in DOMAIN body.content |-> UseCalls(body.content[i])])
<1> DEFINE S == AnswerBlocks \cup OpaqueBlock
           c == body.content
           id == [b \in S |-> b.id]
           uses == OnlyThese(c, {"tool_use"})
           texts == OnlyThese(c, {"text", "redacted_thinking"})
           thoughts == OnlyThese(c, {"thinking"})
<1>1. Spoken("anthropic", body).calls = [i \in DOMAIN uses |-> uses[i].id]
  <2> HIDE DEF uses, texts, thoughts
  <2>1. Spoken("anthropic", body) =
          [text |-> FlattenSeq([i \in DOMAIN texts |-> texts[i].text]),
           thinking |-> FlattenSeq([i \in DOMAIN thoughts |-> thoughts[i].thinking]),
           calls |-> [i \in DOMAIN uses |-> uses[i].id]]
    BY SpokenAnthropic DEF uses, texts, thoughts
  <2> QED
    BY <2>1
<1>2. c \in Seq(S) /\ \A i \in DOMAIN c : c[i] \in S
  BY MembersIn
<1> HIDE DEF texts, thoughts, c, id, uses, S
<1>3. /\ \A i \in DOMAIN uses : uses[i] \in S
      /\ Map(id, uses) = FlattenSeq(Map(OneOf(S, "tool_use", id), c))
  BY <1>2, CallsOnly DEF uses
<1>4. Map(id, uses) = [i \in DOMAIN uses |-> uses[i].id]
  BY <1>3 DEF Map, id
<1>5. Map(OneOf(S, "tool_use", id), c) = [i \in DOMAIN c |-> UseCalls(c[i])]
  BY <1>2 DEF Map, id, OneOf, UseCalls
<1> QED
  BY <1>1, <1>3, <1>4, <1>5 DEF c

\* of a Responses answer
LEMMA ItemsSpoken ==
  ASSUME NEW body, body.output \in Seq(ResponsesKept)
  PROVE  Spoken("responses", body).calls = FlattenSeq([i \in DOMAIN body.output |-> ItemCalls(body.output[i])])
<1> DEFINE S == ResponsesKept
           c == body.output
           id == [b \in S |-> b.call_id]
           uses == OnlyThese(c, {"function_call"})
           thoughts == OnlyThese(c, {"reasoning"})
<1>1. Spoken("responses", body).calls = [i \in DOMAIN uses |-> uses[i].call_id]
  <2> HIDE DEF uses, thoughts
  <2>1. Spoken("responses", body) =
          [text |-> FlattenSeq([i \in DOMAIN body.output |->
                      IF body.output[i].type = "message"
                        THEN FlattenSeq([j \in DOMAIN body.output[i].content |-> body.output[i].content[j].text])
                        ELSE <<>>]),
           thinking |-> FlattenSeq([i \in DOMAIN thoughts |-> FlattenSeq(thoughts[i].summary)]),
           calls |-> [i \in DOMAIN uses |-> uses[i].call_id]]
    BY SpokenResponses DEF uses, thoughts
  <2> QED
    BY <2>1
<1>2. c \in Seq(S) /\ \A i \in DOMAIN c : c[i] \in S
  BY MembersIn
<1> HIDE DEF thoughts, c, id, uses, S
<1>3. /\ \A i \in DOMAIN uses : uses[i] \in S
      /\ Map(id, uses) = FlattenSeq(Map(OneOf(S, "function_call", id), c))
  BY <1>2, CallsOnly DEF uses
<1>4. Map(id, uses) = [i \in DOMAIN uses |-> uses[i].call_id]
  BY <1>3 DEF Map, id
<1>5. Map(OneOf(S, "function_call", id), c) = [i \in DOMAIN c |-> ItemCalls(c[i])]
  BY <1>2 DEF Map, id, OneOf, ItemCalls
<1> QED
  BY <1>1, <1>3, <1>4, <1>5 DEF c

\* and of a Chat answer.
LEMMA ToolCallsSpoken ==
  ASSUME NEW body
  PROVE  Spoken("chat", body).calls = [i \in DOMAIN body.tool_calls |-> body.tool_calls[i].id]
<1>1. Spoken("chat", body) =
        [text |-> FlattenSeq([i \in DOMAIN body.content |-> body.content[i].text]) \o body.refusal,
         thinking |-> body.reasoning_content,
         calls |-> [i \in DOMAIN body.tool_calls |-> body.tool_calls[i].id]]
  BY SpokenChat
<1> QED
  BY <1>1

\* What the client keeps calls the same.
LEMMA KeptCalls ==
  ASSUME client \in Protocols, NEW told, NEW new, new = Kept(told), new \in Seq(KeptMessages(client))
  PROVE  CallsIn(TellsAll(client, new)) = Spoken(client, told).calls
<1>1. TellsAll(client, new) = FlattenSeq(Tolds(client, new))
  BY TellsAllOf
<1>2. CASE client = "chat"
  <2> DEFINE m == ChatMessage("assistant", told.content, told.reasoning_content, told.tool_calls)
             t == Told("chat", m)
  <2>1. new = <<m>> /\ m.tool_calls = told.tool_calls
    BY <1>2 DEF Kept, ChatMessage
  <2> HIDE DEF m
  <2>2. m \in ChatKept
    <3>1. 1 \in DOMAIN new /\ new[1] = m
      BY <2>1
    <3>2. new[1] \in KeptMessages(client)
      BY <3>1, MembersIn
    <3> QED
      BY <1>2, <3>1, <3>2 DEF KeptMessages
  <2>3. Tolds(client, new) = <<t>>
    BY <1>2, <2>1 DEF Tolds
  <2>4. t \in Seq(Facts)
    BY <2>2, ChatTold
  <2>5. CallsIn(t) = [i \in DOMAIN m.tool_calls |-> m.tool_calls[i].id]
    BY <2>2, ChatCalls
  <2> HIDE DEF t
  <2>6. FlattenSeq(<<t>>) = t
    BY <2>4, FlattenOne
  <2> QED
    BY <1>1, <1>2, <2>1, <2>3, <2>5, <2>6, ToolCallsSpoken
<1>3. CASE client = "responses"
  <2> DEFINE G == Tolds("responses", new)
  <2>1. new = told.output /\ new \in Seq(ResponsesKept)
    BY <1>3 DEF Kept, KeptMessages
  <2>2. \A i \in DOMAIN new : new[i] \in ResponsesKept
    BY <2>1, MembersIn
  <2>3. \A i \in DOMAIN new : Told("responses", new[i]) \in Seq(Facts) /\ Told("responses", new[i]) \in Seq(AllFacts)
    <3>1. \A i \in DOMAIN new : Told("responses", new[i]) \in Seq(Voice)
      BY <1>3, <2>2, KeptVoice DEF KeptMessages
    <3>2. \A i \in DOMAIN new : Told("responses", new[i]) \in Seq(Facts)
      BY <2>2, ResponsesTold
    <3> QED
      BY <3>1, <3>2, VoiceOf
  <2>4. G \in Seq(Seq(AllFacts)) /\ DOMAIN G = DOMAIN new /\ \A i \in DOMAIN new : G[i] = Told("responses", new[i])
    <3>1. Len(new) \in Nat /\ DOMAIN new = 1 .. Len(new)
      BY <2>1, LenProperties
    <3> QED
      BY <2>3, <3>1 DEF Tolds
  <2> HIDE DEF G
  <2>5. CallsIn(FlattenSeq(G)) = FlattenSeq(Map(CallsOfEach, G))
    BY <2>4, CallsOfAll
  <2>6. Map(CallsOfEach, G) = [i \in DOMAIN new |-> ItemCalls(new[i])]
    <3>1. \A i \in DOMAIN new : CallsOfEach[G[i]] = ItemCalls(new[i])
      BY <2>2, <2>3, <2>4, ItemsCall DEF CallsOfEach
    <3> QED
      BY <2>4, <3>1 DEF Map
  <2>7. Spoken("responses", told).calls = FlattenSeq([i \in DOMAIN new |-> ItemCalls(new[i])])
    BY <2>1, ItemsSpoken
  <2> QED
    BY <1>1, <1>3, <2>5, <2>6, <2>7 DEF G
<1>4. CASE client = "anthropic"
  <2> DEFINE c == told.content
  <2>1. new = IF c = <<>> THEN <<>> ELSE <<AMessage("assistant", c)>>
    BY <1>4 DEF Kept, AMessage
  <2>2. c \in Seq(AnswerBlocks \cup OpaqueBlock)
    <3>1. CASE c = <<>>
      BY <3>1, EmptySeq
    <3>2. CASE c # <<>>
      <4>1. 1 \in DOMAIN new /\ new[1] = AMessage("assistant", c)
        BY <2>1, <3>2
      <4>2. new[1] \in KeptMessages(client)
        BY <4>1, MembersIn
      <4> QED
        BY <1>4, <4>1, <4>2 DEF KeptMessages, AnthropicKept, AMessage
    <3> QED
      BY <3>1, <3>2
  <2> HIDE DEF c
  <2>3. Spoken("anthropic", told).calls = FlattenSeq([i \in DOMAIN c |-> UseCalls(c[i])])
    BY <2>2, UsesSpoken DEF c
  <2>4. /\ \A i \in DOMAIN c : c[i] \in ABlocks /\ CallsIn(BlockTold("assistant")[c[i]]) = UseCalls(c[i])
        /\ c \in Seq(ABlocks)
    <3>1. \A i \in DOMAIN c : c[i] \in AnswerBlocks \cup OpaqueBlock
      BY <2>2, MembersIn
    <3>2. AnswerBlocks \cup OpaqueBlock \subseteq ABlocks
      BY DEF ABlocks
    <3>3. c \in Seq(ABlocks)
      BY <2>2, <3>2, SeqOfMore
    <3> QED
      BY <3>1, <3>3, BlockCalls
  <2> DEFINE G == Map(BlockTold("assistant"), c)
  <2>5. G \in Seq(Seq(AllFacts)) /\ DOMAIN G = DOMAIN c /\ \A i \in DOMAIN c : G[i] = BlockTold("assistant")[c[i]]
    <3>1. Gives(BlockTold("assistant"), ABlocks, Seq(AllFacts))
      BY BlockFactsTyped DEF Speaking
    <3>2. G \in Seq(Seq(AllFacts))
      BY <2>4, <3>1, MapType
    <3> QED
      BY <3>2 DEF Map
  <2> HIDE DEF G
  <2>6. CallsIn(FlattenSeq(G)) = FlattenSeq(Map(CallsOfEach, G))
    BY <2>5, CallsOfAll
  <2>7. Map(CallsOfEach, G) = [i \in DOMAIN c |-> UseCalls(c[i])]
    <3>1. \A i \in DOMAIN c : G[i] \in Seq(AllFacts)
      BY <2>5, MembersIn
    <3>2. \A i \in DOMAIN c : CallsOfEach[G[i]] = UseCalls(c[i])
      BY <2>4, <2>5, <3>1 DEF CallsOfEach
    <3> QED
      BY <2>5, <3>2 DEF Map
  <2>8. CallsIn(BlocksSay("assistant", c)) = Spoken("anthropic", told).calls
    BY <2>3, <2>6, <2>7 DEF BlocksSay, G
  <2>9. BlocksSay("assistant", <<>>) = <<>> /\ BlocksSay("assistant", c) \in Seq(AllFacts)
        /\ Told("anthropic", AMessage("assistant", c)) = BlocksSay("assistant", c)
    BY <2>4, BlocksTell DEF Speaking
  <2>10. FlattenSeq(Tolds(client, new)) = BlocksSay("assistant", c)
    <3>1. CASE c = <<>>
      <4>1. Tolds(client, new) = <<>>
        BY <2>1, <3>1 DEF Tolds
      <4> QED
        BY <2>9, <3>1, <4>1, FlattenEmpty
    <3>2. CASE c # <<>>
      <4> DEFINE t == BlocksSay("assistant", c)
                 m == AMessage("assistant", c)
      <4>1. new = <<m>> /\ Told("anthropic", m) = t /\ t \in Seq(AllFacts)
        BY <2>1, <2>9, <3>2
      <4> HIDE DEF m, t
      <4>2. Tolds(client, new) = <<t>>
        BY <1>4, <4>1 DEF Tolds
      <4>3. FlattenSeq(<<t>>) = t
        BY <4>1, FlattenOne
      <4> QED
        BY <4>2, <4>3 DEF t
    <3> QED
      BY <3>1, <3>2
  <2> QED
    BY <1>1, <1>4, <2>8, <2>10
<1> QED
  BY <1>2, <1>3, <1>4 DEF Protocols

\* A provider calls tools where its answer has them.
LEMMA UsesPicked ==
  ASSUME NEW kind \in Kinds, NEW word
  PROVE  /\ UseCalls(AnthropicWrites(kind, word)) = IF kind \in ToolKinds THEN <<word>> ELSE <<>>
         /\ ItemCalls(ResponsesWrites(kind, word)) = IF kind \in ToolKinds THEN <<word>> ELSE <<>>
<1>1. CASE kind \in ToolKinds
  BY <1>1 DEF UseCalls, ItemCalls, AnthropicWrites, ResponsesWrites, ToolUse, CallItem, ToolKinds
<1>2. CASE kind = "thinking"
  BY <1>2 DEF UseCalls, ItemCalls, AnthropicWrites, ResponsesWrites, ThinkingBlock, ReasoningItem, ToolKinds
<1>3. CASE kind \in {"opaque", "text", "refusal"}
  BY <1>3 DEF UseCalls, ItemCalls, AnthropicWrites, ResponsesWrites, TextBlock, MessageItem, ToolKinds
<1> QED
  BY <1>1, <1>2, <1>3 DEF Kinds

\* A Chat answer has its calls in a list,
LEMMA MadePicked ==
  ASSUME words \in Nat, NEW shape \in Seq(Kinds)
  PROVE  [i \in DOMAIN CallsMade(shape) |-> CallsMade(shape)[i].id] = PicksOf(shape)
<1> DEFINE n == Len(shape)
           S == 1 .. n
           idx == [i \in S |-> i]
           f == [i \in S |-> IF shape[i] \in ToolKinds THEN <<Call(words + i, Given(shape[i]))>> ELSE <<>>]
           h == [i \in S |-> IF shape[i] \in ToolKinds THEN <<words + i>> ELSE <<>>]
           id == [c \in CallParted |-> c.id]
           cm == CallsMade(shape)
<1>1. n \in Nat /\ DOMAIN shape = S /\ \A i \in S : shape[i] \in Kinds
  BY LenProperties, MembersIn
<1>2. idx \in Seq(S) /\ DOMAIN idx = S /\ \A i \in S : idx[i] = i
  BY <1>1
<1>3. \A i \in S : Call(words + i, Given(shape[i])) \in CallParted /\ words + i \in Nat
  BY <1>1, GivenIn DEF Call, CallParted
<1>4. cm = FlattenSeq(Map(f, idx)) /\ PicksOf(shape) = FlattenSeq(Map(h, idx))
  <2>1. Map(f, idx) = f /\ Map(h, idx) = h
    BY <1>2 DEF Map
  <2> QED
    BY <1>1, <2>1 DEF CallsMade, PicksOf
<1>5. Gives(f, S, Seq(CallParted))
  BY <1>3 DEF Gives
<1>6. Listed(h, f, id, S)
  <2> SUFFICES ASSUME NEW i \in S PROVE h[i] = Map(id, f[i])
    BY DEF Listed
  <2>1. CASE shape[i] \in ToolKinds
    <3> DEFINE c == Call(words + i, Given(shape[i]))
    <3>1. f[i] = <<c>> /\ h[i] = <<words + i>> /\ c \in CallParted /\ c.id = words + i
      BY <1>3, <2>1 DEF Call
    <3> HIDE DEF c, f, h
    <3>2. id[c] = words + i
      BY <3>1
    <3> HIDE DEF id
    <3> QED
      BY <3>1, <3>2, MapOne
  <2>2. CASE shape[i] \notin ToolKinds
    <3>1. f[i] = <<>> /\ h[i] = <<>>
      BY <2>2
    <3> HIDE DEF f, h, id
    <3> QED
      BY <3>1, MapEmpty
  <2> QED
    BY <2>1, <2>2
<1>7. cm \in Seq(CallParted)
  BY CallsType
<1> HIDE DEF f, h, idx, S, cm
<1>8. Map(id, cm) = PicksOf(shape)
  <2> HIDE DEF id
  <2> QED
    BY <1>2, <1>4, <1>5, <1>6, MapFlatten
<1>9. \A i \in DOMAIN cm : cm[i] \in CallParted
  BY <1>7, MembersIn
<1>10. Map(id, cm) = [i \in DOMAIN cm |-> cm[i].id]
  BY <1>9 DEF Map
<1> QED
  BY <1>8, <1>10 DEF cm

\* and whatever the protocol, they are new.
LEMMA AnswerPicks ==
  ASSUME NEW p, NEW shape, NEW end, NEW all, Saying(p, shape, end, all),
         NEW body, body = Answers(p, shape, end, all)
  PROVE  Spoken(p, body).calls = PicksOf(shape)
<1>1. shape \in Seq(Kinds) /\ words \in Nat /\ p \in Protocols
  BY DEF Saying
<1>2. Len(shape) \in Nat /\ DOMAIN shape = 1 .. Len(shape) /\ \A i \in DOMAIN shape : shape[i] \in Kinds
  BY <1>1, LenProperties, MembersIn
<1>3. \A i \in DOMAIN shape : words + i \in Nat
  BY <1>1, <1>2
<1>4. CASE p = "chat"
  <2> DEFINE cm == CallsMade(shape)
  <2>1. body.tool_calls = cm
    <3>1. body = Answers("chat", shape, end, all)
      BY <1>4
    <3>2. /\ body.content = IF "text" \in ToSet(shape) THEN <<TextBlock("text", Words(shape, "text"))>> ELSE <<>>
          /\ body.refusal = Words(shape, "refusal") /\ body.reasoning_content = Words(shape, "thinking")
          /\ body.tool_calls = CallsMade(shape)
      BY <3>1, AnswerChat
    <3> QED
      BY <3>2
  <2>2. [i \in DOMAIN cm |-> cm[i].id] = PicksOf(shape)
    BY <1>1, MadePicked
  <2> HIDE DEF cm
  <2> QED
    BY <1>4, <2>1, <2>2, ToolCallsSpoken
<1>5. CASE p = "anthropic"
  <2> DEFINE content == [i \in DOMAIN shape |-> AnthropicWrites(shape[i], words + i)]
  <2>1. body.content = content
    BY <1>5, AnswerAnthropic
  <2>2. \A i \in DOMAIN content : content[i] \in AnswerBlocks \cup OpaqueBlock
    BY <1>2, <1>3, AnthropicKinds
  <2>3. content \in Seq(AnswerBlocks \cup OpaqueBlock)
    BY <1>2, <2>2
  <2>4. DOMAIN content = DOMAIN shape
        /\ \A i \in DOMAIN shape : UseCalls(content[i]) = IF shape[i] \in ToolKinds THEN <<words + i>> ELSE <<>>
    BY <1>2, UsesPicked
  <2> HIDE DEF content
  <2>5. Spoken("anthropic", body).calls = FlattenSeq([i \in DOMAIN content |-> UseCalls(content[i])])
    BY <2>1, <2>3, UsesSpoken
  <2>6. [i \in DOMAIN content |-> UseCalls(content[i])]
          = [i \in DOMAIN shape |-> IF shape[i] \in ToolKinds THEN <<words + i>> ELSE <<>>]
    BY <2>4
  <2> QED
    BY <1>5, <2>5, <2>6 DEF PicksOf
<1>6. CASE p = "responses"
  <2> DEFINE output == [i \in DOMAIN shape |-> ResponsesWrites(shape[i], words + i)]
  <2>1. body.output = output
    BY <1>6, AnswerResponses
  <2>2. \A i \in DOMAIN output : output[i] \in ResponsesKept
    BY <1>2, <1>3, ResponsesKinds
  <2>3. output \in Seq(ResponsesKept)
    BY <1>2, <2>2
  <2>4. DOMAIN output = DOMAIN shape
        /\ \A i \in DOMAIN shape : ItemCalls(output[i]) = IF shape[i] \in ToolKinds THEN <<words + i>> ELSE <<>>
    BY <1>2, UsesPicked
  <2> HIDE DEF output
  <2>5. Spoken("responses", body).calls = FlattenSeq([i \in DOMAIN output |-> ItemCalls(output[i])])
    BY <2>1, <2>3, ItemsSpoken
  <2>6. [i \in DOMAIN output |-> ItemCalls(output[i])]
          = [i \in DOMAIN shape |-> IF shape[i] \in ToolKinds THEN <<words + i>> ELSE <<>>]
    BY <2>4
  <2> QED
    BY <1>6, <2>5, <2>6 DEF PicksOf
<1> QED
  BY <1>1, <1>4, <1>5, <1>6 DEF Protocols

\* The calls the client hears are new.
LEMMA CallsAreFresh ==
  ASSUME client \in Protocols, NEW p, NEW shape, NEW end, NEW all, Saying(p, shape, end, all),
         NEW body, body = Answers(p, shape, end, all), client # p => ReadableReply(p, body),
         NEW told, told = Response(p, client, body), NEW new, new = Kept(told)
  PROVE  Fresh(CallsIn(TellsAll(client, new)), words, words + Len(shape))
<1>1. new \in Seq(KeptMessages(client))
  BY AnswerIsKept
<1>2. CallsIn(TellsAll(client, new)) = Spoken(client, told).calls
  BY <1>1, KeptCalls
<1>3. Spoken(client, told) = Spoken(p, body)
  <2>1. CASE client = p
    BY <2>1 DEF Response
  <2>2. CASE client # p
    BY <2>2, ConvertedAnswer DEF Faithful
  <2> QED
    BY <2>1, <2>2
<1>4. Spoken(p, body).calls = PicksOf(shape)
  BY AnswerPicks
<1>5. Fresh(PicksOf(shape), words, words + Len(shape))
  BY Picked DEF Saying
<1> QED
  BY <1>2, <1>3, <1>4, <1>5

-----------------------------------------------------------------------------
\* The steps of a conversation.  The user speaks and has no calls to answer then, an answer is
\* kept, or nothing is said.
AssistantSpeaks ==
  \E new : /\ AssistantStep(client, new) /\ history' = history \o new
           /\ said' = Append(said, TellsAll(client, new)) /\ calls' = CallsIn(TellsAll(client, new))
Continues ==
  /\ client' = client
  /\ \/ /\ UserSpeaks /\ phase = "idle" /\ phase' = "ready" /\ calls' = <<>>
        /\ words' \in Nat /\ words' >= words
     \/ /\ AssistantSpeaks /\ phase = "waiting" /\ phase' = "idle"
        /\ words' \in Nat /\ words' >= words /\ Fresh(calls', words, words')
     \/ UNCHANGED <<history, said, words, calls>> /\ (phase' = "idle" <=> phase = "idle")

\* An answer is kept or the attempt failed.
LEMMA AnswerSpeaks ==
  ASSUME IInv, NEW shape \in Shapes, NEW end \in Ends, NEW usage \in Usages, Answer(shape, end, usage)
  PROVE  Continues
<1> DEFINE body == Answers(provider, shape, end, usage)
           told == Response(provider, client, body)
           facts == TellsAll(client, Kept(told))
           foreign == ToSet(shape) \cap {"opaque", "broken"} # {}
           bad == body.failed \/ (client # provider /\ ~ ReadableReply(provider, body))
<1>1. client \in Protocols /\ words \in Nat
  BY DEF IInv, Asking, Written
<1>2. phase = "waiting" /\ Says(provider, shape, end) /\ client' = client
  BY DEF Answer
<1>3. provider \in Protocols
  BY <1>2 DEF IInv, Forwarded
<1>4. CASE bad
  <2>1. phase' = "failed" /\ UNCHANGED <<history, said, words, opaque, calls, answer, reply>>
    BY <1>4, Zenon DEF Answer
  <2> QED
    BY <1>2, <2>1 DEF Continues
<1>5. CASE ~ bad
  <2>1. /\ phase' = "idle" /\ history' = history \o Kept(told) /\ said' = Append(said, facts)
        /\ calls' = CallsIn(facts) /\ words' = words + Len(shape)
    BY <1>5, Zenon DEF Answer
  <2>2. Saying(provider, shape, end, usage)
    <3>1. shape \in Seq(Kinds) /\ end \in {"done", "limit", "filter", "sequence", "failed"}
          /\ usage \in [input : Nat, output : Nat, cached : Nat, creation : Nat, reasoning : Nat]
      BY DialogueAssumption
    <3>2. body.failed = (end = "failed")
      <4>1. provider = "chat" => body.failed = (end = "failed")
        BY DEF Answers, ChatReply
      <4>2. provider = "anthropic" => body.failed = (end = "failed")
        BY DEF Answers, AnthropicReply
      <4>3. provider = "responses" => body.failed = (end = "failed")
        BY DEF Answers, ResponsesReply
      <4> QED
        BY <1>3, <4>1, <4>2, <4>3 DEF Protocols
    <3>3. end # "failed"
      BY <1>5, <3>2
    <3> QED
      BY <1>1, <1>2, <1>3, <3>1, <3>3 DEF Saying
  <2>3. client # provider => ReadableReply(provider, body)
    BY <1>5
  <2> HIDE DEF body
  <2>4. Kept(told) \in Seq(KeptMessages(client))
    BY <1>1, <2>2, <2>3, AnswerIsKept DEF body
  <2>7. words' \in Nat /\ words' >= words /\ Fresh(calls', words, words')
    <3>1. Fresh(CallsIn(TellsAll(client, Kept(told))), words, words + Len(shape))
      BY <1>1, <2>2, <2>3, CallsAreFresh DEF body
    <3>2. Len(shape) \in Nat
      BY <2>2, LenProperties DEF Saying
    <3> HIDE DEF told
    <3> QED
      BY <1>1, <2>1, <3>1, <3>2
  <2> HIDE DEF told
  <2>5. AssistantStep(client, Kept(told))
    <3> DEFINE new == Kept(told)
    <3>1. client # "responses" => Len(new) <= 1
      BY <1>1 DEF Kept, Protocols
    <3>2. client = "anthropic" => \A i \in DOMAIN new : new[i].content # <<>>
      BY DEF Kept
    <3> QED
      BY <2>4, <3>1, <3>2 DEF AssistantStep
  <2> DEFINE new == Kept(told)
  <2>6. AssistantSpeaks
    <3>1. /\ AssistantStep(client, new) /\ history' = history \o new
          /\ said' = Append(said, TellsAll(client, new)) /\ calls' = CallsIn(TellsAll(client, new))
      BY <2>1, <2>5
    <3> HIDE DEF new
    <3> QED
      BY <3>1, Zenon DEF AssistantSpeaks
  <2> QED
    BY <1>2, <2>1, <2>6, <2>7 DEF Continues
<1> QED
  BY <1>4, <1>5

\* So is every step.
LEMMA StepsContinue == IInv /\ said \in Seq(Seq(AllFacts)) /\ [Next]_vars => Continues
<1> SUFFICES ASSUME IInv, said \in Seq(Seq(AllFacts)), [Next]_vars PROVE Continues
  OBVIOUS
<1>1. client \in Protocols /\ Sequence(history) /\ words \in Nat /\ calls \in Seq(Nat)
  BY DEF IInv, Asking, Written
<1>2. CASE \E picture \in BOOLEAN : Ask(picture)
  <2>1. PICK picture \in BOOLEAN : Ask(picture)
    BY <1>2
  <2>2. UserSpeaks /\ words' \in Nat /\ words' >= words
    BY <1>1, <2>1, AskSpeaks
  <2>3. client' = client /\ phase = "idle" /\ phase' = "ready" /\ calls' = <<>>
    BY <2>1 DEF Ask, Turn
  <2> QED
    BY <2>2, <2>3 DEF Continues
<1>3. CASE \E picture, failed, more \in BOOLEAN : SendResults(picture, failed, more)
  <2>1. PICK picture \in BOOLEAN, failed \in BOOLEAN, more \in BOOLEAN : SendResults(picture, failed, more)
    BY <1>3
  <2>2. UserSpeaks /\ words' \in Nat /\ words' >= words
    BY <1>1, <2>1, ResultsSpeak
  <2>3. client' = client /\ phase = "idle" /\ phase' = "ready" /\ calls' = <<>>
    BY <2>1 DEF SendResults, Turn
  <2> QED
    BY <2>2, <2>3 DEF Continues
<1>4. CASE \E p \in Protocols : Forward(p)
  <2>1. PICK p \in Protocols : Forward(p)
    BY <1>4
  <2>2. UNCHANGED <<history, said, words, calls>> /\ client' = client /\ phase' \in {"waiting", "refused"} /\ phase # "idle"
    BY <2>1 DEF Forward
  <2> QED
    BY <2>2 DEF Continues
<1>5. CASE \E shape \in Shapes, end \in Ends, usage \in Usages : Answer(shape, end, usage)
  BY <1>5, AnswerSpeaks
<1>6. CASE UNCHANGED vars
  BY <1>6 DEF vars, Continues
<1> QED
  BY <1>2, <1>3, <1>4, <1>5, <1>6 DEF Next

-----------------------------------------------------------------------------
\* What is read of several messages is read of each.
LEMMA ReadablesApart ==
  ASSUME NEW c, NEW a, NEW b, Sequence(a), Sequence(b), Readables(c, a \o b)
  PROVE  Readables(c, a) /\ Readables(c, b)
<1> DEFINE S == ToSet(a) \cup ToSet(b)
           n == Len(a)
           m == Len(b)
           ab == a \o b
<1>1. a \in Seq(S) /\ b \in Seq(S)
  BY SeqOfMore DEF Sequence
<1> HIDE DEF S
<1>2. /\ n \in Nat /\ m \in Nat /\ DOMAIN ab = 1 .. n + m
      /\ DOMAIN a = 1 .. n /\ DOMAIN b = 1 .. m
      /\ \A i \in 1 .. n : ab[i] = a[i]
      /\ \A i \in 1 .. m : ab[n + i] = b[i]
  BY <1>1, Joined
<1> HIDE DEF n, m, ab
<1>3. \A i \in DOMAIN ab : ReadableMessage(c, ab[i])
  BY DEF Readables, ab
<1>4. \A i \in 1 .. n : ReadableMessage(c, a[i])
  BY <1>2, <1>3
<1>5. \A i \in 1 .. m : ReadableMessage(c, b[i])
  <2> SUFFICES ASSUME NEW i \in 1 .. m PROVE ReadableMessage(c, b[i])
    OBVIOUS
  <2>1. n + i \in DOMAIN ab
    BY <1>2
  <2> QED
    BY <1>2, <1>3, <2>1
<1> QED
  BY <1>2, <1>4, <1>5 DEF Readables

\* Every provider that could be asked hears what was said.
Heeded ==
  /\ said \in Seq(Seq(AllFacts))
  /\ \A p \in Protocols : p = client \/ Readables(client, history) => Hearing(client, p, history, said)

\* So it is at the beginning,
LEMMA HeededFirst == Init => Heeded
<1> SUFFICES ASSUME Init PROVE Heeded
  OBVIOUS
<1>1. client \in Protocols /\ history = StartOf(client)
  BY DEF Init, StartOf
<1> DEFINE e == Instructions
           S == Seq(AllFacts)
<1>2. said = <<e>>
  BY DEF Init, Instructions
<1>3. e \in S /\ FlattenSeq(<<e>>) = e
  BY InstructionsSaid, FlattenOne
<1> HIDE DEF e, S
<1>4. said \in Seq(S)
  BY <1>2, <1>3
<1>5. ASSUME NEW p \in Protocols PROVE Hearing(client, p, history, said)
  <2> DEFINE ms == MsOf(client, p, history)
             sys == SysOf(client, p, history)
  <2>1. Readied(client, p, history) /\ Begun(p, ms, sys)
    BY <1>1, Opened
  <2> HIDE DEF ms, sys
  <2>2. /\ Sequence(ms) /\ Tolds(p, ms) \in Seq(Seq(AllFacts)) /\ (p = "anthropic" => ms = <<>>)
        /\ ContentFacts("system", NoId, sys) \in Seq(AllFacts)
        /\ ContentFacts("system", NoId, sys) \o FlattenSeq(Tolds(p, ms)) = e
    BY <2>1 DEF Begun, e
  <2>3. Hears(client, p, history) = e
    BY <2>2 DEF Hears, ms, sys
  <2>4. Pieces(p, e, said)
    <3> DEFINE pieces == <<e>>
    <3>1. pieces \in Seq(S) /\ pieces = said
      BY <1>2, <1>3
    <3>2. FlattenSeq(pieces) = e
      BY <1>3
    <3> HIDE DEF pieces
    <3>3. /\ Len(pieces) = Len(said) /\ e = FlattenSeq(pieces)
          /\ \A i \in DOMAIN said : Agrees(p, pieces[i], said[i])
      BY <3>1, <3>2, AlikeItself
    <3> QED
      BY <3>1, <3>3, Zenon DEF Pieces, S
  <2>5. <<>> \in Seq(AMessages)
    BY EmptySeq
  <2> QED
    BY <2>1, <2>2, <2>3, <2>4, <2>5 DEF Hearing, ms, sys
<1> QED
  BY <1>4, <1>5 DEF Heeded, S

\* after every step
LEMMA HeededAfter ==
  ASSUME IInv, Heeded, Continues
  PROVE  Heeded'
<1>1. client \in Protocols /\ Sequence(history) /\ client' = client /\ said \in Seq(Seq(AllFacts))
  BY DEF IInv, Asking, Written, Heeded, Continues
<1>2. CASE UserSpeaks
  <2>1. PICK new, results, plain :
          /\ history' = history \o new /\ said' = said \o UserSaid(results, plain)
          /\ UserStep(client, new, results, plain)
    BY <1>2 DEF UserSpeaks
  <2>2. Sequence(new)
    BY <2>1 DEF UserStep
  <2>3. ASSUME NEW p \in Protocols, p = client \/ Readables(client, history')
        PROVE  Hearing(client, p, history', said') /\ said' \in Seq(Seq(AllFacts))
    <3>1. p = client \/ Readables(client, history)
      BY <1>1, <2>1, <2>2, <2>3, ReadablesApart
    <3>2. Hearing(client, p, history, said)
      BY <3>1 DEF Heeded
    <3> QED
      BY <1>1, <2>1, <3>2, UserHeard
  <2>4. said' \in Seq(Seq(AllFacts))
    BY <1>1, <2>3
  <2> QED
    BY <1>1, <2>3, <2>4 DEF Heeded
<1>3. CASE AssistantSpeaks
  <2>1. PICK new : /\ AssistantStep(client, new) /\ history' = history \o new
                   /\ said' = Append(said, TellsAll(client, new))
    BY <1>3 DEF AssistantSpeaks
  <2>2. Sequence(new)
    BY <2>1, IsSequence DEF AssistantStep
  <2>3. ASSUME NEW p \in Protocols, p = client \/ Readables(client, history')
        PROVE  Hearing(client, p, history', said') /\ said' \in Seq(Seq(AllFacts))
    <3>1. p = client \/ (Readables(client, history) /\ Readables(client, new))
      BY <1>1, <2>1, <2>2, <2>3, ReadablesApart
    <3>2. Hearing(client, p, history, said)
      BY <3>1 DEF Heeded
    <3> QED
      BY <1>1, <2>1, <3>1, <3>2, AssistantHeard
  <2>4. said' \in Seq(Seq(AllFacts))
    BY <1>1, <2>3
  <2> QED
    BY <1>1, <2>3, <2>4 DEF Heeded
<1>4. CASE UNCHANGED <<history, said, words, calls>>
  BY <1>1, <1>4 DEF Heeded
<1> QED
  BY <1>2, <1>3, <1>4 DEF Continues

\* What is sent is what the client writes for that provider,
SentTo(p) ==
  /\ p \in Protocols /\ (p = client \/ Readables(client, history))
  /\ sent.messages = MsOf(client, p, history) /\ Tells(p, sent) = Hears(client, p, history)

\* while it waits for the answer.
LEMMA WaitingSent ==
  ASSUME IInv, phase = "waiting"
  PROVE  SentTo(provider)
<1>1. Asking /\ provider \in Protocols /\ Convertible(client, provider, Body) /\ sent = Request(client, provider, Body)
  BY DEF IInv, Forwarded
<1>2. sent.messages = MsOf(client, provider, history) /\ Tells(provider, sent) = Hears(client, provider, history)
  BY <1>1, RequestTells
<1>3. provider = client \/ Readables(client, history)
  <2>1. Body.messages = history
    BY <1>1, BodyFields
  <2> DEFINE b == Body
  <2>2. b.messages = history
    BY <2>1
  <2> HIDE DEF b
  <2>3. Convertible(client, provider, b)
    BY <1>1 DEF b
  <2> QED
    BY <2>2, <2>3 DEF Convertible, Readables
<1> QED
  BY <1>1, <1>2, <1>3 DEF SentTo

\* so the provider hears everything.
LEMMA HeededTells ==
  ASSUME IInv, Heeded
  PROVE  ToldEverything
<1>1. ASSUME phase = "waiting" PROVE Pieces(provider, Tells(provider, sent), said)
  <2>1. SentTo(provider)
    BY <1>1, WaitingSent
  <2>2. Hearing(client, provider, history, said)
    BY <2>1 DEF Heeded, SentTo
  <2> QED
    BY <2>1, <2>2 DEF Hearing, SentTo
<1> QED
  BY <1>1, HeardIsTold DEF Heeded

\* A provider of whatever protocol reads everything that was said, each word once, from the one who
\* said it and in the order of the conversation (readConversation, writeMessages, encodeCompletion).
THEOREM EverythingIsTold == Spec => []ToldEverything
<1>1. Init => IInv /\ Heeded
  BY Initially, HeededFirst
<1>2. IInv /\ Heeded /\ [Next]_vars => (IInv /\ Heeded)'
  <2>1. IInv /\ Heeded /\ [Next]_vars => Continues
    BY StepsContinue DEF Heeded
  <2> QED
    BY <2>1, Steps, HeededAfter
<1>3. IInv /\ Heeded => ToldEverything
  BY HeededTells
<1> QED
  BY <1>1, <1>2, <1>3, PTL DEF Spec

-----------------------------------------------------------------------------
\* For Chat the results follow the calls at once: a message that calls tools is the last one and
\* its calls are open, or as many messages follow it and each answers its call.
FollowedAt(F, i, cl) ==
  \/ CallsIn(F[i]) = <<>>
  \/ i = Len(F) /\ CallsIn(F[i]) = cl
  \/ /\ i + Len(CallsIn(F[i])) <= Len(F)
     /\ \A k \in DOMAIN CallsIn(F[i]) : Replies(F[i + k]) = {CallsIn(F[i])[k]}
Followed(F, cl) == \A i \in DOMAIN F : FollowedAt(F, i, cl)

\* The calls of a message are a sequence.
LEMMA CallsLength ==
  ASSUME NEW F \in Seq(Seq(AllFacts)), NEW i \in DOMAIN F
  PROVE  /\ Len(CallsIn(F[i])) \in Nat /\ DOMAIN CallsIn(F[i]) = 1 .. Len(CallsIn(F[i]))
<1> DEFINE s == F[i]
           ids == CallsIn(s)
<1>1. s \in Seq(AllFacts)
  BY MembersIn
<1> HIDE DEF s
<1>2. ids \in Seq(Int)
  BY <1>1, CallsIns
<1> HIDE DEF ids
<1>3. Len(ids) \in Nat /\ DOMAIN ids = 1 .. Len(ids)
  BY <1>2, LenProperties
<1> QED
  BY <1>3 DEF ids, s

\* What was followed at once stays so.
LEMMA FollowedStays ==
  ASSUME NEW F \in Seq(Seq(AllFacts)), NEW G, NEW H, NEW n, NEW m, Joins(F, G, H, n, m), NEW i \in 1 .. n,
         i + Len(CallsIn(F[i])) <= Len(F),
         \A k \in DOMAIN CallsIn(F[i]) : Replies(F[i + k]) = {CallsIn(F[i])[k]}, NEW cl
  PROVE  FollowedAt(H, i, cl)
<1> DEFINE ids == CallsIn(F[i])
           l == Len(ids)
<1>1. i \in DOMAIN F /\ H[i] = F[i] /\ n \in Nat /\ m \in Nat /\ Len(F) = n /\ Len(H) = n + m
      /\ \A j \in 1 .. n : H[j] = F[j]
  BY DEF Joins
<1>2. l \in Nat /\ DOMAIN ids = 1 .. l
  BY <1>1, CallsLength
<1>3. i + l <= n
  BY <1>1
<1>4. \A k \in DOMAIN ids : Replies(F[i + k]) = {ids[k]}
  OBVIOUS
<1>5. CallsIn(H[i]) = ids
  BY <1>1
<1> HIDE DEF ids, l
<1>6. \A k \in DOMAIN ids : Replies(H[i + k]) = {ids[k]}
  <2> SUFFICES ASSUME NEW k \in DOMAIN ids PROVE Replies(H[i + k]) = {ids[k]}
    OBVIOUS
  <2>1. i + k \in 1 .. n
    BY <1>1, <1>2, <1>3
  <2> QED
    BY <1>1, <1>4, <2>1
<1>7. i + l <= Len(H)
  BY <1>1, <1>2, <1>3
<1> QED
  BY <1>5, <1>6, <1>7 DEF FollowedAt, l

\* The user answers the calls that are open,
LEMMA FollowedUser ==
  ASSUME NEW F \in Seq(Seq(AllFacts)), NEW cl \in Seq(Nat), Followed(F, cl), NEW G, UserReplies(G, cl)
  PROVE  Followed(F \o G, <<>>)
<1>1. G \in Seq(Seq(AllFacts))
  BY DEF UserReplies
<1>2. PICK H, n, m : H = F \o G /\ Joins(F, G, H, n, m)
  BY <1>1, FactsJoin
<1>3. /\ n \in Nat /\ m \in Nat /\ Len(H) = n + m /\ DOMAIN H = 1 .. n + m /\ DOMAIN F = 1 .. n
      /\ DOMAIN G = 1 .. m /\ Len(F) = n /\ Len(G) = m
      /\ \A i \in 1 .. n : H[i] = F[i]
      /\ \A i \in 1 .. m : H[n + i] = G[i]
  BY <1>2 DEF Joins
<1>4. DOMAIN cl = 1 .. Len(cl) /\ Len(cl) \in Nat /\ Len(cl) <= m
  BY <1>3, LenProperties DEF UserReplies
<1>5. \A k \in 1 .. m : CallsIn(G[k]) = <<>> /\ Replies(G[k]) = IF k <= Len(cl) THEN {cl[k]} ELSE {}
  BY <1>3 DEF UserReplies
<1>6. ASSUME NEW i \in DOMAIN H PROVE FollowedAt(H, i, <<>>)
  <2>1. CASE i \in 1 .. n
    <3>1. FollowedAt(F, i, cl)
      BY <1>3, <2>1 DEF Followed
    <3>2. CASE CallsIn(F[i]) = <<>>
      BY <1>3, <2>1, <3>2 DEF FollowedAt
    <3>3. CASE i = Len(F) /\ CallsIn(F[i]) = cl
      <4>1. CallsIn(H[i]) = cl /\ i = n
        BY <1>3, <2>1, <3>3
      <4>2. \A k \in DOMAIN cl : Replies(H[i + k]) = {cl[k]}
        <5> SUFFICES ASSUME NEW k \in DOMAIN cl PROVE Replies(H[i + k]) = {cl[k]}
          OBVIOUS
        <5>1. k \in 1 .. m /\ k <= Len(cl)
          BY <1>3, <1>4
        <5> QED
          BY <1>3, <1>5, <4>1, <5>1
      <4>3. i + Len(cl) <= Len(H)
        BY <1>3, <1>4, <4>1
      <4> QED
        BY <4>1, <4>2, <4>3 DEF FollowedAt
    <3>4. CASE /\ i + Len(CallsIn(F[i])) <= Len(F)
               /\ \A k \in DOMAIN CallsIn(F[i]) : Replies(F[i + k]) = {CallsIn(F[i])[k]}
      BY <1>2, <2>1, <3>4, FollowedStays
    <3> QED
      BY <3>1, <3>2, <3>3, <3>4 DEF FollowedAt
  <2>2. CASE i \notin 1 .. n
    <3>1. i - n \in 1 .. m /\ n + (i - n) = i
      BY <1>3, <2>2
    <3>2. CallsIn(H[i]) = <<>>
      BY <1>3, <1>5, <3>1
    <3> QED
      BY <3>2 DEF FollowedAt
  <2> QED
    BY <2>1, <2>2
<1> QED
  BY <1>2, <1>6 DEF Followed

\* and an answer opens its calls, if only its last message has any.
LEMMA FollowedAssistant ==
  ASSUME NEW F \in Seq(Seq(AllFacts)), Followed(F, <<>>), NEW G \in Seq(Seq(Voice)), CallsLast(G),
         NEW cl, cl = CallsIn(FlattenSeq(G))
  PROVE  Followed(F \o G, cl)
<1>1. G \in Seq(Seq(AllFacts))
  BY VoiceReplies
<1>2. PICK H, n, m : H = F \o G /\ Joins(F, G, H, n, m)
  BY <1>1, FactsJoin
<1>3. /\ n \in Nat /\ m \in Nat /\ Len(H) = n + m /\ DOMAIN H = 1 .. n + m /\ DOMAIN F = 1 .. n
      /\ DOMAIN G = 1 .. m /\ Len(F) = n /\ Len(G) = m
      /\ \A i \in 1 .. n : H[i] = F[i]
      /\ \A i \in 1 .. m : H[n + i] = G[i]
  BY <1>2 DEF Joins
<1>4. ASSUME NEW i \in DOMAIN H PROVE FollowedAt(H, i, cl)
  <2>1. CASE i \in 1 .. n
    <3>1. FollowedAt(F, i, <<>>)
      BY <1>3, <2>1 DEF Followed
    <3>2. CASE CallsIn(F[i]) = <<>>
      BY <1>3, <2>1, <3>2 DEF FollowedAt
    <3>3. CASE /\ i + Len(CallsIn(F[i])) <= Len(F)
               /\ \A k \in DOMAIN CallsIn(F[i]) : Replies(F[i + k]) = {CallsIn(F[i])[k]}
      BY <1>2, <2>1, <3>3, FollowedStays
    <3> QED
      BY <3>1, <3>2, <3>3 DEF FollowedAt
  <2>2. CASE i \notin 1 .. n
    <3>1. i - n \in 1 .. m /\ n + (i - n) = i
      BY <1>3, <2>2
    <3>2. H[i] = G[i - n]
      BY <1>3, <3>1
    <3>3. CASE i - n < m
      <4>1. CallsIn(G[i - n]) = <<>>
        BY <1>3, <3>1, <3>3 DEF CallsLast
      <4> QED
        BY <3>2, <4>1 DEF FollowedAt
    <3>4. CASE ~ i - n < m
      <4>1. i - n = Len(G) /\ G # <<>> /\ i = Len(H)
        BY <1>3, <3>1, <3>4
      <4>2. CallsIn(G[Len(G)]) = cl
        BY <1>1, <4>1, LastCalls
      <4> QED
        BY <3>2, <4>1, <4>2 DEF FollowedAt
    <3> QED
      BY <3>3, <3>4
  <2> QED
    BY <2>1, <2>2
<1> QED
  BY <1>2, <1>4 DEF Followed

-----------------------------------------------------------------------------
\* The items of a Responses client: each call that is not the last item has its output next.
OutputsNext(h) ==
  \A i \in DOMAIN h : h[i].type = "function_call" /\ i < Len(h) => h[i + 1].type = "function_call_output"

\* So it was before, and an answer that was kept has a call as its last item only.
LEMMA OutputsNextBefore ==
  ASSUME NEW h, Sequence(h), NEW new, Sequence(new), OutputsNext(h \o new)
  PROVE  /\ OutputsNext(h)
         /\ new \in Seq(KeptMessages("responses")) => Quiet(new)
<1> DEFINE S == ToSet(h) \cup ToSet(new)
           n == Len(h)
           m == Len(new)
           hn == h \o new
<1>1. h \in Seq(S) /\ new \in Seq(S)
  BY SeqOfMore DEF Sequence
<1> HIDE DEF S
<1>2. /\ n \in Nat /\ m \in Nat /\ DOMAIN hn = 1 .. n + m /\ Len(hn) = n + m
      /\ DOMAIN h = 1 .. n /\ DOMAIN new = 1 .. m
      /\ \A i \in 1 .. n : hn[i] = h[i]
      /\ \A i \in 1 .. m : hn[n + i] = new[i]
  BY <1>1, Joined
<1>3. \A i \in DOMAIN hn : hn[i].type = "function_call" /\ i < Len(hn) => hn[i + 1].type = "function_call_output"
  BY DEF OutputsNext
<1> HIDE DEF n, m, hn
<1>4. ASSUME NEW i \in DOMAIN h, h[i].type = "function_call", i < n PROVE h[i + 1].type = "function_call_output"
  <2>1. i \in 1 .. n /\ i + 1 \in 1 .. n /\ i \in DOMAIN hn /\ i < Len(hn)
    BY <1>2, <1>4
  <2> QED
    BY <1>2, <1>3, <1>4, <2>1
<1>5. ASSUME new \in Seq(KeptMessages("responses")), NEW i \in DOMAIN new, i < m
      PROVE  new[i].type # "function_call"
  <2> SUFFICES ASSUME new[i].type = "function_call" PROVE FALSE
    OBVIOUS
  <2>1. i \in 1 .. m /\ i + 1 \in 1 .. m /\ n + i \in DOMAIN hn /\ n + i < Len(hn) /\ (n + i) + 1 = n + (i + 1)
    BY <1>2, <1>5
  <2>2. new[i + 1].type = "function_call_output"
    BY <1>2, <1>3, <2>1
  <2>3. new[i + 1] \in ResponsesKept
    <3>1. i + 1 \in DOMAIN new
      BY <1>2, <2>1
    <3>2. new[i + 1] \in KeptMessages("responses")
      BY <1>5, <3>1, MembersIn
    <3> QED
      BY <3>2 DEF KeptMessages
  <2> QED
    BY <2>2, <2>3 DEF ResponsesKept, AnswerItems, MessageTyped, CallTyped, ReasoningTyped, OpaqueItem
<1> QED
  BY <1>4, <1>5 DEF OutputsNext, Quiet, n, m

-----------------------------------------------------------------------------
\* For Anthropic the results are the first blocks of the next message.
MessageCalls(m) == CallsIn(Told("anthropic", m))
PairedAt(ms, i, cl) ==
  LET ids == MessageCalls(ms[i]) IN
  \/ ids = <<>>
  \/ i = Len(ms) /\ ids = cl
  \/ /\ i < Len(ms) /\ ms[i + 1].role = "user"
     /\ \A k \in DOMAIN ids : /\ k \in DOMAIN ms[i + 1].content
                              /\ ms[i + 1].content[k].type = "tool_result"
                              /\ ms[i + 1].content[k].tool_use_id = ids[k]
Paired(ms, cl) ==
  /\ \A i \in DOMAIN ms : PairedAt(ms, i, cl)
  /\ \A i \in DOMAIN ms : ms[i].role = "user" => MessageCalls(ms[i]) = <<>>
Alternates(ms) == \A i \in DOMAIN ms : i < Len(ms) => ms[i + 1].role # ms[i].role

\* A message after others.
LEMMA OneAfter ==
  ASSUME NEW S, NEW f \in Seq(S), NEW e \in S, NEW n, n = Len(f), NEW s, s = Append(f, e)
  PROVE  /\ s \in Seq(S) /\ n \in Nat /\ Len(s) = n + 1 /\ DOMAIN s = 1 .. n + 1 /\ DOMAIN f = 1 .. n
         /\ s[n + 1] = e /\ s[Len(s)] = e /\ Last(s) = e
         /\ \A i \in 1 .. n : s[i] = f[i]
         /\ \A i \in 1 .. n + 1 : i \in 1 .. n \/ i = n + 1
<1>1. n \in Nat /\ DOMAIN f = 1 .. n
  BY LenProperties
<1>2. \A i \in 1 .. n + 1 : i \in 1 .. n \/ i = n + 1
  BY <1>1
<1>3. s \in Seq(S) /\ Len(s) = n + 1 /\ s[n + 1] = e /\ \A i \in 1 .. n : s[i] = f[i]
  BY <1>1, AppendProperties
<1>4. DOMAIN s = 1 .. n + 1
  BY <1>1, <1>3, LenProperties
<1> QED
  BY <1>1, <1>2, <1>3, <1>4 DEF Last

\* The calls of blocks and of more blocks.
LEMMA CallsGrow ==
  ASSUME NEW role \in Speaking, NEW x \in Seq(ABlocks), NEW B \in Seq(ABlocks)
  PROVE  /\ MessageCalls(AMessage(role, x)) = CallsIn(BlocksSay(role, x))
         /\ MessageCalls(AMessage(role, x \o B)) = MessageCalls(AMessage(role, x)) \o CallsIn(BlocksSay(role, B))
         /\ CallsIn(BlocksSay(role, x)) \in Seq(Int)
<1> DEFINE a == BlocksSay(role, x)
           b == BlocksSay(role, B)
           xB == x \o B
<1>1. xB \in Seq(ABlocks)
  BY ConcatProperties
<1>2. a \in Seq(AllFacts) /\ b \in Seq(AllFacts) /\ BlocksSay(role, xB) = a \o b
      /\ Told("anthropic", AMessage(role, x)) = a /\ Told("anthropic", AMessage(role, xB)) = BlocksSay(role, xB)
  BY <1>1, BlocksTell
<1> HIDE DEF a, b, xB
<1>3. CallsIn(a \o b) = CallsIn(a) \o CallsIn(b) /\ CallsIn(a) \in Seq(Int)
  BY <1>2, CallsIns
<1> QED
  BY <1>2, <1>3 DEF MessageCalls, a, b, xB

\* The user calls nothing.
LEMMA UserCallsNothing ==
  ASSUME NEW results \in Seq(ResultSet), NEW plain \in Seq(PlainSet), NEW B, Answering(B, results, plain)
  PROVE  CallsIn(BlocksSay("user", B)) = <<>>
<1> DEFINE t == UserTells(results, plain)
           x == FlattenSeq(Map(ResultAs, results))
           y == PlainSaid("user", NoId, plain)
<1>1. BlocksSay("user", B) = x \o y
  BY DEF Answering
<1>2. x \in Seq(FactsBy("result"))
  <2> DEFINE g == [p \in ResultSet |-> ResultWords(p)]
  <2>1. Gives(ResultAs, ResultSet, Seq(FactsBy("result")))
    <3> SUFFICES ASSUME NEW p \in ResultSet PROVE ResultAs[p] \in Seq(FactsBy("result"))
      BY DEF Gives
    <3>1. ResultAs[p] = ResultWords(p)
      BY DEF ResultAs
    <3>2. ResultWords(p) \in Seq(FactsOf("result", p.id)) /\ p.id \in Int
      BY ResultBy DEF ResultSet
    <3>3. FactsOf("result", p.id) \subseteq FactsBy("result")
      BY DEF FactsOf, FactsBy
    <3> DEFINE s == ResultWords(p)
               V == FactsOf("result", p.id)
               W == FactsBy("result")
    <3> HIDE DEF s, V, W
    <3>4. s \in Seq(W)
      BY <3>2, <3>3, SeqOfMore DEF s, V, W
    <3> QED
      BY <3>1, <3>4 DEF s, W
  <2> QED
    BY <2>1, FlattenMapType
<1>3. y \in Seq(FactsBy("user"))
  BY PlainBy DEF Whos, NoId
<1> HIDE DEF x, y
<1>4. x \in Seq(AllFacts) /\ CallsIn(x) = <<>> /\ y \in Seq(AllFacts) /\ CallsIn(y) = <<>>
  BY <1>2, <1>3, ByOne
<1>5. CallsIn(x \o y) = CallsIn(x) \o CallsIn(y)
  BY <1>4, CallsIns
<1>6. <<>> \o <<>> = <<>>
  OBVIOUS
<1> QED
  BY <1>1, <1>4, <1>5, <1>6

\* What was paired stays so when a message follows,
LEMMA PairedAppend ==
  ASSUME NEW ms \in Seq(AMessages), NEW m \in AMessages, NEW i \in 1 .. Len(ms), NEW cl, NEW cl2,
         PairedAt(ms, i, cl), i = Len(ms) => MessageCalls(ms[i]) = <<>>
  PROVE  PairedAt(Append(ms, m), i, cl2)
<1> DEFINE n == Len(ms)
           s == Append(ms, m)
<1>1. n \in Nat /\ Len(s) = n + 1 /\ \A j \in 1 .. n : s[j] = ms[j]
  BY OneAfter
<1> HIDE DEF s
<1>2. s[i] = ms[i]
  BY <1>1
<1>3. i < n => s[i + 1] = ms[i + 1] /\ i < Len(s)
  BY <1>1
<1>4. PairedAt(s, i, cl2)
  BY <1>1, <1>2, <1>3 DEF PairedAt
<1> QED
  BY <1>4 DEF s

\* The last message gets more blocks,
Longer(role, f, x, B, ms, ms2) ==
  /\ role \in Speaking /\ f \in Seq(AMessages) /\ x \in Seq(ABlocks) /\ B \in Seq(ABlocks)
  /\ ms = Append(f, AMessage(role, x)) /\ ms2 = Append(f, AMessage(role, x \o B))
\* which leaves what was paired before it.
LEMMA PairedLonger ==
  ASSUME NEW role, NEW f, NEW x, NEW B, NEW ms, NEW ms2, Longer(role, f, x, B, ms, ms2),
         NEW i \in 1 .. Len(f), NEW cl, NEW cl2, PairedAt(ms, i, cl)
  PROVE  PairedAt(ms2, i, cl2)
<1> DEFINE n == Len(f)
           xB == x \o B
           e == AMessage(role, x)
           e2 == AMessage(role, xB)
           nx == Len(x)
           nB == Len(B)
<1>0. role \in Speaking /\ f \in Seq(AMessages) /\ x \in Seq(ABlocks) /\ B \in Seq(ABlocks)
  BY DEF Longer
<1>1. /\ xB \in Seq(ABlocks) /\ nx \in Nat /\ nB \in Nat /\ DOMAIN x = 1 .. nx /\ DOMAIN xB = 1 .. nx + nB
      /\ \A k \in 1 .. nx : xB[k] = x[k]
  BY <1>0, Joined
<1>2. e \in AMessages /\ e2 \in AMessages /\ e.role = role /\ e2.role = role /\ e.content = x /\ e2.content = xB
  BY <1>0, <1>1 DEF AMessages, AMessage, Speaking
<1>3. \A k \in DOMAIN x : k \in DOMAIN xB /\ xB[k] = x[k]
  BY <1>1
<1> HIDE DEF e, e2, xB, nx, nB
<1>4. ms = Append(f, e) /\ ms2 = Append(f, e2)
  BY DEF Longer, e, e2, xB
<1>5. n \in Nat /\ Len(ms) = n + 1 /\ ms[n + 1] = e /\ \A j \in 1 .. n : ms[j] = f[j]
  BY <1>0, <1>2, <1>4, OneAfter
<1>6. Len(ms2) = n + 1 /\ ms2[n + 1] = e2 /\ \A j \in 1 .. n : ms2[j] = f[j]
  BY <1>0, <1>2, <1>4, OneAfter
<1>7. ms2[i] = ms[i] /\ i < Len(ms2) /\ i # Len(ms)
  BY <1>5, <1>6
<1> DEFINE m == ms[i + 1]
           m2 == ms2[i + 1]
           ids == MessageCalls(ms[i])
<1>8. m2.role = m.role
      /\ \A k \in DOMAIN m.content : k \in DOMAIN m2.content /\ m2.content[k] = m.content[k]
  <2>1. CASE i = n
    BY <1>2, <1>3, <1>5, <1>6, <2>1
  <2>2. CASE i # n
    <3>1. i + 1 \in 1 .. n
      BY <1>5, <2>2
    <3> QED
      BY <1>5, <1>6, <3>1
  <2> QED
    BY <2>1, <2>2
<1>9. \/ ids = <<>>
      \/ /\ m.role = "user"
         /\ \A k \in DOMAIN ids : /\ k \in DOMAIN m.content
                                  /\ m.content[k].type = "tool_result"
                                  /\ m.content[k].tool_use_id = ids[k]
  BY <1>7 DEF PairedAt
<1>10. MessageCalls(ms2[i]) = ids
  BY <1>7
<1> HIDE DEF m, ids
<1>11. \/ ids = <<>>
       \/ /\ m2.role = "user"
          /\ \A k \in DOMAIN ids : /\ k \in DOMAIN m2.content
                                   /\ m2.content[k].type = "tool_result"
                                   /\ m2.content[k].tool_use_id = ids[k]
  BY <1>8, <1>9
<1> QED
  BY <1>7, <1>10, <1>11 DEF PairedAt

-----------------------------------------------------------------------------
\* The user answers the open calls first,
LEMMA PairedUser ==
  ASSUME NEW ms \in Seq(AMessages), NEW cl \in Seq(Nat), Paired(ms, cl), NEW B, NEW ms2, Grown(ms, "user", B, ms2),
         NEW results \in Seq(ResultSet), NEW plain \in Seq(PlainSet), Answering(B, results, plain), B # <<>>,
         Answers2(results, cl)
  PROVE  Paired(ms2, <<>>)
<1> DEFINE n == Len(ms)
<1>1. B \in Seq(ABlocks) /\ "user" \in Speaking
  BY DEF Answering, Speaking
<1>2. CallsIn(BlocksSay("user", B)) = <<>>
  BY UserCallsNothing
<1>3. \A k \in DOMAIN cl : k \in DOMAIN B /\ B[k].type = "tool_result" /\ B[k].tool_use_id = cl[k]
  <2>1. Len(cl) \in Nat /\ DOMAIN cl = 1 .. Len(cl) /\ DOMAIN results = 1 .. Len(results)
    BY LenProperties
  <2>2. DOMAIN cl = DOMAIN results /\ \A k \in DOMAIN cl : results[k].id = cl[k]
    BY <2>1 DEF Answers2
  <2> QED
    BY <2>2 DEF Answering
<1>4. CASE \E f \in Seq(AMessages), x \in Seq(ABlocks) :
             ms = Append(f, AMessage("user", x)) /\ ms2 = Append(f, AMessage("user", x \o B))
  <2>1. PICK f \in Seq(AMessages), x \in Seq(ABlocks) :
             ms = Append(f, AMessage("user", x)) /\ ms2 = Append(f, AMessage("user", x \o B))
    BY <1>4
  <2> DEFINE xB == x \o B
             e == AMessage("user", x)
             e2 == AMessage("user", xB)
             l == Len(f)
  <2>2. xB \in Seq(ABlocks)
    BY <1>1, ConcatProperties
  <2>3. e \in AMessages /\ e.role = "user" /\ e2 \in AMessages
    BY <2>2 DEF AMessage, AMessages
  <2>4. MessageCalls(e2) = MessageCalls(e) \o <<>> /\ MessageCalls(e) \in Seq(Int)
    BY <1>1, <1>2, CallsGrow
  <2>5. ms = Append(f, e) /\ ms2 = Append(f, e2)
    BY <2>1
  <2>6. \A i \in 1 .. l : Paired(ms, cl) => PairedAt(ms2, i, <<>>)
    <3> SUFFICES ASSUME NEW i \in 1 .. l PROVE PairedAt(ms2, i, <<>>)
      OBVIOUS
    <3>1. i \in DOMAIN ms
      <4> HIDE DEF e
      <4>1. l \in Nat /\ DOMAIN ms = 1 .. l + 1
        BY <2>3, <2>5, OneAfter
      <4> QED
        BY <4>1
    <3>2. PairedAt(ms, i, cl)
      BY <3>1 DEF Paired
    <3>3. Longer("user", f, x, B, ms, ms2)
      BY <1>1, <2>1 DEF Longer
    <3> HIDE DEF e, e2, xB
    <3> QED
      BY <3>2, <3>3, PairedLonger
  <2> HIDE DEF e, e2
  <2>7. l \in Nat /\ DOMAIN ms = 1 .. l + 1 /\ ms[l + 1] = e /\ \A i \in 1 .. l : ms[i] = f[i]
    BY <2>3, <2>5, OneAfter
  <2>8. DOMAIN ms2 = 1 .. l + 1 /\ ms2[l + 1] = e2 /\ \A i \in 1 .. l : ms2[i] = f[i]
    BY <2>3, <2>5, OneAfter
  <2>9. \A i \in 1 .. l + 1 : i \in 1 .. l \/ i = l + 1
    BY <2>7
  <2>10. MessageCalls(e2) = <<>>
    <3>1. \A i \in DOMAIN ms : ms[i].role = "user" => MessageCalls(ms[i]) = <<>>
      BY DEF Paired
    <3>2. l + 1 \in DOMAIN ms /\ ms[l + 1].role = "user"
      BY <2>3, <2>7
    <3>3. MessageCalls(ms[l + 1]) = <<>>
      BY <3>1, <3>2
    <3>4. MessageCalls(e) = <<>>
      BY <2>7, <3>3
    <3> QED
      BY <2>4, <3>4
  <2>11. \A i \in 1 .. l : ms[i].role = "user" => MessageCalls(ms[i]) = <<>>
    <3> SUFFICES ASSUME NEW i \in 1 .. l PROVE ms[i].role = "user" => MessageCalls(ms[i]) = <<>>
      OBVIOUS
    <3>1. i \in DOMAIN ms
      BY <2>7
    <3> QED
      BY <3>1 DEF Paired
  <2>12. \A i \in DOMAIN ms2 : PairedAt(ms2, i, <<>>)
    BY <2>6, <2>8, <2>9, <2>10 DEF PairedAt
  <2>13. \A i \in DOMAIN ms2 : ms2[i].role = "user" => MessageCalls(ms2[i]) = <<>>
    BY <2>7, <2>8, <2>9, <2>10, <2>11
  <2> QED
    BY <2>12, <2>13 DEF Paired
<1>5. CASE ms2 = Append(ms, AMessage("user", B))
  <2> DEFINE e == AMessage("user", B)
  <2>1. e \in AMessages /\ e.role = "user" /\ e.content = B
    BY <1>1 DEF AMessage, AMessages
  <2>2. MessageCalls(e) = <<>>
    BY <1>1, <1>2, CallsGrow
  <2>3. ms2 = Append(ms, e)
    BY <1>5
  <2> HIDE DEF e
  <2>4. n \in Nat /\ Len(ms2) = n + 1 /\ DOMAIN ms2 = 1 .. n + 1 /\ DOMAIN ms = 1 .. n /\ ms2[n + 1] = e
        /\ \A i \in 1 .. n : ms2[i] = ms[i]
    BY <2>1, <2>3, OneAfter
  <2>5. \A i \in 1 .. n + 1 : i \in 1 .. n \/ i = n + 1
    BY <2>4
  <2>6. ASSUME NEW i \in 1 .. n PROVE PairedAt(ms2, i, <<>>)
    <3>1. PairedAt(ms, i, cl)
      BY <2>4, <2>6 DEF Paired
    <3>2. CASE i = n /\ MessageCalls(ms[i]) = cl
      <4>0. i < Len(ms2) /\ ms2[i + 1] = ms2[n + 1] /\ ms2[i] = ms[i]
        BY <2>4, <2>6, <3>2
      <4>1. i < Len(ms2) /\ ms2[i + 1] = e /\ MessageCalls(ms2[i]) = cl
        BY <2>4, <3>2, <4>0
      <4>2. ms2[i + 1].role = "user" /\ ms2[i + 1].content = B
        BY <2>1, <4>1
      <4> QED
        BY <1>3, <4>1, <4>2 DEF PairedAt
    <3>3. CASE ~ (i = n /\ MessageCalls(ms[i]) = cl)
      <4>1. i = Len(ms) => MessageCalls(ms[i]) = <<>>
        BY <3>1, <3>3 DEF PairedAt
      <4>2. PairedAt(Append(ms, e), i, <<>>)
        BY <2>1, <2>6, <3>1, <4>1, PairedAppend
      <4> QED
        BY <2>3, <4>2
    <3> QED
      BY <3>2, <3>3
  <2>7. \A i \in DOMAIN ms2 : PairedAt(ms2, i, <<>>)
    BY <2>2, <2>4, <2>5, <2>6 DEF PairedAt
  <2>8. \A i \in DOMAIN ms2 : ms2[i].role = "user" => MessageCalls(ms2[i]) = <<>>
    BY <2>2, <2>4, <2>5 DEF Paired
  <2> QED
    BY <2>7, <2>8 DEF Paired
<1> QED
  BY <1>4, <1>5 DEF Grown

\* an answer opens its calls,
LEMMA PairedAssistant ==
  ASSUME NEW ms \in Seq(AMessages), Paired(ms, <<>>), NEW B \in Seq(ABlocks), NEW ms2, Grown(ms, "assistant", B, ms2),
         NEW cl, cl = CallsIn(BlocksSay("assistant", B))
  PROVE  Paired(ms2, cl)
<1> DEFINE n == Len(ms)
           who == "assistant"
<1>1. who \in Speaking /\ n \in Nat /\ DOMAIN ms = 1 .. n
  BY LenProperties DEF Speaking
<1>2. \A i \in 1 .. n : PairedAt(ms, i, <<>>) /\ (i = n => MessageCalls(ms[i]) = <<>>)
  <2> SUFFICES ASSUME NEW i \in 1 .. n PROVE PairedAt(ms, i, <<>>) /\ (i = n => MessageCalls(ms[i]) = <<>>)
    OBVIOUS
  <2>1. PairedAt(ms, i, <<>>)
    BY <1>1 DEF Paired
  <2>2. CASE i = n
    <3>1. ~ i < Len(ms)
      BY <1>1, <2>2
    <3> QED
      BY <2>1, <3>1 DEF PairedAt
  <2> QED
    BY <2>1, <2>2
<1>3. CASE B = <<>> /\ ms2 = ms
  BY <1>1, <1>2, <1>3 DEF Paired, PairedAt
<1>4. CASE \E f \in Seq(AMessages), x \in Seq(ABlocks) :
             ms = Append(f, AMessage(who, x)) /\ ms2 = Append(f, AMessage(who, x \o B))
  <2>1. PICK f \in Seq(AMessages), x \in Seq(ABlocks) :
             ms = Append(f, AMessage(who, x)) /\ ms2 = Append(f, AMessage(who, x \o B))
    BY <1>4
  <2> DEFINE xB == x \o B
             e == AMessage(who, x)
             e2 == AMessage(who, xB)
             l == Len(f)
  <2>2. xB \in Seq(ABlocks)
    BY ConcatProperties
  <2>3. e \in AMessages /\ e2 \in AMessages /\ e2.role # "user"
    BY <2>2 DEF AMessage, AMessages
  <2>4. MessageCalls(e2) = MessageCalls(e) \o cl /\ cl \in Seq(Int)
    BY <1>1, CallsGrow
  <2>5. ms = Append(f, e) /\ ms2 = Append(f, e2)
    BY <2>1
  <2> HIDE DEF e, e2
  <2>6. l \in Nat /\ Len(ms) = l + 1 /\ DOMAIN ms = 1 .. l + 1 /\ ms[l + 1] = e /\ \A i \in 1 .. l : ms[i] = f[i]
    BY <2>3, <2>5, OneAfter
  <2>7. Len(ms2) = l + 1 /\ DOMAIN ms2 = 1 .. l + 1 /\ ms2[l + 1] = e2 /\ \A i \in 1 .. l : ms2[i] = f[i]
    BY <2>3, <2>5, OneAfter
  <2>8. \A i \in 1 .. l + 1 : i \in 1 .. l \/ i = l + 1
    BY <2>6
  <2>9. MessageCalls(e2) = cl
    <3>1. MessageCalls(e) = <<>>
      BY <1>2, <2>6
    <3>2. <<>> \o cl = cl
      BY <2>4
    <3> QED
      BY <2>4, <3>1, <3>2
  <2>10. ASSUME NEW i \in 1 .. l PROVE PairedAt(ms2, i, cl)
    <3>1. PairedAt(ms, i, <<>>)
      BY <1>2, <2>6
    <3>2. Longer(who, f, x, B, ms, ms2)
      BY <1>1, <2>1 DEF Longer
    <3> HIDE DEF xB
    <3> QED
      BY <3>1, <3>2, PairedLonger
  <2>11. \A i \in DOMAIN ms2 : PairedAt(ms2, i, cl)
    BY <2>7, <2>8, <2>9, <2>10 DEF PairedAt
  <2>12. \A i \in DOMAIN ms2 : ms2[i].role = "user" => MessageCalls(ms2[i]) = <<>>
    BY <2>3, <2>6, <2>7, <2>8 DEF Paired
  <2> QED
    BY <2>11, <2>12 DEF Paired
<1>5. CASE ms2 = Append(ms, AMessage(who, B))
  <2> DEFINE e == AMessage(who, B)
  <2>1. e \in AMessages /\ e.role # "user"
    BY DEF AMessage, AMessages
  <2>2. MessageCalls(e) = cl
    BY <1>1, CallsGrow
  <2>3. ms2 = Append(ms, e)
    BY <1>5
  <2> HIDE DEF e
  <2>4. Len(ms2) = n + 1 /\ DOMAIN ms2 = 1 .. n + 1 /\ ms2[n + 1] = e /\ \A i \in 1 .. n : ms2[i] = ms[i]
    BY <2>1, <2>3, OneAfter
  <2>5. \A i \in 1 .. n + 1 : i \in 1 .. n \/ i = n + 1
    BY <1>1
  <2>6. ASSUME NEW i \in 1 .. n PROVE PairedAt(ms2, i, cl)
    <3>1. PairedAt(ms, i, <<>>) /\ (i = Len(ms) => MessageCalls(ms[i]) = <<>>)
      BY <1>2
    <3>2. PairedAt(Append(ms, e), i, cl)
      BY <2>1, <3>1, PairedAppend
    <3> QED
      BY <2>3, <3>2
  <2>7. \A i \in DOMAIN ms2 : PairedAt(ms2, i, cl)
    BY <2>2, <2>4, <2>5, <2>6 DEF PairedAt
  <2>8. \A i \in DOMAIN ms2 : ms2[i].role = "user" => MessageCalls(ms2[i]) = <<>>
    BY <1>1, <2>1, <2>4, <2>5 DEF Paired
  <2> QED
    BY <2>7, <2>8 DEF Paired
<1> QED
  BY <1>3, <1>4, <1>5 DEF Grown

\* and the two go on to take turns.
LEMMA AlternatesAdds ==
  ASSUME NEW ms \in Seq(AMessages), Alternates(ms), NEW role \in Speaking, NEW B \in Seq(ABlocks), NEW ms2,
         Adds(ms, role, B, ms2)
  PROVE  Alternates(ms2)
<1>1. CASE B = <<>> /\ ms2 = ms
  BY <1>1
<1>2. CASE \E f \in Seq(AMessages), x \in Seq(ABlocks) :
             ms = Append(f, AMessage(role, x)) /\ ms2 = Append(f, AMessage(role, x \o B))
  <2>1. PICK f \in Seq(AMessages), x \in Seq(ABlocks) :
             ms = Append(f, AMessage(role, x)) /\ ms2 = Append(f, AMessage(role, x \o B))
    BY <1>2
  <2> DEFINE xB == x \o B
             e == AMessage(role, x)
             e2 == AMessage(role, xB)
             l == Len(f)
  <2>2. xB \in Seq(ABlocks)
    BY ConcatProperties
  <2>3. e \in AMessages /\ e2 \in AMessages /\ e2.role = e.role
    BY <2>2 DEF AMessage, AMessages, Speaking
  <2>4. ms = Append(f, e) /\ ms2 = Append(f, e2)
    BY <2>1
  <2> HIDE DEF e, e2
  <2>5. l \in Nat /\ Len(ms) = l + 1 /\ DOMAIN ms = 1 .. l + 1 /\ ms[l + 1] = e /\ \A i \in 1 .. l : ms[i] = f[i]
    BY <2>3, <2>4, OneAfter
  <2>6. Len(ms2) = l + 1 /\ DOMAIN ms2 = 1 .. l + 1 /\ ms2[l + 1] = e2 /\ \A i \in 1 .. l : ms2[i] = f[i]
    BY <2>3, <2>4, OneAfter
  <2>7. \A i \in 1 .. l + 1 : i \in 1 .. l \/ i = l + 1
    BY <2>5
  <2>8. \A i \in 1 .. l + 1 : ms2[i].role = ms[i].role
    BY <2>3, <2>5, <2>6, <2>7
  <2>9. \A i \in 1 .. l + 1 : i < l + 1 => i + 1 \in 1 .. l + 1
    BY <2>5
  <2> QED
    BY <2>5, <2>6, <2>8, <2>9 DEF Alternates
<1>3. CASE Turns(ms, role) /\ ms2 = Append(ms, AMessage(role, B))
  <2> DEFINE n == Len(ms)
             e == AMessage(role, B)
  <2>1. e \in AMessages /\ e.role = role
    BY DEF AMessage, AMessages, Speaking
  <2>2. ms2 = Append(ms, e)
    BY <1>3
  <2> HIDE DEF e
  <2>3. /\ n \in Nat /\ Len(ms2) = n + 1 /\ DOMAIN ms2 = 1 .. n + 1 /\ DOMAIN ms = 1 .. n /\ ms2[n + 1] = e
        /\ \A i \in 1 .. n : ms2[i] = ms[i]
    BY <2>1, <2>2, OneAfter
  <2>4. ASSUME NEW i \in 1 .. n + 1, i < n + 1 PROVE ms2[i + 1].role # ms2[i].role
    <3>1. i \in 1 .. n /\ (i < n => i + 1 \in 1 .. n)
      BY <2>3, <2>4
    <3>2. CASE i < n
      BY <2>3, <3>1, <3>2 DEF Alternates
    <3>3. CASE ~ i < n
      <4>1. i = n /\ n \in DOMAIN ms
        <5> HIDE DEF n
        <5>1. i = n
          BY <2>3, <3>1, <3>3
        <5> QED
          BY <2>3, <3>1, <5>1
      <4>2. ms # <<>> /\ Last(ms) = ms[n]
        BY <4>1 DEF Last
      <4> QED
        BY <1>3, <2>1, <2>3, <4>1, <4>2 DEF Turns
    <3> QED
      BY <3>2, <3>3
  <2> QED
    BY <2>3, <2>4 DEF Alternates
<1> QED
  BY <1>1, <1>2, <1>3 DEF Adds

-----------------------------------------------------------------------------
\* The calls of the history a provider p would get: those the client has to answer are open, all
\* others are answered the way p asks for it.
AnsweredBy(c, p, h, cl, w) ==
  LET ms == MsOf(c, p, h) IN
  /\ p \in OpenAI => Once(Tolds(p, ms), cl, w)
  /\ p = "chat" /\ (c = "responses" => OutputsNext(h)) => Followed(Tolds(p, ms), cl)
  /\ p = "anthropic" => Paired(ms, cl) /\ (c # "anthropic" => Alternates(ms))

\* So it is before anything is said,
LEMMA AnsweredFirst ==
  ASSUME NEW c \in Protocols, NEW p \in Protocols, NEW w \in Nat
  PROVE  AnsweredBy(c, p, StartOf(c), <<>>, w)
<1> DEFINE h == StartOf(c)
           ms == MsOf(c, p, h)
           F == Tolds(p, ms)
           e == Instructions
<1>1. (p = "anthropic" => ms = <<>>) /\ \A i \in DOMAIN F : F[i] = e
  BY Opened DEF Begun
<1>2. CallsIn(e) = <<>> /\ Replies(e) = {}
  <2> DEFINE S == FactsBy("system")
  <2>1. Fact("system", NoId, 1) \in S
    BY DEF Fact, FactsBy, AllFacts, Whos, NoId
  <2>2. e \in Seq(S)
    <3> DEFINE f == Fact("system", NoId, 1)
    <3>1. e = <<f>> /\ f \in S
      BY <2>1 DEF Instructions
    <3> HIDE DEF S, f, e
    <3> QED
      BY <3>1
  <2>3. CallsIn(e) = <<>>
    BY <2>2, ByOne
  <2>4. \A f \in S : f.by # "result"
    BY DEF FactsBy
  <2> HIDE DEF S, e
  <2> QED
    BY <2>2, <2>3, <2>4, NoReplies
<1> HIDE DEF h, ms, F, e
<1>3. ToSet(<<>>) = {}
  BY DEF ToSet
<1>4. Once(F, <<>>, w) /\ Followed(F, <<>>)
  BY <1>1, <1>2, <1>3 DEF Once, Followed, FollowedAt
<1>5. p = "anthropic" => Paired(ms, <<>>) /\ Alternates(ms)
  BY <1>1 DEF Paired, Alternates
<1> QED
  BY <1>4, <1>5 DEF AnsweredBy, F, ms, h

\* once the user has spoken
LEMMA UserAnswers ==
  ASSUME NEW c \in Protocols, NEW p \in Protocols, NEW h, NEW said1, Hearing(c, p, h, said1),
         NEW new, NEW results, NEW plain, UserStep(c, new, results, plain),
         NEW cl \in Seq(Nat), Distinct(cl), NEW w \in Nat, ToSet(cl) \subseteq 1 .. w, NEW w2 \in Nat, w2 >= w,
         Answers2(results, cl), AnsweredBy(c, p, h, cl, w)
  PROVE  AnsweredBy(c, p, h \o new, <<>>, w2)
<1> DEFINE h2 == h \o new
           ms == MsOf(c, p, h)
           ms2 == MsOf(c, p, h2)
           F == Tolds(p, ms)
           O == OutsOf("user", results, plain)
<1>1. /\ results \in Seq(ResultSet) /\ plain \in Seq(PlainSet) /\ Sequence(new)
      /\ \A i \in DOMAIN results : ResultWords(results[i]) # <<>>
  BY DEF UserStep
<1>2. Readied(c, p, h) /\ Sequence(h) /\ F \in Seq(Seq(AllFacts))
  BY DEF Hearing, Readied
<1>3. OutputsNext(h2) => OutputsNext(h)
  BY <1>1, <1>2, OutputsNextBefore
<1>4. CASE p \in OpenAI
  <2>1. GrowsBy(p, ms, ms2, O)
    BY <1>2, <1>4, UserGrows
  <2>2. UserReplies(O, cl)
    BY <1>1, OutsReply
  <2>3. Once(F, cl, w) /\ (p = "chat" /\ (c = "responses" => OutputsNext(h)) => Followed(F, cl))
    BY <1>4 DEF AnsweredBy
  <2> HIDE DEF O, F, ms, ms2, h2
  <2>4. Tolds(p, ms2) = F \o O
    BY <2>1 DEF GrowsBy, F
  <2>5. Once(F \o O, <<>>, w2)
    BY <1>2, <2>2, <2>3, OnceUser
  <2>6. ASSUME p = "chat", c = "responses" => OutputsNext(h2) PROVE Followed(F \o O, <<>>)
    <3>1. Followed(F, cl)
      BY <1>3, <2>3, <2>6
    <3> QED
      BY <1>2, <2>2, <3>1, FollowedUser
  <2>7. p # "anthropic"
    BY <1>4 DEF OpenAI
  <2> QED
    BY <2>4, <2>5, <2>6, <2>7 DEF AnsweredBy, ms2, h2
<1>5. CASE p = "anthropic"
  <2>1. ms \in Seq(AMessages) /\ Readied(c, "anthropic", h)
    BY <1>2, <1>5 DEF Hearing
  <2>2. PICK B : /\ Answering(B, results, plain) /\ B # <<>>
                 /\ Grows(c, MsOf(c, "anthropic", h), "user", B, MsOf(c, "anthropic", h \o new))
    BY <1>5, <2>1, AnthropicUser
  <2>3. Grown(ms, "user", B, ms2) /\ (c # "anthropic" => Adds(ms, "user", B, ms2)) /\ B \in Seq(ABlocks)
    BY <1>5, <2>2 DEF Grows, Answering
  <2>4. Paired(ms, cl) /\ (c # "anthropic" => Alternates(ms))
    BY <1>5 DEF AnsweredBy
  <2> HIDE DEF ms, ms2, h2
  <2>5. Paired(ms2, <<>>)
    BY <1>1, <2>1, <2>2, <2>3, <2>4, PairedUser
  <2>6. c # "anthropic" => Alternates(ms2)
    BY <2>1, <2>3, <2>4, AlternatesAdds DEF Speaking
  <2>7. p \notin OpenAI /\ p # "chat"
    BY <1>5 DEF OpenAI
  <2> QED
    BY <2>5, <2>6, <2>7 DEF AnsweredBy, ms2, h2
<1> QED
  BY <1>4, <1>5 DEF Protocols, OpenAI

\* and once the assistant has, whose calls are open then.
LEMMA AssistantAnswers ==
  ASSUME NEW c \in Protocols, NEW p \in Protocols, NEW h, NEW said1, Hearing(c, p, h, said1),
         NEW new, AssistantStep(c, new), p # c => Readables(c, new), NEW cl, cl = CallsIn(TellsAll(c, new)),
         NEW w \in Nat, NEW w2 \in Nat, w2 >= w, Fresh(cl, w, w2), AnsweredBy(c, p, h, <<>>, w)
  PROVE  AnsweredBy(c, p, h \o new, cl, w2)
<1> DEFINE h2 == h \o new
           y == TellsAll(c, new)
           ms == MsOf(c, p, h)
           ms2 == MsOf(c, p, h2)
           F == Tolds(p, ms)
<1>1. new \in Seq(KeptMessages(c)) /\ Sequence(new)
  BY IsSequence DEF AssistantStep
<1>2. Readied(c, p, h) /\ Sequence(h) /\ F \in Seq(Seq(AllFacts))
  BY DEF Hearing, Readied
<1>3. OutputsNext(h2) => OutputsNext(h) /\ (c = "responses" => Quiet(new))
  BY <1>1, <1>2, OutputsNextBefore
<1>4. CASE p \in OpenAI
  <2>1. PICK G : GrowsBy(p, MsOf(c, p, h), MsOf(c, p, h \o new), G) /\ AssistantSays(p, c, new, G)
    BY <1>2, <1>4, AssistantGrows
  <2>2. Once(F, <<>>, w) /\ (p = "chat" /\ (c = "responses" => OutputsNext(h)) => Followed(F, <<>>))
    BY <1>4 DEF AnsweredBy
  <2> HIDE DEF y
  <2>3. G \in Seq(Seq(Voice)) /\ CallsIn(FlattenSeq(G)) = cl
    BY <2>1 DEF AssistantSays, Agrees, Alike, y
  <2>4. Tolds(p, ms2) = F \o G
    BY <2>1 DEF GrowsBy
  <2>5. p = "chat" /\ (c = "responses" => Quiet(new)) => CallsLast(G)
    BY <2>1 DEF AssistantSays
  <2> HIDE DEF F, ms, ms2, h2
  <2>6. Once(F \o G, cl, w2)
    <3>1. ToSet(CallsIn(FlattenSeq(G))) = ToSet(cl) /\ ToSet(cl) \subseteq w + 1 .. w2
      BY <2>3 DEF Fresh
    <3> QED
      BY <1>2, <2>2, <2>3, <3>1, OnceAssistant
  <2>7. ASSUME p = "chat", c = "responses" => OutputsNext(h2) PROVE Followed(F \o G, cl)
    <3>1. Followed(F, <<>>) /\ CallsLast(G)
      BY <1>3, <2>2, <2>5, <2>7
    <3> QED
      BY <1>2, <2>3, <3>1, FollowedAssistant
  <2>8. p # "anthropic"
    BY <1>4 DEF OpenAI
  <2> QED
    BY <2>4, <2>6, <2>7, <2>8 DEF AnsweredBy, ms2, h2
<1>5. CASE p = "anthropic"
  <2>1. ms \in Seq(AMessages) /\ Readied(c, "anthropic", h)
    BY <1>2, <1>5 DEF Hearing
  <2>2. PICK B \in Seq(ABlocks) :
          /\ BlocksSay("assistant", B) = TellsAll(c, new)
          /\ Grows(c, MsOf(c, "anthropic", h), "assistant", B, MsOf(c, "anthropic", h \o new))
    BY <1>5, <2>1, AnthropicAssistant
  <2>3. Grown(ms, "assistant", B, ms2) /\ (c # "anthropic" => Adds(ms, "assistant", B, ms2))
    BY <1>5, <2>2 DEF Grows
  <2>4. Paired(ms, <<>>) /\ (c # "anthropic" => Alternates(ms))
    BY <1>5 DEF AnsweredBy
  <2>5. cl = CallsIn(BlocksSay("assistant", B))
    BY <2>2
  <2> HIDE DEF ms, ms2, h2, y
  <2>6. Paired(ms2, cl)
    BY <2>1, <2>2, <2>3, <2>4, <2>5, PairedAssistant
  <2>7. c # "anthropic" => Alternates(ms2)
    BY <2>1, <2>2, <2>3, <2>4, AlternatesAdds DEF Speaking
  <2>8. p \notin OpenAI /\ p # "chat"
    BY <1>5 DEF OpenAI
  <2> QED
    BY <2>6, <2>7, <2>8 DEF AnsweredBy, ms2, h2
<1> QED
  BY <1>4, <1>5 DEF Protocols, OpenAI

-----------------------------------------------------------------------------
\* Every provider that could be asked finds the calls answered, but for those that the client has to
\* answer before anything else is asked.
Open ==
  /\ calls \in Seq(Nat) /\ Distinct(calls) /\ words \in Nat /\ ToSet(calls) \subseteq 1 .. words
  /\ phase # "idle" => calls = <<>>
Answerable ==
  /\ Open
  /\ \A p \in Protocols :
       p = client \/ Readables(client, history) => AnsweredBy(client, p, history, calls, words)

\* So it is at the beginning,
LEMMA AnswerableFirst == Init => Answerable
<1> SUFFICES ASSUME Init PROVE Answerable
  OBVIOUS
<1>1. client \in Protocols /\ history = StartOf(client) /\ calls = <<>> /\ words = 1
  BY DEF Init, StartOf
<1>2. Open
  <2>1. ToSet(<<>>) = {} /\ Distinct(<<>>) /\ <<>> \in Seq(Nat)
    BY DEF ToSet, Distinct
  <2> QED
    BY <1>1, <2>1 DEF Open
<1>3. ASSUME NEW p \in Protocols PROVE AnsweredBy(client, p, history, calls, words)
  BY <1>1, AnsweredFirst
<1> QED
  BY <1>2, <1>3 DEF Answerable

\* and after every step.
LEMMA AnswerableAfter ==
  ASSUME IInv, Heeded, Answerable, Continues
  PROVE  Answerable'
<1>1. client \in Protocols /\ Sequence(history) /\ client' = client
  BY DEF IInv, Asking, Written, Continues
<1>2. /\ calls \in Seq(Nat) /\ Distinct(calls) /\ words \in Nat /\ ToSet(calls) \subseteq 1 .. words
      /\ phase # "idle" => calls = <<>>
  BY DEF Answerable, Open
<1>3. ASSUME NEW p \in Protocols, p = client \/ Readables(client, history)
      PROVE  Hearing(client, p, history, said) /\ AnsweredBy(client, p, history, calls, words)
  BY <1>3 DEF Heeded, Answerable
<1>4. CASE UserSpeaks /\ calls' = <<>> /\ words' \in Nat /\ words' >= words
  <2>1. PICK new, results, plain :
          /\ history' = history \o new /\ UserStep(client, new, results, plain) /\ Answers2(results, calls)
    BY <1>4 DEF UserSpeaks
  <2>2. Sequence(new)
    BY <2>1 DEF UserStep
  <2>3. ASSUME NEW p \in Protocols, p = client \/ Readables(client, history')
        PROVE  AnsweredBy(client, p, history', calls', words')
    <3>1. p = client \/ Readables(client, history)
      BY <1>1, <2>1, <2>2, <2>3, ReadablesApart
    <3>2. Hearing(client, p, history, said) /\ AnsweredBy(client, p, history, calls, words)
      BY <1>3, <3>1
    <3>3. AnsweredBy(client, p, history \o new, <<>>, words')
      BY <1>1, <1>2, <1>4, <2>1, <3>2, UserAnswers
    <3> QED
      BY <1>4, <2>1, <3>3
  <2>4. Open'
    <3>1. ToSet(<<>>) = {} /\ Distinct(<<>>) /\ <<>> \in Seq(Nat)
      BY DEF ToSet, Distinct
    <3> QED
      BY <1>4, <3>1 DEF Open
  <2> QED
    BY <1>1, <2>3, <2>4 DEF Answerable
<1>5. CASE /\ AssistantSpeaks /\ phase = "waiting" /\ phase' = "idle"
           /\ words' \in Nat /\ words' >= words /\ Fresh(calls', words, words')
  <2>1. PICK new : /\ AssistantStep(client, new) /\ history' = history \o new
                   /\ calls' = CallsIn(TellsAll(client, new))
    BY <1>5 DEF AssistantSpeaks
  <2>2. Sequence(new)
    BY <2>1, IsSequence DEF AssistantStep
  <2>3. calls = <<>>
    BY <1>2, <1>5
  <2>4. ASSUME NEW p \in Protocols, p = client \/ Readables(client, history')
        PROVE  AnsweredBy(client, p, history', calls', words')
    <3>1. p = client \/ (Readables(client, history) /\ Readables(client, new))
      BY <1>1, <2>1, <2>2, <2>4, ReadablesApart
    <3>2. Hearing(client, p, history, said) /\ AnsweredBy(client, p, history, <<>>, words)
      BY <1>3, <2>3, <3>1
    <3> DEFINE cl == calls'
               w2 == words'
    <3>3. cl = CallsIn(TellsAll(client, new)) /\ Fresh(cl, words, w2) /\ w2 \in Nat /\ w2 >= words
      BY <1>5, <2>1
    <3> HIDE DEF cl, w2
    <3>4. AnsweredBy(client, p, history \o new, cl, w2)
      BY <1>1, <1>2, <2>1, <3>1, <3>2, <3>3, AssistantAnswers
    <3> QED
      BY <2>1, <3>4 DEF cl, w2
  <2>5. Open'
    <3>1. words + 1 .. words' \subseteq 1 .. words'
      BY <1>2, <1>5
    <3> QED
      BY <1>5, <3>1 DEF Open, Fresh
  <2> QED
    BY <1>1, <2>4, <2>5 DEF Answerable
<1>6. CASE UNCHANGED <<history, said, words, calls>> /\ (phase' = "idle" <=> phase = "idle")
  <2>1. Open'
    BY <1>2, <1>6 DEF Open
  <2>2. ASSUME NEW p \in Protocols, p = client \/ Readables(client, history')
        PROVE  AnsweredBy(client, p, history', calls', words')
    BY <1>3, <1>6, <2>2
  <2> QED
    BY <1>1, <2>1, <2>2 DEF Answerable
<1> QED
  BY <1>4, <1>5, <1>6 DEF Continues

\* The messages after the i-th one that answer a call,
AnswersOf(F, i, id) == {j \in i + 1 .. Len(F) : Replies(F[j]) = {id}}

\* of which there is one if it is answered once.
LEMMA OneAnswer == ASSUME NEW F, NEW i, NEW id, AnsweredOnce(F, i, id) PROVE Cardinality(AnswersOf(F, i, id)) = 1
<1>1. PICK j \in i + 1 .. Len(F) : \A l \in i + 1 .. Len(F) : Replies(F[l]) = {id} <=> l = j
  BY DEF AnsweredOnce
<1>2. AnswersOf(F, i, id) = {j}
  BY <1>1 DEF AnswersOf
<1>3. Cardinality({j}) = 1
  BY FS_Singleton
<1> QED
  BY <1>2, <1>3

\* So the calls are answered in what is sent, as Anthropic asks for it,
LEMMA AnsweredAnthropic ==
  ASSUME NEW ms, Paired(ms, <<>>), NEW i \in DOMAIN ms, MessageCalls(ms[i]) # <<>>
  PROVE  /\ i < Len(ms) /\ ms[i + 1].role = "user"
         /\ \A k \in DOMAIN MessageCalls(ms[i]) :
              /\ ms[i + 1].content[k].type = "tool_result"
              /\ MessageCalls(ms[i])[k] \in
                   {ms[i + 1].content[l].tool_use_id :
                      l \in {l \in DOMAIN ms[i + 1].content : ms[i + 1].content[l].type = "tool_result"}}
<1> DEFINE ids == MessageCalls(ms[i])
           B == ms[i + 1].content
<1>1. /\ i < Len(ms) /\ ms[i + 1].role = "user"
      /\ \A k \in DOMAIN ids : k \in DOMAIN B /\ B[k].type = "tool_result" /\ B[k].tool_use_id = ids[k]
  BY DEF Paired, PairedAt
<1> HIDE DEF ids, B
<1>2. \A k \in DOMAIN ids : /\ B[k].type = "tool_result"
                            /\ ids[k] \in {B[l].tool_use_id : l \in {l \in DOMAIN B : B[l].type = "tool_result"}}
  BY <1>1
<1> QED
  BY <1>1, <1>2 DEF ids, B

\* as Chat does,
LEMMA AnsweredChat ==
  ASSUME NEW F \in Seq(Seq(AllFacts)), Followed(F, <<>>), NEW i \in DOMAIN F, NEW k \in DOMAIN CallsIn(F[i])
  PROVE  /\ i + Len(CallsIn(F[i])) <= Len(F)
         /\ \E j \in i + 1 .. i + Len(CallsIn(F[i])) : Replies(F[j]) = {CallsIn(F[i])[k]}
<1> DEFINE ids == CallsIn(F[i])
           l == Len(ids)
<1>1. l \in Nat /\ DOMAIN ids = 1 .. l /\ i \in Nat
  <2>1. l \in Nat /\ DOMAIN ids = 1 .. l
    BY CallsLength
  <2>2. DOMAIN F = 1 .. Len(F) /\ Len(F) \in Nat
    BY LenProperties
  <2> QED
    BY <2>1, <2>2
<1>2. FollowedAt(F, i, <<>>)
  BY DEF Followed
<1>3. ids # <<>>
  BY <1>1
<1>4. i + l <= Len(F) /\ \A n \in DOMAIN ids : Replies(F[i + n]) = {ids[n]}
  BY <1>2, <1>3 DEF FollowedAt
<1> HIDE DEF ids, l
<1>5. k \in 1 .. l
  BY <1>1 DEF ids
<1>6. i + k \in i + 1 .. i + l
  BY <1>1, <1>5
<1>7. Replies(F[i + k]) = {ids[k]}
  BY <1>1, <1>4, <1>5
<1> QED
  BY <1>4, <1>6, <1>7 DEF ids, l

\* and as Responses does.
LEMMA AnswerableTells ==
  ASSUME IInv, Heeded, Answerable
  PROVE  ToolsAnswered
<1> SUFFICES ASSUME phase = "waiting" PROVE ToolsAnswered
  BY DEF ToolsAnswered
<1> DEFINE ms == sent.messages
           p == provider
           F == Tolds(p, ms)
<1>1. SentTo(provider)
  BY WaitingSent
<1>2. /\ p \in Protocols /\ ms = MsOf(client, p, history) /\ Hearing(client, p, history, said)
      /\ AnsweredBy(client, p, history, <<>>, words)
  BY <1>1 DEF SentTo, Heeded, Answerable, Open
<1>3. Sequence(ms) /\ F \in Seq(Seq(AllFacts))
  BY <1>2 DEF Hearing
<1> HIDE DEF ms, p
<1>4. DOMAIN F = DOMAIN ms /\ \A i \in DOMAIN ms : F[i] = Told(p, ms[i])
  BY DEF Tolds
<1> HIDE DEF F
<1>5. Len(F) = Len(ms)
  <2>1. DOMAIN ms = 1 .. Len(ms) /\ Len(ms) \in Nat /\ DOMAIN F = 1 .. Len(F) /\ Len(F) \in Nat
    BY <1>3, LenProperties DEF Sequence
  <2> QED
    BY <1>4, <2>1
<1>6. ASSUME p = "anthropic", NEW i \in DOMAIN ms
      PROVE  LET ids == CallIds(ms[i]) IN
             /\ ids # <<>> =>
                  /\ i < Len(ms) /\ ms[i + 1].role = "user"
                  /\ \A k \in DOMAIN ids :
                       /\ ms[i + 1].content[k].type = "tool_result"
                       /\ ids[k] \in {ms[i + 1].content[l].tool_use_id :
                            l \in {l \in DOMAIN ms[i + 1].content : ms[i + 1].content[l].type = "tool_result"}}
             /\ client # p /\ i < Len(ms) => ms[i + 1].role # ms[i].role
  <2>1. Paired(ms, <<>>) /\ (client # "anthropic" => Alternates(ms))
    BY <1>2, <1>6 DEF AnsweredBy
  <2>2. CallIds(ms[i]) = MessageCalls(ms[i])
    BY <1>6 DEF CallIds, MessageCalls, p
  <2>3. client # p /\ i < Len(ms) => ms[i + 1].role # ms[i].role
    BY <1>6, <2>1 DEF Alternates
  <2> DEFINE ids == MessageCalls(ms[i])
  <2>4. ids # <<>> =>
          /\ i < Len(ms) /\ ms[i + 1].role = "user"
          /\ \A k \in DOMAIN ids :
               /\ ms[i + 1].content[k].type = "tool_result"
               /\ ids[k] \in {ms[i + 1].content[l].tool_use_id :
                    l \in {l \in DOMAIN ms[i + 1].content : ms[i + 1].content[l].type = "tool_result"}}
    BY <2>1, AnsweredAnthropic
  <2> HIDE DEF ids
  <2>5. CallIds(ms[i]) = ids
    BY <2>2 DEF ids
  <2> QED
    BY <2>3, <2>4, <2>5
<1>7. ASSUME p = "chat", ~ (client = "responses" /\ Scattered), NEW i \in DOMAIN ms, NEW k \in DOMAIN CallIds(ms[i])
      PROVE  /\ i + Len(CallIds(ms[i])) <= Len(ms)
             /\ \E j \in i + 1 .. i + Len(CallIds(ms[i])) : Replies(Told(p, ms[j])) = {CallIds(ms[i])[k]}
  <2>1. client = "responses" => OutputsNext(history)
    BY <1>7 DEF Scattered, OutputsNext
  <2>2. Followed(F, <<>>)
    BY <1>2, <1>7, <2>1 DEF AnsweredBy, F
  <2>3. CallIds(ms[i]) = CallsIn(F[i])
    BY <1>4 DEF CallIds, p
  <2> DEFINE ids == CallsIn(F[i])
  <2>4. /\ i + Len(ids) <= Len(F)
        /\ \E j \in i + 1 .. i + Len(ids) : Replies(F[j]) = {ids[k]}
    <3>1. i \in DOMAIN F /\ k \in DOMAIN CallsIn(F[i])
      BY <1>4, <2>3
    <3> QED
      BY <1>3, <2>2, <3>1, AnsweredChat
  <2>5. Len(ids) \in Nat /\ i \in Nat /\ Len(F) \in Nat /\ DOMAIN ms = 1 .. Len(F)
    <3>1. Len(ids) \in Nat
      BY <1>3, <1>4, CallsLength
    <3>2. DOMAIN F = 1 .. Len(F) /\ Len(F) \in Nat
      BY <1>3, LenProperties
    <3> QED
      BY <1>4, <3>1, <3>2
  <2> HIDE DEF ids
  <2>6. \A j \in i + 1 .. i + Len(ids) : j \in DOMAIN ms
    BY <2>4, <2>5
  <2>7. /\ i + Len(ids) <= Len(ms)
        /\ \E j \in i + 1 .. i + Len(ids) : Replies(Told(p, ms[j])) = {ids[k]}
    BY <1>4, <1>5, <2>4, <2>6
  <2> QED
    BY <2>3, <2>7 DEF ids
<1>8. ASSUME p \in OpenAI, NEW i \in DOMAIN ms, NEW k \in DOMAIN CallIds(ms[i])
      PROVE  Cardinality({j \in i + 1 .. Len(ms) : Replies(Told(p, ms[j])) = {CallIds(ms[i])[k]}}) = 1
  <2> DEFINE id == CallIds(ms[i])[k]
             n == Len(ms)
  <2>1. Once(F, <<>>, words)
    BY <1>2, <1>8 DEF AnsweredBy, F
  <2>2. id \in ToSet(CallsIn(F[i])) /\ id \notin ToSet(<<>>)
    <3>1. CallIds(ms[i]) = CallsIn(F[i])
      BY <1>4 DEF CallIds, p
    <3> QED
      BY <3>1 DEF ToSet
  <2>3. AnsweredOnce(F, i, id)
    BY <1>4, <2>1, <2>2 DEF Once
  <2> HIDE DEF id
  <2>4. Cardinality(AnswersOf(F, i, id)) = 1
    BY <2>3, OneAnswer
  <2>5. \A j \in i + 1 .. n : F[j] = Told(p, ms[j])
    <3>1. DOMAIN F = 1 .. Len(F) /\ Len(F) \in Nat
      BY <1>3, LenProperties
    <3>2. \A j \in i + 1 .. n : j \in DOMAIN ms
      BY <1>4, <1>5, <3>1
    <3> QED
      BY <1>4, <3>2
  <2>6. {j \in i + 1 .. n : Replies(Told(p, ms[j])) = {id}} = AnswersOf(F, i, id)
    BY <1>5, <2>5 DEF AnswersOf
  <2>7. Cardinality({j \in i + 1 .. n : Replies(Told(p, ms[j])) = {id}}) = 1
    BY <2>4, <2>6
  <2> QED
    BY <2>7 DEF id
<1>9. p = "anthropic" \/ p \in OpenAI
  BY <1>2 DEF Protocols, OpenAI
<1>10. p \in OpenAI => p # "anthropic"
  BY DEF OpenAI
<1> QED
  BY <1>6, <1>7, <1>8, <1>9, <1>10 DEF ToolsAnswered, ms, p

\* Every provider finds each tool call of the history answered once, and where its protocol asks for
\* it: at once for Chat and Anthropic, whose user and assistant take turns (addMessage of request.go puts
\* what one role says into one message, the results before the rest).
THEOREM ToolsAreAnswered == Spec => []ToolsAnswered
<1>1. Init => IInv /\ Heeded /\ Answerable
  BY Initially, HeededFirst, AnswerableFirst
<1>2. IInv /\ Heeded /\ Answerable /\ [Next]_vars => (IInv /\ Heeded /\ Answerable)'
  <2>1. IInv /\ Heeded /\ [Next]_vars => Continues
    BY StepsContinue DEF Heeded
  <2> QED
    BY <2>1, Steps, HeededAfter, AnswerableAfter
<1>3. IInv /\ Heeded /\ Answerable => ToolsAnswered
  BY AnswerableTells
<1> QED
  BY <1>1, <1>2, <1>3, PTL DEF Spec
=============================================================================
