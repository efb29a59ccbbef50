----------------------------- MODULE StreamProofs -----------------------------
(***************************************************************************)
(* Proofs about StreamTranslation.  First the invariant and the lemmas     *)
(* about the operators: concatenation of texts, the rendering of blocks,   *)
(* event by event, and what the upstream's events do to the blocks.  Then  *)
(* the theorems: the invariant is preserved by each of the actions, and    *)
(* the properties follow from it.                                          *)
(*                                                                         *)
(* The arguments of the predicates: f is the upstream's protocol, t the    *)
(* client's, s the slots of the pieces said, c (d with one event more) the *)
(* client's events, bs (and cs later) the blocks.                          *)
(***************************************************************************)
EXTENDS StreamTranslation, SequenceTheorems, FiniteSetTheorems, TLAPS

-----------------------------------------------------------------------------
(* Numbers and sequences. *)

\* A set of numbers that is not empty has a least member: the finite sets are
\* well founded.
LEMMA LeastOf ==
  ASSUME NEW S \in SUBSET Nat, S # {}
  PROVE  \E m \in S : \A k \in S : m <= k
<1> DEFINE T == {1 .. n : n \in S}
<1>1. T \subseteq FiniteSubsetsOf(Nat) /\ T # {}
  <2>1. \A n \in S : 1 .. n \in SUBSET Nat /\ IsFiniteSet(1 .. n)
    BY FS_Interval
  <2> QED
    BY <2>1 DEF FiniteSubsetsOf
<1>2. PICK x \in T : \A y \in T : ~ (<<y, x>> \in StrictSubsetOrdering(Nat))
  <2> HIDE DEF T
  <2> QED
    BY <1>1, FS_StrictSubsetOrderingWellFounded, WFMin
<1>3. PICK m \in S : x = 1 .. m
  OBVIOUS
<1>4. ASSUME NEW k \in S, k < m PROVE FALSE
  <2>1. 1 .. k \in T
    OBVIOUS
  <2>2. 1 .. k \subseteq 1 .. m /\ 1 .. k # 1 .. m /\ 1 .. k \in SUBSET Nat /\ 1 .. m \in SUBSET Nat
    BY <1>4
  <2> QED
    BY <1>2, <1>3, <2>1, <2>2 DEF StrictSubsetOrdering
<1> QED
  BY <1>4

(* Induction, from the well-foundedness of finite sets. *)

\* A set of numbers that holds 0 and with each number the next holds all.
LEMMA Induction ==
  ASSUME NEW S, 0 \in S, \A n \in Nat : n \in S => n + 1 \in S
  PROVE  Nat \subseteq S
<1> SUFFICES ASSUME Nat \ S # {} PROVE FALSE
  OBVIOUS
<1>1. PICK m \in Nat \ S : \A k \in Nat \ S : m <= k
  BY LeastOf
<1>2. m # 0 /\ m - 1 \in Nat
  BY <1>1, SMT
<1>3. m - 1 \in S
  BY <1>1, <1>2, SMT
<1> QED
  BY <1>1, <1>2, <1>3, SMT

(* The function that FlattenSeq builds up: the concatenation of the first i. *)
Builds(g, ss, n) ==
  /\ DOMAIN g = 1 .. n
  /\ \A i \in 1 .. n : g[i] = IF i = 1 THEN ss[i] ELSE g[i-1] \o ss[i]

\* The recursive function that concatenates the first n sequences exists.
LEMMA BuildsExists ==
  ASSUME NEW ss
  PROVE  \A n \in Nat : \E g : g = [i \in 1 .. n |-> IF i = 1 THEN ss[i] ELSE g[i-1] \o ss[i]]
<1> DEFINE Is(g, n) == g = [i \in 1 .. n |-> IF i = 1 THEN ss[i] ELSE g[i-1] \o ss[i]]
           Works == {n \in Nat : \E g : Is(g, n)}
<1>1. 0 \in Works
  <2> DEFINE g == [i \in 1 .. 0 |-> ss[i]]
  <2>1. Is(g, 0)
    BY SMT
  <2> QED
    BY <2>1
<1>2. ASSUME NEW n \in Nat, NEW g, Is(g, n) PROVE \E h : Is(h, n + 1)
  <2> DEFINE h == [i \in 1 .. n + 1 |->
                    IF i <= n THEN g[i] ELSE IF i = 1 THEN ss[i] ELSE g[i-1] \o ss[i]]
  <2>1. ASSUME NEW i \in 1 .. n + 1
        PROVE  h[i] = IF i = 1 THEN ss[i] ELSE h[i-1] \o ss[i]
    <3>1. CASE i <= n
      <4>1. i \in 1 .. n /\ (i # 1 => i - 1 \in 1 .. n /\ i - 1 \in 1 .. n + 1 /\ i - 1 <= n)
        BY <3>1
      <4>2. h[i] = g[i] /\ (i # 1 => h[i-1] = g[i-1])
        BY <3>1, <4>1
      <4>3. g[i] = IF i = 1 THEN ss[i] ELSE g[i-1] \o ss[i]
        BY <1>2, <4>1
      <4> QED
        BY <4>2, <4>3
    <3>2. CASE ~ (i <= n)
      <4>1. i # 1 => i - 1 \in 1 .. n + 1 /\ i - 1 <= n
        BY <3>2
      <4> QED
        BY <3>2, <4>1
    <3> QED
      BY <3>1, <3>2
  <2>2. h = [i \in 1 .. n + 1 |-> h[i]]
    OBVIOUS
  <2>3. Is(h, n + 1)
    <3> HIDE DEF h
    <3> QED
      BY <2>1, <2>2
  <2> HIDE DEF h, Is
  <2> QED
    BY <2>3
<1>3. \A n \in Nat : n \in Works => n + 1 \in Works
  <2> HIDE DEF Is
  <2> QED
    BY <1>2
<1>4. Nat \subseteq Works
  <2> HIDE DEF Works
  <2> QED
    BY <1>1, <1>3, Induction
<1> QED
  BY <1>4

\* FlattenSeq is the last value of that function.
LEMMA FlattenBuilds ==
  ASSUME NEW ss, Len(ss) \in Nat \ {0}
  PROVE  \E g : Builds(g, ss, Len(ss)) /\ FlattenSeq(ss) = g[Len(ss)]
<1> DEFINE f == CHOOSE g : g = [i \in 1 .. Len(ss) |-> IF i = 1 THEN ss[i] ELSE g[i-1] \o ss[i]]
<1>1. f = [i \in 1 .. Len(ss) |-> IF i = 1 THEN ss[i] ELSE f[i-1] \o ss[i]]
  BY BuildsExists
<1>2. FlattenSeq(ss) = f[Len(ss)]
  BY DEF FlattenSeq
<1>3. Builds(f, ss, Len(ss))
  <2> HIDE DEF f
  <2> QED
    BY <1>1 DEF Builds
<1> HIDE DEF f
<1> QED
  BY <1>2, <1>3

\* It depends on the sequences it concatenates and on nothing else.
LEMMA BuildsSame ==
  ASSUME NEW ss, NEW tt, NEW n \in Nat, NEW m \in Nat, n <= m, NEW g, NEW h,
         Builds(g, ss, n), Builds(h, tt, m), \A i \in 1 .. n : ss[i] = tt[i]
  PROVE  \A i \in 1 .. n : g[i] = h[i]
<1> DEFINE Agree == {i \in Nat : i \in 1 .. n => g[i] = h[i]}
<1>1. 0 \in Agree
  OBVIOUS
<1>2. ASSUME NEW i \in Nat, i \in Agree PROVE i + 1 \in Agree
  <2> SUFFICES ASSUME i + 1 \in 1 .. n PROVE g[i+1] = h[i+1]
    OBVIOUS
  <2>1. i + 1 \in 1 .. m
    OBVIOUS
  <2>2. /\ g[i+1] = IF i + 1 = 1 THEN ss[i+1] ELSE g[i] \o ss[i+1]
        /\ h[i+1] = IF i + 1 = 1 THEN tt[i+1] ELSE h[i] \o tt[i+1]
    <3>1. (i + 1) - 1 = i
      OBVIOUS
    <3> QED
      BY <2>1, <3>1 DEF Builds
  <2>3. i # 0 => i \in 1 .. n
    OBVIOUS
  <2>4. i # 0 => g[i] = h[i]
    BY <1>2, <2>3
  <2>5. i + 1 = 1 <=> i = 0
    OBVIOUS
  <2> QED
    BY <2>2, <2>4, <2>5
<1>3. Nat \subseteq Agree
  <2> HIDE DEF Agree
  <2> QED
    BY <1>1, <1>2, Induction
<1> QED
  BY <1>3

(* Concatenation of sequences. *)

\* Three sequences after another, put together in one order or the other.
Associates(a, b, c) == (a \o b) \o c = a \o (b \o c)

\* Concatenation is associative, for two sequences
LEMMA ConcatTwo ==
  ASSUME NEW S, NEW a \in Seq(S), NEW b \in Seq(S), NEW c \in Seq(S)
  PROVE  Associates(a, b, c)
BY ConcatAssociative DEF Associates

\* and for three, added to a first one.
LEMMA ConcatThree ==
  ASSUME NEW S, NEW c \in Seq(S), NEW p \in Seq(S), NEW q \in Seq(S), NEW r \in Seq(S)
  PROVE  Associates(c, p, q) /\ Associates(c, p \o q, r)
<1> DEFINE w == p \o q
<1>1. w \in Seq(S)
  BY ConcatProperties
<1> HIDE DEF w
<1>2. Associates(c, p, q) /\ Associates(c, w, r)
  BY <1>1, ConcatTwo
<1> QED
  BY <1>2 DEF w

\* No sequence, no members.
LEMMA FlattenEmpty == FlattenSeq(<<>>) = <<>>
BY DEF FlattenSeq

\* One sequence more adds its members at the end.
LEMMA FlattenAppend ==
  ASSUME NEW S, NEW ss \in Seq(Seq(S)), NEW s \in Seq(S)
  PROVE  FlattenSeq(Append(ss, s)) = FlattenSeq(ss) \o s
<1> DEFINE tt == Append(ss, s)
           n == Len(ss)
<1>1. /\ n \in Nat /\ Len(tt) = n + 1 /\ Len(tt) \in Nat \ {0}
      /\ tt[n + 1] = s /\ \A i \in 1 .. n : tt[i] = ss[i]
  BY AppendProperties
<1>2. PICK h : Builds(h, tt, n + 1) /\ FlattenSeq(tt) = h[n + 1]
  <2> HIDE DEF tt
  <2> QED
    BY <1>1, FlattenBuilds
<1>3. CASE n = 0
  <2>1. ss = <<>>
    BY <1>3, EmptySeq
  <2>2. h[1] = s
    BY <1>1, <1>2, <1>3 DEF Builds
  <2> QED
    BY <1>2, <1>3, <2>1, <2>2, FlattenEmpty
<1>4. CASE n # 0
  <2>1. PICK g : Builds(g, ss, n) /\ FlattenSeq(ss) = g[n]
    BY <1>1, <1>4, FlattenBuilds
  <2>2. g[n] = h[n]
    <3> HIDE DEF tt, n
    <3>1. \A i \in 1 .. n : g[i] = h[i]
      BY <1>1, <1>2, <2>1, BuildsSame, SMTT(30)
    <3> QED
      BY <1>1, <1>4, <3>1
  <2>3. h[n + 1] = h[n] \o s
    <3>1. n + 1 \in 1 .. n + 1 /\ n + 1 # 1 /\ (n + 1) - 1 = n
      BY <1>1, <1>4
    <3> QED
      BY <1>1, <1>2, <3>1 DEF Builds
  <2> QED
    BY <1>2, <2>1, <2>2, <2>3
<1> QED
  BY <1>3, <1>4

\* The kinds of blocks, the keys they go by, and the blocks.
Kinds == {"text", "thinking", "refusal", "tool"}
Keys == ((Kinds \cup {"block"}) \X Nat) \cup {<<n>> : n \in Nat} \cup (Nat \X Kinds)

Block ==
  [key : Keys, kind : Kinds, text : Seq(Int), header : SUBSET {"id", "name"},
   fallback : Seq(Int), done : BOOLEAN, started : BOOLEAN, ended : BOOLEAN, sent : Nat]

\* The events of a client: about a block, the first, one passed on, and the last
\* (with its reason and, for Responses, the answer).
BlockEvent ==
  [type : {"open", "delta", "close"}, index : Int, kind : Kinds, text : Seq(Int)]
EventSet ==
  BlockEvent
    \cup [type : {"start", "relay", "finish"}]
    \cup [type : {"finish"}, reason : {"length", "content_filter", "tool_calls", "stop"},
          output : Seq(Seq(Int))]

\* What the upstream began, and where it is.
ItemSet == [kind : Kinds \cup {"whole"}, open : BOOLEAN]
UpSet == [phase : {"talking", "stopped", "ended"}, items : Seq(ItemSet)]

Reasons == {"", "stop", "length"}

\* The types of the variables.
TypeOK ==
  /\ from \in Protocols /\ to \in Protocols
  /\ blocks \in Seq(Block)
  /\ chatText \in Nat /\ chatThinking \in Nat
  /\ stop \in Reasons
  /\ started \in BOOLEAN
  /\ outcome \in {"open", "finished", "failed"}
  /\ client \in Seq(EventSet)
  /\ said \in Seq(Keys)
  /\ up \in UpSet

-----------------------------------------------------------------------------
(* Text *)

\* The slot of a block: Chat says its text, reasoning and refusal without numbers.
SlotOf(f, b) == IF f = "chat" /\ b.kind # "tool" THEN <<b.kind, 0>> ELSE b.key

\* No two blocks have the same key.
OneKey(bs) == \A i, j \in DOMAIN bs : bs[i].key = bs[j].key => i = j

\* A piece of text was said in that slot
SaidThere(s, slot, text) ==
  \A x \in DOMAIN text :
    text[x] # EmptyInput => Abs(text[x]) \in DOMAIN s /\ s[Abs(text[x])] = slot

\* A text has its pieces in the order in which they were said.
Ascending(text) ==
  \A x, y \in DOMAIN text :
    (x < y /\ text[x] # EmptyInput /\ text[y] # EmptyInput) => Abs(text[x]) < Abs(text[y])

\* Each block holds pieces of its slot alone.
OfSlot(f, s, bs) ==
  \A i \in DOMAIN bs :
    /\ SaidThere(s, SlotOf(f, bs[i]), bs[i].text)
    /\ SaidThere(s, SlotOf(f, bs[i]), bs[i].fallback)
    /\ Ascending(bs[i].text)
    /\ Ascending(bs[i].fallback)

\* Of two blocks of a slot the first is done, and its pieces are older.
Successive(f, bs) ==
  \A i, j \in DOMAIN bs :
    (i < j /\ SlotOf(f, bs[i]) = SlotOf(f, bs[j])) =>
      /\ bs[i].done
      /\ \A x \in DOMAIN bs[i].text, y \in DOMAIN bs[j].text :
           (bs[i].text[x] # EmptyInput /\ bs[j].text[y] # EmptyInput)
             => Abs(bs[i].text[x]) < Abs(bs[j].text[y])

\* Text that holds piece n.
Holds(text, n) == \E x \in DOMAIN text : text[x] # EmptyInput /\ Abs(text[x]) = n
\* A tool whose arguments came with its start, and are used when it ends.
Pending(b) == b.kind = "tool" /\ ~ b.done /\ b.text = <<>>
\* Piece n has a place in the blocks.
Placed(s, bs, n) ==
  \E i \in DOMAIN bs : Holds(bs[i].text, n) \/ (Pending(bs[i]) /\ Holds(bs[i].fallback, n))

\* The first part of a Chat block's key is its kind.
KeyOfKind(f, bs) ==
  f = "chat" => \A i \in DOMAIN bs : bs[i].key = <<bs[i].kind, bs[i].key[2]>>

\* A tool that is done has arguments.
Filled(bs) == \A i \in DOMAIN bs : (bs[i].kind = "tool" /\ bs[i].done) => bs[i].text # <<>>

\* The texts of the blocks are in order.
Texts(f, s, bs) ==
  OneKey(bs) /\ KeyOfKind(f, bs) /\ Filled(bs) /\ OfSlot(f, s, bs) /\ Successive(f, bs)

\* Every piece that was said has a place, but for the last of an answer that
\* failed.
AllPlaced(o, s, bs) ==
  \A n \in DOMAIN s : Placed(s, bs, n) \/ (o = "failed" /\ n = Len(s))

-----------------------------------------------------------------------------
(* What was rendered *)

\* How far a block was sent.
Progress(b) ==
  /\ b.sent <= Len(b.text)
  /\ b.sent > 0 => b.started
  /\ b.started => ~ IsHidden(b)
  /\ b.ended => b.started /\ b.done /\ b.sent = Len(b.text)

\* A block is shown when the blocks before it of its slot were sent, and for an
\* Anthropic client when all before it have ended.
InTurn(f, t, bs) ==
  \A i, j \in DOMAIN bs :
    (j < i /\ bs[i].started) =>
      /\ t = "anthropic" => bs[j].ended
      /\ SlotOf(f, bs[i]) = SlotOf(f, bs[j]) => bs[j].sent = Len(bs[j].text)

\* The blocks were shown in turn.
Sound(f, t, bs) == (\A i \in DOMAIN bs : Progress(bs[i])) /\ InTurn(f, t, bs)

\* The number of block i for a client of protocol t.
Number(t, bs, i) ==
  IF t = "chat" THEN (IF bs[i].kind = "tool" THEN ToolIndex(bs, i) ELSE -1) ELSE i - 1

\* Events about a block.
IsOfBlock(e) == e.type \in {"open", "delta", "close"}

\* Event e tells of block i what it has.
Tells(t, e, bs, i) ==
  /\ e.index = Number(t, bs, i)
  /\ bs[i].started
  /\ e.type = "close" => bs[i].ended
  /\ e.type = "delta" =>
       \A x \in DOMAIN e.text : \E y \in 1 .. bs[i].sent : e.text[x] = bs[i].text[y]

\* The text under number i in the first n of the events c.
StreamedIn(c, n, i) ==
  FlattenSeq([k \in 1 .. n |-> IF c[k].type = "delta" /\ c[k].index = i
                               THEN c[k].text ELSE <<>>])

\* Every event about a block tells of one there is.
Owned(t, c, bs) == \A k \in DOMAIN c : IsOfBlock(c[k]) => \E i \in DOMAIN bs : Tells(t, c[k], bs, i)
\* A numbered block that was shown was opened.
Opened(t, c, bs) ==
  \A i \in DOMAIN bs :
    (bs[i].started /\ Number(t, bs, i) # -1)
      => \E k \in DOMAIN c : c[k].type = "open" /\ c[k].index = Number(t, bs, i)
\* A block that ended was closed.
Closed(t, c, bs) ==
  \A i \in DOMAIN bs :
    (bs[i].ended /\ t # "chat")
      => \E k \in DOMAIN c : c[k].type = "close" /\ c[k].index = Number(t, bs, i)
\* The events hold piece n.
IsHeard(c, n) == \E k \in DOMAIN c : c[k].type = "delta" /\ Holds(c[k].text, n)
\* What was sent was heard.
AllHeard(c, bs) ==
  \A i \in DOMAIN bs : \A y \in 1 .. bs[i].sent :
    bs[i].text[y] # EmptyInput => IsHeard(c, Abs(bs[i].text[y]))
\* What a Responses client got under a number is what was sent of the block.
AllStreamed(t, c, bs) ==
  t = "responses" =>
    \A n \in Nat : StreamedIn(c, Len(c), n) =
                     IF n + 1 \in DOMAIN bs THEN SubSeq(bs[n+1].text, 1, bs[n+1].sent) ELSE <<>>
\* The events tell what was sent of the blocks, and nothing else.
Tied(t, c, bs) ==
  Owned(t, c, bs) /\ Opened(t, c, bs) /\ Closed(t, c, bs) /\ AllHeard(c, bs) /\ AllStreamed(t, c, bs)

-----------------------------------------------------------------------------
(* The client's events *)

\* An event of that type about number i comes before event k.
BeforeIn(c, k, type, i) == \E j \in 1 .. k - 1 : c[j].type = type /\ c[j].index = i

\* An Anthropic client gets one block after the other.
Orderly(t, c) ==
  t = "anthropic" =>
    \A k \in DOMAIN c :
      /\ c[k].type = "open" => \A i \in 0 .. c[k].index - 1 : BeforeIn(c, k, "close", i)
      /\ c[k].type = "finish" =>
           \A j \in 1 .. k - 1 : c[j].type = "open" => BeforeIn(c, k, "close", c[j].index)
\* A numbered block is opened once, before its text, and gets none after its end.
Used(c) ==
  \A k \in DOMAIN c :
    (IsOfBlock(c[k]) /\ c[k].index # -1) =>
      /\ ~ BeforeIn(c, k, "close", c[k].index)
      /\ (c[k].type = "open") <=> ~ BeforeIn(c, k, "open", c[k].index)
\* A Responses client is told at the ends what it got before.
Retold(f, t, c) ==
  t = "responses" =>
    \A k \in DOMAIN c :
      /\ c[k].type = "close" => c[k].text = StreamedIn(c, k - 1, c[k].index)
      /\ (c[k].type = "finish" /\ f # t) =>
           /\ \A j \in 1 .. k - 1 : c[j].type = "close" => c[j].index + 1 \in DOMAIN c[k].output
           /\ \A i \in DOMAIN c[k].output :
                /\ BeforeIn(c, k, "close", i - 1)
                /\ c[k].output[i] = StreamedIn(c, k - 1, i - 1)
\* The client hears the pieces of a slot in order.
InOrder(s, c) ==
  \A j, k \in DOMAIN c : (c[j].type = "delta" /\ c[k].type = "delta") =>
    \A x \in DOMAIN c[j].text, y \in DOMAIN c[k].text :
      (/\ c[j].text[x] # EmptyInput /\ c[k].text[y] # EmptyInput
       /\ s[Abs(c[j].text[x])] = s[Abs(c[k].text[y])]
       /\ j < k \/ (j = k /\ x < y))
        => Abs(c[j].text[x]) < Abs(c[k].text[y])
\* The events are in order.
Proper(f, t, s, c) == Orderly(t, c) /\ Used(c) /\ Retold(f, t, c) /\ InOrder(s, c)

\* The texts, what was sent of them, and the events that tell it.
Core(f, t, s, c, bs) ==
  /\ Texts(f, s, bs) /\ Sound(f, t, bs) /\ Tied(t, c, bs) /\ Proper(f, t, s, c)

-----------------------------------------------------------------------------
(* Where the upstream is *)

\* The key of item o of a Responses answer.
ItemsKey(items, o) == IF items[o].kind = "tool" THEN <<o - 1>> ELSE <<o - 1, items[o].kind>>
\* The last block of an Anthropic answer is not over.
LastOpen(items) == Len(items) > 0 /\ items[Len(items)].open

\* A block of a Chat answer: the texts before the current one are done, a tool is
\* open until the finish reason, and before the first tool nothing is done.
ChatBlock(b, u, ct, ck) ==
  /\ b.key = <<b.kind, b.key[2]>> /\ b.fallback = <<>>
  /\ b.kind = "text" => b.key[2] \in 0 .. ct
  /\ b.kind = "thinking" => b.key[2] \in 0 .. ck
  /\ b.kind = "refusal" => b.key[2] = 0
  /\ u.phase = "talking" =>
       /\ (b.kind = "text" /\ b.key[2] < ct) => b.done
       /\ (b.kind = "thinking" /\ b.key[2] < ck) => b.done
       /\ b.kind = "tool" => ~ b.done /\ b.key[2] \in 0 .. Len(u.items) - 1
       /\ u.items = <<>> => ~ b.done

\* A block of an Anthropic answer: it is open while it is the upstream's last, and
\* only then does it have arguments that came whole.
AnthropicBlock(b, u) ==
  /\ \E n \in 0 .. Len(u.items) - 1 :
       /\ b.key = <<"block", n>>
       /\ b.kind = IF u.items[n+1].kind = "whole" THEN "tool" ELSE u.items[n+1].kind
  /\ (LastOpen(u.items) /\ b.key = <<"block", Len(u.items) - 1>>) =>
       /\ ~ b.done
       /\ u.items[Len(u.items)].kind = "whole" => b.text = <<>>
  /\ (~ b.done /\ b.fallback # <<>>) =>
       /\ LastOpen(u.items) /\ u.items[Len(u.items)].kind = "whole"
       /\ b.key = <<"block", Len(u.items) - 1>>

\* A block of a Responses answer: it is open while its item is.
ResponsesBlock(b, u) ==
  /\ b.fallback = <<>>
  /\ \E o \in DOMAIN u.items :
       /\ b.key = ItemsKey(u.items, o) /\ b.kind = u.items[o].kind
       /\ u.items[o].open => ~ b.done

\* The blocks follow the upstream while the answer is open.
Following(f, u, ct, ck, bs) ==
  /\ \A i \in DOMAIN bs :
       /\ f = "chat" => ChatBlock(bs[i], u, ct, ck)
       /\ f = "anthropic" => AnthropicBlock(bs[i], u)
       /\ f = "responses" => ResponsesBlock(bs[i], u)
  /\ f = "responses" => \A o \in DOMAIN u.items : u.items[o].kind \in Kinds

\* The client's ending is the upstream's.
Ends ==
  /\ \A k \in DOMAIN client : client[k].type = "finish" => k = Len(client) /\ outcome = "finished"
  /\ outcome = "finished" => client # <<>> /\ client[Len(client)].type = "finish"
  /\ outcome = "finished" => up.phase = "ended" \/ (from = "chat" /\ stop # "")
  /\ (outcome = "finished" /\ from # to) =>
       (client[Len(client)].reason = "length") = (stop = "length")

\* Everything due was rendered
Due ==
  /\ (outcome = "open" /\ from # to /\ to # "anthropic") =>
       \A i \in DOMAIN blocks : ~ IsHidden(blocks[i]) => blocks[i].sent = Len(blocks[i].text)
  /\ outcome = "finished" =>
       \A i \in DOMAIN blocks : ~ Pending(blocks[i]) /\ blocks[i].sent = Len(blocks[i].text)

\* The inductive invariant.  With it a step that edits the blocks and renders
\* them can be followed event by event.
Inv ==
  /\ TypeOK
  /\ Core(from, to, said, client, blocks)
  /\ AllPlaced(outcome, said, blocks)
  /\ outcome = "open" => Following(from, up, chatText, chatThinking, blocks)
  /\ Ends
  /\ Due
  /\ from = to => blocks = <<>> /\ said = <<>>

-----------------------------------------------------------------------------
(* The events of a client, one more. *)

\* The events d are the events c and then e.
More(c, e, d) ==
  /\ c \in Seq(EventSet) /\ e \in EventSet /\ d \in Seq(EventSet)
  /\ Len(c) \in Nat /\ Len(d) = Len(c) + 1
  /\ DOMAIN c = 1 .. Len(c) /\ DOMAIN d = 1 .. Len(c) + 1
  /\ \A k \in 1 .. Len(c) : d[k] = c[k]
  /\ d[Len(c) + 1] = e

\* Append adds one event.
LEMMA OneMore ==
  ASSUME NEW c \in Seq(EventSet), NEW e \in EventSet
  PROVE  More(c, e, Append(c, e))
BY AppendProperties, LenProperties DEF More

\* The types of the parts of an event.
LEMMA EventText ==
  ASSUME NEW e \in EventSet
  PROVE  /\ IsOfBlock(e) => e \in BlockEvent
         /\ IsOfBlock(e) => e.text \in Seq(Int) /\ e.index \in Int
         /\ e.type = "delta" => e.text \in Seq(Int)
BY DEF EventSet, BlockEvent, IsOfBlock

\* The text that was streamed depends on the first n events alone.
LEMMA StreamedSame ==
  ASSUME NEW c, NEW d, NEW n \in Nat, \A k \in 1 .. n : d[k] = c[k]
  PROVE  \A i : StreamedIn(d, n, i) = StreamedIn(c, n, i)
<1> SUFFICES ASSUME NEW i PROVE StreamedIn(d, n, i) = StreamedIn(c, n, i)
  OBVIOUS
<1>1. [k \in 1 .. n |-> IF c[k].type = "delta" /\ c[k].index = i THEN c[k].text ELSE <<>>]
       = [k \in 1 .. n |-> IF d[k].type = "delta" /\ d[k].index = i THEN d[k].text ELSE <<>>]
  OBVIOUS
<1> QED
  BY <1>1 DEF StreamedIn

\* What event e adds to the text of number i.
Added(e, i) == IF e.type = "delta" /\ e.index = i THEN e.text ELSE <<>>

\* An event adds its own text to what was streamed under its number.
LEMMA StreamedBy ==
  ASSUME NEW c, NEW e, NEW d, More(c, e, d), NEW i
  PROVE  StreamedIn(d, Len(c) + 1, i) = StreamedIn(c, Len(c), i) \o Added(e, i)
<1> USE DEF More
<1> DEFINE Part(h, k) == IF h[k].type = "delta" /\ h[k].index = i THEN h[k].text ELSE <<>>
           ss == [k \in 1 .. Len(c) |-> Part(c, k)]
           tt == [k \in 1 .. Len(c) + 1 |-> Part(d, k)]
           s == IF e.type = "delta" /\ e.index = i THEN e.text ELSE <<>>
<1>1. \A k \in DOMAIN c : Part(c, k) \in Seq(Int)
  BY EventText, LenProperties
<1>2. ss \in Seq(Seq(Int)) /\ Len(ss) = Len(c)
  <2>1. DOMAIN c = 1 .. Len(c) /\ Len(c) \in Nat
    BY LenProperties
  <2>2. \A k \in 1 .. Len(c) : Part(c, k) \in Seq(Int)
    BY <1>1, <2>1
  <2> HIDE DEF Part
  <2> QED
    BY <2>1, <2>2
<1>3. s \in Seq(Int)
  BY EventText
<1>4. tt = Append(ss, s)
  <2>1. /\ Len(c) \in Nat
        /\ \A k \in 1 .. Len(c) : Part(d, k) = Part(c, k)
        /\ Part(d, Len(c) + 1) = s
    OBVIOUS
  <2> HIDE DEF Part, s
  <2>2. tt \in Seq(Seq(Int)) /\ Len(tt) = Len(c) + 1
    <3>1. \A k \in 1 .. Len(c) + 1 : Part(d, k) \in Seq(Int)
      <4> TAKE k \in 1 .. Len(c) + 1
      <4>1. k \in 1 .. Len(c) \/ k = Len(c) + 1
        BY <2>1
      <4>2. DOMAIN c = 1 .. Len(c)
        BY LenProperties
      <4> QED
        BY <1>1, <1>3, <2>1, <4>1, <4>2
    <3> QED
      BY <2>1, <3>1
  <2>3. /\ Append(ss, s) \in Seq(Seq(Int)) /\ Len(Append(ss, s)) = Len(c) + 1
        /\ \A k \in 1 .. Len(c) : Append(ss, s)[k] = ss[k]
        /\ Append(ss, s)[Len(c) + 1] = s
    <3> HIDE DEF ss
    <3> QED
      BY <1>2, <1>3, AppendProperties
  <2>4. \A k \in 1 .. Len(c) + 1 : tt[k] = Append(ss, s)[k]
    <3> TAKE k \in 1 .. Len(c) + 1
    <3>1. CASE k = Len(c) + 1
      BY <2>1, <2>3, <3>1
    <3>2. CASE k # Len(c) + 1
      <4>1. k \in 1 .. Len(c)
        BY <2>1, <3>2
      <4>2. tt[k] = Part(c, k) /\ ss[k] = Part(c, k)
        BY <2>1, <4>1
      <4> QED
        BY <2>3, <4>1, <4>2
    <3> QED
      BY <3>1, <3>2
  <2> HIDE DEF ss, tt
  <2> QED
    BY <2>2, <2>3, <2>4, SeqEqual
<1> HIDE DEF ss, tt, s
<1>5. FlattenSeq(tt) = FlattenSeq(ss) \o s
  BY <1>2, <1>3, <1>4, FlattenAppend
<1>6. StreamedIn(d, Len(c) + 1, i) = StreamedIn(c, Len(c), i) \o s
  BY <1>5 DEF StreamedIn, ss, tt
<1> QED
  BY <1>6 DEF s, Added

\* An event that is no text of number i adds nothing to it.
LEMMA StreamedMore ==
  ASSUME NEW c, NEW e, NEW d, More(c, e, d), NEW i, ~ (e.type = "delta" /\ e.index = i)
  PROVE  StreamedIn(d, Len(c) + 1, i) = StreamedIn(c, Len(c), i) \o <<>>
<1>1. Added(e, i) = <<>>
  BY DEF Added
<1>2. StreamedIn(d, Len(c) + 1, i) = StreamedIn(c, Len(c), i) \o Added(e, i)
  BY StreamedBy
<1> QED
  BY <1>1, <1>2

\* A text adds itself.
LEMMA StreamedWith ==
  ASSUME NEW c, NEW e, NEW d, More(c, e, d), e.type = "delta"
  PROVE  StreamedIn(d, Len(c) + 1, e.index) = StreamedIn(c, Len(c), e.index) \o e.text
<1> DEFINE i == e.index
<1>1. Added(e, i) = e.text
  BY DEF Added
<1> HIDE DEF i
<1>2. StreamedIn(d, Len(c) + 1, i) = StreamedIn(c, Len(c), i) \o Added(e, i)
  BY StreamedBy
<1> QED
  BY <1>1, <1>2 DEF i

-----------------------------------------------------------------------------
(* The numbers of blocks. *)

\* The number of a block depends on the kinds of the blocks before it.
LEMMA NumberStable ==
  ASSUME NEW t, NEW bs, NEW cs, NEW n \in Nat, \A i \in 1 .. n : cs[i].kind = bs[i].kind
  PROVE  \A i \in 1 .. n : Number(t, cs, i) = Number(t, bs, i)
<1> TAKE i \in 1 .. n
<1>1. {j \in 1 .. i - 1 : cs[j].kind = "tool"} = {j \in 1 .. i - 1 : bs[j].kind = "tool"}
  OBVIOUS
<1> QED
  BY <1>1 DEF Number, ToolIndex

\* A number is at least -1, which stands for none.
LEMMA NumberType ==
  ASSUME NEW t, NEW bs, NEW i \in Nat \ {0}
  PROVE  Number(t, bs, i) \in Int /\ Number(t, bs, i) >= -1
<1>1. Cardinality({j \in 1 .. i - 1 : bs[j].kind = "tool"}) \in Nat
  <2> DEFINE A == {j \in 1 .. i - 1 : bs[j].kind = "tool"}
  <2>1. A \in SUBSET (1 .. i - 1) /\ IsFiniteSet(1 .. i - 1)
    BY FS_Interval
  <2> HIDE DEF A
  <2>2. Cardinality(A) \in Nat
    BY <2>1, FS_Subset, FS_CardinalityType
  <2> QED
    BY <2>2 DEF A
<1> QED
  BY <1>1 DEF Number, ToolIndex

\* Two blocks have the same number only if they have none.
LEMMA NumberApart ==
  ASSUME NEW t, NEW bs, NEW i \in Nat \ {0}, NEW j \in Nat \ {0}, i # j,
         Number(t, bs, i) = Number(t, bs, j)
  PROVE  Number(t, bs, i) = -1
<1>1. ASSUME NEW k \in Nat \ {0}, NEW l \in Nat \ {0}, k < l, bs[k].kind = "tool"
      PROVE  ToolIndex(bs, k) < ToolIndex(bs, l)
  <2> DEFINE A == {n \in 1 .. k - 1 : bs[n].kind = "tool"}
             B == {n \in 1 .. l - 1 : bs[n].kind = "tool"}
  <2>1. IsFiniteSet(A) /\ IsFiniteSet(B) /\ Cardinality(A) \in Nat /\ Cardinality(B) \in Nat
    <3>1. /\ A \in SUBSET (1 .. k - 1) /\ IsFiniteSet(1 .. k - 1)
          /\ B \in SUBSET (1 .. l - 1) /\ IsFiniteSet(1 .. l - 1)
      <4>1. 1 \in Int /\ k - 1 \in Int /\ l - 1 \in Int
        OBVIOUS
      <4> QED
        BY <4>1, FS_Interval
    <3> HIDE DEF A, B
    <3> QED
      BY <3>1, FS_Subset, FS_CardinalityType
  <2>2. A \cup {k} \in SUBSET B /\ k \notin A
    BY <1>1
  <2>3. Cardinality(A \cup {k}) = Cardinality(A) + 1 /\ Cardinality(A \cup {k}) <= Cardinality(B)
    <3> HIDE DEF A, B
    <3> QED
      BY <2>1, <2>2, FS_AddElement, FS_Subset
  <2>4. Cardinality(A) < Cardinality(B)
    <3> HIDE DEF A, B
    <3> QED
      BY <2>1, <2>3
  <2> QED
    BY <2>4 DEF ToolIndex
<1>2. CASE t = "chat"
  <2>1. ~ (bs[i].kind = "tool" /\ bs[j].kind = "tool")
    <3> SUFFICES ASSUME bs[i].kind = "tool", bs[j].kind = "tool" PROVE FALSE
      OBVIOUS
    <3>1. ToolIndex(bs, i) = ToolIndex(bs, j)
      BY <1>2 DEF Number
    <3>2. ToolIndex(bs, i) \in Int /\ ToolIndex(bs, j) \in Int
      BY <1>2, NumberType DEF Number
    <3>3. i < j \/ j < i
      OBVIOUS
    <3>4. ToolIndex(bs, i) < ToolIndex(bs, j) \/ ToolIndex(bs, j) < ToolIndex(bs, i)
      BY <1>1, <3>3
    <3> QED
      BY <3>1, <3>2, <3>4
  <2> QED
    BY <1>2, <2>1 DEF Number
<1>3. CASE t # "chat"
  BY <1>3 DEF Number
<1> QED
  BY <1>2, <1>3

-----------------------------------------------------------------------------
(* Rendering changes what was sent of a block and nothing else. *)

\* Block b became d, and no more than what was sent of it changed.
Alike(b, d) ==
  /\ d.key = b.key /\ d.kind = b.kind /\ d.text = b.text /\ d.header = b.header
  /\ d.fallback = b.fallback /\ d.done = b.done
AllAlike(bs, cs) == DOMAIN cs = DOMAIN bs /\ \A i \in DOMAIN bs : Alike(bs[i], cs[i])

\* What is true of the texts,
LEMMA AlikeTexts ==
  ASSUME NEW f, NEW s, NEW bs, NEW cs, AllAlike(bs, cs), Texts(f, s, bs)
  PROVE  Texts(f, s, cs)
<1>1. \A i \in DOMAIN bs : SlotOf(f, cs[i]) = SlotOf(f, bs[i])
  BY DEF AllAlike, Alike, SlotOf
<1>2. OneKey(cs) /\ KeyOfKind(f, cs)
  BY DEF AllAlike, Alike, Texts, OneKey, KeyOfKind
<1>3. OfSlot(f, s, cs) /\ Filled(cs)
  BY <1>1 DEF AllAlike, Alike, Texts, OfSlot, Filled
<1>4. Successive(f, cs)
  BY <1>1 DEF AllAlike, Alike, Texts, Successive
<1> QED
  BY <1>2, <1>3, <1>4 DEF Texts

\* of the places of the pieces,
LEMMA AlikePlaced ==
  ASSUME NEW o, NEW s, NEW bs, NEW cs, AllAlike(bs, cs), AllPlaced(o, s, bs)
  PROVE  AllPlaced(o, s, cs)
BY DEF AllAlike, Alike, AllPlaced, Placed, Pending

\* of the upstream's protocol
LEMMA AlikeFollowing ==
  ASSUME NEW f, NEW u, NEW ct, NEW ck, NEW bs, NEW cs, AllAlike(bs, cs),
         Following(f, u, ct, ck, bs)
  PROVE  Following(f, u, ct, ck, cs)
<1> SUFFICES ASSUME NEW i \in DOMAIN bs
             PROVE  /\ f = "chat" => ChatBlock(cs[i], u, ct, ck)
                    /\ f = "anthropic" => AnthropicBlock(cs[i], u)
                    /\ f = "responses" => ResponsesBlock(cs[i], u)
  BY DEF AllAlike, Following
<1>1. Alike(bs[i], cs[i])
  BY DEF AllAlike
<1>2. f = "chat" => ChatBlock(cs[i], u, ct, ck)
  BY <1>1 DEF Following, Alike, ChatBlock
<1>3. f = "anthropic" => AnthropicBlock(cs[i], u)
  BY <1>1 DEF Following, Alike, AnthropicBlock
<1>4. f = "responses" => ResponsesBlock(cs[i], u)
  BY <1>1 DEF Following, Alike, ResponsesBlock
<1> QED
  BY <1>2, <1>3, <1>4

\* and of the numbers of the blocks stays true when only what was sent changes.
LEMMA AlikeNumber ==
  ASSUME NEW t, NEW bs \in Seq(Block), NEW cs, AllAlike(bs, cs)
  PROVE  \A i \in DOMAIN bs : Number(t, cs, i) = Number(t, bs, i)
<1>1. Len(bs) \in Nat /\ DOMAIN bs = 1 .. Len(bs)
  BY LenProperties
<1> DEFINE n == Len(bs)
<1>2. n \in Nat /\ \A i \in 1 .. n : cs[i].kind = bs[i].kind
  BY <1>1 DEF AllAlike, Alike
<1>3. DOMAIN bs = 1 .. n
  BY <1>1
<1> HIDE DEF n
<1>4. \A i \in 1 .. n : Number(t, cs, i) = Number(t, bs, i)
  BY <1>2, NumberStable
<1> QED
  BY <1>3, <1>4

\* Block i of bs was replaced by one that is alike.
Staged(bs, i, cs) ==
  /\ bs \in Seq(Block) /\ cs \in Seq(Block) /\ i \in DOMAIN bs
  /\ AllAlike(bs, cs) /\ \A j \in DOMAIN bs : j # i => cs[j] = bs[j]

\* What a stage of the rendering of block i leaves of all blocks.
LEMMA StagedFacts ==
  ASSUME NEW bs, NEW i, NEW cs, Staged(bs, i, cs)
  PROVE  /\ DOMAIN cs = DOMAIN bs /\ DOMAIN bs = 1 .. Len(bs) /\ Len(bs) \in Nat
         /\ \A j \in DOMAIN bs :
              /\ cs[j].text = bs[j].text /\ cs[j].done = bs[j].done
              /\ IsHidden(cs[j]) <=> IsHidden(bs[j])
              /\ bs[j].text \in Seq(Int) /\ bs[j].sent \in Nat /\ Len(bs[j].text) \in Nat
              /\ \A f : SlotOf(f, cs[j]) = SlotOf(f, bs[j])
              /\ \A t : Number(t, cs, j) = Number(t, bs, j)
              /\ j # i => /\ cs[j].started = bs[j].started /\ cs[j].ended = bs[j].ended
                          /\ cs[j].sent = bs[j].sent
<1>1. DOMAIN cs = DOMAIN bs /\ DOMAIN bs = 1 .. Len(bs) /\ Len(bs) \in Nat
  BY LenProperties DEF Staged, AllAlike
<1>2. \A j \in DOMAIN bs : cs[j].text = bs[j].text /\ cs[j].done = bs[j].done
  BY DEF Staged, AllAlike, Alike
<1>3. \A j \in DOMAIN bs : IsHidden(cs[j]) <=> IsHidden(bs[j])
  BY DEF Staged, AllAlike, Alike, IsHidden, IsNamed
<1>4. \A j \in DOMAIN bs : \A f : SlotOf(f, cs[j]) = SlotOf(f, bs[j])
  BY DEF Staged, AllAlike, Alike, SlotOf
<1>5. \A j \in DOMAIN bs : \A t : Number(t, cs, j) = Number(t, bs, j)
  BY AlikeNumber DEF Staged
<1>6. \A j \in DOMAIN bs : j # i => /\ cs[j].started = bs[j].started
                                    /\ cs[j].ended = bs[j].ended /\ cs[j].sent = bs[j].sent
  BY DEF Staged
<1>7. \A j \in DOMAIN bs : bs[j].text \in Seq(Int) /\ bs[j].sent \in Nat /\ Len(bs[j].text) \in Nat
  <2> TAKE j \in DOMAIN bs
  <2>1. bs[j] \in Block
    BY LenProperties DEF Staged
  <2>2. bs[j].text \in Seq(Int) /\ bs[j].sent \in Nat
    BY <2>1 DEF Block
  <2> QED
    BY <2>2, LenProperties
<1> QED
  BY <1>1, <1>2, <1>3, <1>4, <1>5, <1>6, <1>7

\* The three things rendering does to a block: it shows it, sends its text and
\* ends it.
ShowIt(b) == [b EXCEPT !.started = TRUE]
SendIt(b) == [b EXCEPT !.sent = Len(b.text)]
EndIt(b) == [b EXCEPT !.ended = b.done]

\* Block i was shown, its text sent, or it was ended.
Shows(bs, i, cs) ==
  /\ Staged(bs, i, cs)
  /\ cs[i].started /\ cs[i].sent = bs[i].sent /\ cs[i].ended = bs[i].ended
Sends(bs, i, cs) ==
  /\ Staged(bs, i, cs)
  /\ cs[i].started = bs[i].started /\ cs[i].sent = Len(bs[i].text) /\ cs[i].ended = bs[i].ended
EndsBlock(bs, i, cs) ==
  /\ Staged(bs, i, cs)
  /\ cs[i].started = bs[i].started /\ cs[i].sent = bs[i].sent /\ cs[i].ended = bs[i].done

\* The three stages change what they should.
LEMMA Stages ==
  ASSUME NEW bs \in Seq(Block), NEW i \in DOMAIN bs
  PROVE  /\ Shows(bs, i, [bs EXCEPT ![i] = ShowIt(bs[i])])
         /\ Sends(bs, i, [bs EXCEPT ![i] = SendIt(bs[i])])
         /\ EndsBlock(bs, i, [bs EXCEPT ![i] = EndIt(bs[i])])
<1>1. bs[i] \in Block /\ DOMAIN bs = 1 .. Len(bs)
  BY LenProperties
<1>2. Len(bs[i].text) \in Nat
  BY <1>1, LenProperties DEF Block
<1>3. ASSUME NEW b \in Block, Alike(bs[i], b)
      PROVE  Staged(bs, i, [bs EXCEPT ![i] = b]) /\ [bs EXCEPT ![i] = b][i] = b
  BY <1>1, <1>3, ExceptSeq DEF Staged, AllAlike, Alike
<1>4. /\ ShowIt(bs[i]) \in Block /\ Alike(bs[i], ShowIt(bs[i])) /\ ShowIt(bs[i]).started
      /\ ShowIt(bs[i]).sent = bs[i].sent /\ ShowIt(bs[i]).ended = bs[i].ended
  BY <1>1 DEF Block, ShowIt, Alike
<1>5. /\ SendIt(bs[i]) \in Block /\ Alike(bs[i], SendIt(bs[i]))
      /\ SendIt(bs[i]).started = bs[i].started
      /\ SendIt(bs[i]).sent = Len(bs[i].text) /\ SendIt(bs[i]).ended = bs[i].ended
  BY <1>1, <1>2 DEF Block, SendIt, Alike
<1>6. /\ EndIt(bs[i]) \in Block /\ Alike(bs[i], EndIt(bs[i]))
      /\ EndIt(bs[i]).started = bs[i].started
      /\ EndIt(bs[i]).sent = bs[i].sent /\ EndIt(bs[i]).ended = bs[i].done
  BY <1>1 DEF Block, EndIt, Alike
<1>7. Shows(bs, i, [bs EXCEPT ![i] = ShowIt(bs[i])])
  BY <1>3, <1>4 DEF Shows
<1>8. Sends(bs, i, [bs EXCEPT ![i] = SendIt(bs[i])])
  BY <1>3, <1>5 DEF Sends
<1>9. EndsBlock(bs, i, [bs EXCEPT ![i] = EndIt(bs[i])])
  BY <1>3, <1>6 DEF EndsBlock
<1> QED
  BY <1>7, <1>8, <1>9

\* The events so far stay heard, and stay before the same events.
LEMMA Kept ==
  ASSUME NEW c, NEW e, NEW d, More(c, e, d)
  PROVE  /\ \A n : IsHeard(c, n) => IsHeard(d, n)
         /\ \A k \in 1 .. Len(c) + 1 :
              \A type, i : BeforeIn(d, k, type, i) <=> BeforeIn(c, k, type, i)
         /\ \A k \in 1 .. Len(c) : \A i : StreamedIn(d, k, i) = StreamedIn(c, k, i)
         /\ \A i : StreamedIn(d, 0, i) = StreamedIn(c, 0, i)
<1>1. \A n : IsHeard(c, n) => IsHeard(d, n)
  BY DEF IsHeard, More
<1>2. \A k \in 1 .. Len(c) + 1 :
        \A type, i : BeforeIn(d, k, type, i) <=> BeforeIn(c, k, type, i)
  BY DEF BeforeIn, More
<1>3. \A n \in Nat : (\A k \in 1 .. n : d[k] = c[k])
                       => \A i : StreamedIn(d, n, i) = StreamedIn(c, n, i)
  BY StreamedSame
<1>4. \A k \in 1 .. Len(c) : \A i : StreamedIn(d, k, i) = StreamedIn(c, k, i)
  <2> TAKE k \in 1 .. Len(c)
  <2>1. k \in Nat /\ \A j \in 1 .. k : d[j] = c[j]
    BY DEF More
  <2> QED
    BY <1>3, <2>1
<1>5. \A i : StreamedIn(d, 0, i) = StreamedIn(c, 0, i)
  BY <1>3
<1> QED
  BY <1>1, <1>2, <1>4, <1>5

\* A block shown for the first time had no event.
LEMMA NoneBefore ==
  ASSUME NEW t, NEW c, NEW bs \in Seq(Block), NEW i \in DOMAIN bs,
         Owned(t, c, bs), ~ bs[i].started, Number(t, bs, i) # -1,
         NEW k \in DOMAIN c, IsOfBlock(c[k])
  PROVE  c[k].index # Number(t, bs, i)
<1>1. PICK j \in DOMAIN bs : Tells(t, c[k], bs, j)
  BY DEF Owned
<1>2. j # i /\ c[k].index = Number(t, bs, j)
  BY <1>1 DEF Tells
<1>3. i \in Nat \ {0} /\ j \in Nat \ {0}
  BY LenProperties
<1> QED
  BY <1>2, <1>3, NumberApart, SMTT(30)

\* A block that ended got its last event.
LEMMA NoneAfter ==
  ASSUME NEW t, NEW c, NEW bs \in Seq(Block), NEW i \in DOMAIN bs,
         Owned(t, c, bs), ~ bs[i].ended, Number(t, bs, i) # -1,
         NEW k \in DOMAIN c, c[k].type = "close"
  PROVE  c[k].index # Number(t, bs, i)
<1>1. PICK j \in DOMAIN bs : Tells(t, c[k], bs, j)
  BY DEF Owned, IsOfBlock
<1>2. j # i /\ c[k].index = Number(t, bs, j)
  BY <1>1 DEF Tells
<1>3. i \in Nat \ {0} /\ j \in Nat \ {0}
  BY LenProperties
<1> QED
  BY <1>2, <1>3, NumberApart, SMTT(30)

\* What holds of a block before it is shown.
InTurnNow(f, t, bs, i) ==
  \A j \in DOMAIN bs : j < i =>
    /\ t = "anthropic" => bs[j].ended
    /\ SlotOf(f, bs[i]) = SlotOf(f, bs[j]) => bs[j].sent = Len(bs[j].text)

\* A block is shown when its turn has come.
LEMMA ShowSound ==
  ASSUME NEW f, NEW t, NEW bs, NEW i, NEW cs, Shows(bs, i, cs), Sound(f, t, bs),
         ~ IsHidden(bs[i]), InTurnNow(f, t, bs, i)
  PROVE  Sound(f, t, cs)
<1>1. \A j \in DOMAIN cs : Progress(cs[j])
  <2> SUFFICES ASSUME NEW j \in DOMAIN bs PROVE Progress(cs[j])
    BY StagedFacts DEF Shows
  <2>1. Progress(bs[j])
    BY DEF Sound
  <2>2. /\ cs[j].text = bs[j].text /\ cs[j].done = bs[j].done
        /\ IsHidden(cs[j]) <=> IsHidden(bs[j])
        /\ j # i => cs[j].started = bs[j].started
        /\ cs[j].ended = bs[j].ended /\ cs[j].sent = bs[j].sent
    BY StagedFacts DEF Shows
  <2>3. cs[i].started /\ ~ IsHidden(bs[i])
    BY DEF Shows
  <2> QED
    BY <2>1, <2>2, <2>3 DEF Progress
<1>2. InTurn(f, t, cs)
  <2> SUFFICES ASSUME NEW k \in DOMAIN bs, NEW j \in DOMAIN bs, j < k, cs[k].started
               PROVE  /\ t = "anthropic" => cs[j].ended
                      /\ SlotOf(f, cs[k]) = SlotOf(f, cs[j]) => cs[j].sent = Len(cs[j].text)
    BY StagedFacts DEF InTurn, Shows
  <2>1. /\ \A l \in {j, k} : SlotOf(f, cs[l]) = SlotOf(f, bs[l])
        /\ cs[j].text = bs[j].text /\ cs[j].ended = bs[j].ended /\ cs[j].sent = bs[j].sent
    BY StagedFacts DEF Shows
  <2>2. CASE k = i
    BY <2>1, <2>2 DEF InTurnNow
  <2>3. CASE k # i
    <3>1. bs[k].started
      BY <2>3, StagedFacts DEF Shows
    <3> QED
      BY <2>1, <3>1 DEF Sound, InTurn
  <2> QED
    BY <2>2, <2>3
<1> QED
  BY <1>1, <1>2 DEF Sound

\* What an added event that is not text leaves of the tie between the events and
\* the blocks.
LEMMA ShowTied ==
  ASSUME NEW t, NEW c, NEW e, NEW d, More(c, e, d), NEW bs, NEW i, NEW cs,
         Shows(bs, i, cs), Tied(t, c, bs), e.type = "open", e.index = Number(t, bs, i)
  PROVE  Tied(t, d, cs)
<1>1. /\ DOMAIN cs = DOMAIN bs /\ i \in DOMAIN bs
      /\ \A j \in DOMAIN bs : /\ cs[j].text = bs[j].text /\ cs[j].ended = bs[j].ended
                              /\ cs[j].sent = bs[j].sent
                              /\ cs[j].started <=> (j = i \/ bs[j].started)
                              /\ Number(t, cs, j) = Number(t, bs, j)
  BY StagedFacts DEF Shows, Staged
<1>2. /\ DOMAIN c = 1 .. Len(c) /\ DOMAIN d = 1 .. Len(c) + 1
      /\ Len(c) \in Nat /\ Len(d) = Len(c) + 1
      /\ \A k \in DOMAIN c : d[k] = c[k]
      /\ d[Len(c) + 1] = e /\ Len(c) + 1 \in DOMAIN d
      /\ DOMAIN c \subseteq DOMAIN d
      /\ \A k \in DOMAIN d : k \in DOMAIN c \/ k = Len(c) + 1
  BY DEF More
<1>3. Owned(t, d, cs)
  <2> SUFFICES ASSUME NEW k \in DOMAIN d, IsOfBlock(d[k])
               PROVE  \E j \in DOMAIN cs : Tells(t, d[k], cs, j)
    BY DEF Owned
  <2>1. CASE k = Len(c) + 1
    <3>1. Tells(t, e, cs, i)
      BY <1>1 DEF Tells
    <3> QED
      BY <1>1, <1>2, <2>1, <3>1
  <2>2. CASE k \in DOMAIN c
    <3>1. PICK j \in DOMAIN bs : Tells(t, c[k], bs, j)
      BY <1>2, <2>2 DEF Tied, Owned
    <3>2. Tells(t, c[k], cs, j)
      BY <1>1, <3>1 DEF Tells
    <3> QED
      BY <1>1, <1>2, <2>2, <3>2
  <2> QED
    BY <1>2, <2>1, <2>2
<1>4. Opened(t, d, cs)
  <2> SUFFICES ASSUME NEW j \in DOMAIN bs, cs[j].started, Number(t, bs, j) # -1
               PROVE  \E k \in DOMAIN d : d[k].type = "open" /\ d[k].index = Number(t, bs, j)
    BY <1>1 DEF Opened
  <2>1. CASE j = i
    BY <1>2, <2>1
  <2>2. CASE j # i
    BY <1>1, <1>2, <2>2 DEF Tied, Opened
  <2> QED
    BY <2>1, <2>2
<1>5. Closed(t, d, cs)
  BY <1>1, <1>2 DEF Tied, Closed
<1>6. AllHeard(d, cs)
  BY <1>1, Kept DEF Tied, AllHeard
<1>7. AllStreamed(t, d, cs)
  <2> SUFFICES ASSUME t = "responses", NEW n \in Nat
               PROVE  StreamedIn(d, Len(d), n) =
                        IF n + 1 \in DOMAIN bs THEN SubSeq(bs[n+1].text, 1, bs[n+1].sent) ELSE <<>>
    BY <1>1 DEF AllStreamed
  <2>1. StreamedIn(d, Len(c) + 1, n) = StreamedIn(c, Len(c), n) \o <<>>
    BY StreamedMore
  <2>2. StreamedIn(c, Len(c), n) =
          IF n + 1 \in DOMAIN bs THEN SubSeq(bs[n+1].text, 1, bs[n+1].sent) ELSE <<>>
    BY DEF Tied, AllStreamed
  <2> QED
    BY <1>2, <2>1, <2>2
<1> QED
  BY <1>3, <1>4, <1>5, <1>6, <1>7 DEF Tied

\* A text of a Chat answer is shown without an event of its own.
LEMMA ShowTiedQuietly ==
  ASSUME NEW t, NEW c, NEW bs, NEW i, NEW cs, Shows(bs, i, cs), Tied(t, c, bs),
         Number(t, bs, i) = -1
  PROVE  Tied(t, c, cs)
<1>1. /\ DOMAIN cs = DOMAIN bs /\ i \in DOMAIN bs
      /\ \A j \in DOMAIN bs : /\ cs[j].text = bs[j].text /\ cs[j].ended = bs[j].ended
                              /\ cs[j].sent = bs[j].sent
                              /\ cs[j].started <=> (j = i \/ bs[j].started)
                              /\ Number(t, cs, j) = Number(t, bs, j)
  BY StagedFacts DEF Shows, Staged
<1>2. Owned(t, c, cs)
  BY <1>1 DEF Tied, Owned, Tells
<1>3. Opened(t, c, cs)
  BY <1>1 DEF Tied, Opened
<1>4. Closed(t, c, cs)
  BY <1>1 DEF Tied, Closed
<1>5. AllHeard(c, cs)
  BY <1>1 DEF Tied, AllHeard
<1>6. AllStreamed(t, c, cs)
  BY <1>1 DEF Tied, AllStreamed
<1> QED
  BY <1>2, <1>3, <1>4, <1>5, <1>6 DEF Tied

\* Event e may follow the events c.
Follows(f, t, c, e) ==
  LET k == Len(c) + 1 IN
  /\ t = "anthropic" =>
       /\ e.type = "open" => \A i \in 0 .. e.index - 1 : BeforeIn(c, k, "close", i)
       /\ e.type = "finish" =>
            \A j \in 1 .. Len(c) : c[j].type = "open" => BeforeIn(c, k, "close", c[j].index)
  /\ (IsOfBlock(e) /\ e.index # -1) =>
       /\ ~ BeforeIn(c, k, "close", e.index)
       /\ (e.type = "open") <=> ~ BeforeIn(c, k, "open", e.index)
  /\ t = "responses" =>
       /\ e.type = "close" => e.text = StreamedIn(c, Len(c), e.index)
       /\ (e.type = "finish" /\ f # t) =>
            /\ \A j \in 1 .. Len(c) : c[j].type = "close" => c[j].index + 1 \in DOMAIN e.output
            /\ \A i \in DOMAIN e.output :
                 /\ BeforeIn(c, k, "close", i - 1)
                 /\ e.output[i] = StreamedIn(c, Len(c), i - 1)

\* Events that were in order stay in order with one that may follow them.
LEMMA ProperSoFar ==
  ASSUME NEW f, NEW t, NEW s, NEW c, NEW e, NEW d, More(c, e, d),
         Proper(f, t, s, c), Follows(f, t, c, e), InOrder(s, d)
  PROVE  Proper(f, t, s, d)
<1>1. /\ DOMAIN c = 1 .. Len(c) /\ DOMAIN d = 1 .. Len(c) + 1 /\ Len(c) \in Nat
      /\ \A k \in DOMAIN c : d[k] = c[k]
      /\ d[Len(c) + 1] = e
      /\ \A k \in DOMAIN d : k \in DOMAIN c \/ k = Len(c) + 1
      /\ \A k \in DOMAIN d : \A j \in 1 .. k - 1 : d[j] = c[j]
  BY DEF More
<1>2. \A k \in DOMAIN d : \A type, i : BeforeIn(d, k, type, i) <=> BeforeIn(c, k, type, i)
  BY <1>1, Kept
<1>3. \A k \in DOMAIN d : \A i : StreamedIn(d, k - 1, i) = StreamedIn(c, k - 1, i)
  <2> TAKE k \in DOMAIN d
  <2>1. CASE k = 1
    <3>1. k - 1 = 0
      BY <2>1
    <3> QED
      BY <3>1, Kept
  <2>2. CASE k # 1
    <3>1. k - 1 \in 1 .. Len(c)
      BY <1>1, <2>2
    <3> QED
      BY <3>1, Kept
  <2> QED
    BY <2>1, <2>2
<1>4. Orderly(t, d)
  <2> SUFFICES ASSUME t = "anthropic", NEW k \in DOMAIN d
      PROVE  /\ d[k].type = "open" => \A i \in 0 .. d[k].index - 1 : BeforeIn(c, k, "close", i)
             /\ d[k].type = "finish" =>
                  \A j \in 1 .. k - 1 : c[j].type = "open" => BeforeIn(c, k, "close", c[j].index)
    BY <1>1, <1>2 DEF Orderly
  <2>1. CASE k \in DOMAIN c
    BY <1>1, <2>1 DEF Proper, Orderly
  <2>2. CASE k = Len(c) + 1
    BY <1>1, <2>2 DEF Follows
  <2> QED
    BY <1>1, <2>1, <2>2
<1>5. Used(d)
  <2> SUFFICES ASSUME NEW k \in DOMAIN d, IsOfBlock(d[k]), d[k].index # -1
      PROVE  /\ ~ BeforeIn(c, k, "close", d[k].index)
             /\ (d[k].type = "open") <=> ~ BeforeIn(c, k, "open", d[k].index)
    BY <1>1, <1>2 DEF Used
  <2>1. CASE k \in DOMAIN c
    BY <1>1, <2>1 DEF Proper, Used
  <2>2. CASE k = Len(c) + 1
    BY <1>1, <2>2 DEF Follows
  <2> QED
    BY <1>1, <2>1, <2>2
<1>6. Retold(f, t, d)
  <2> SUFFICES ASSUME t = "responses", NEW k \in DOMAIN d
      PROVE  /\ d[k].type = "close" => d[k].text = StreamedIn(c, k - 1, d[k].index)
             /\ (d[k].type = "finish" /\ f # t) =>
                  /\ \A j \in 1 .. k - 1 :
                       c[j].type = "close" => c[j].index + 1 \in DOMAIN d[k].output
                  /\ \A i \in DOMAIN d[k].output :
                       /\ BeforeIn(c, k, "close", i - 1)
                       /\ d[k].output[i] = StreamedIn(c, k - 1, i - 1)
    BY <1>1, <1>2, <1>3 DEF Retold
  <2>1. CASE k \in DOMAIN c
    BY <1>1, <2>1 DEF Proper, Retold
  <2>2. CASE k = Len(c) + 1
    <3>1. k - 1 = Len(c) /\ d[k] = e
      BY <1>1, <2>2
    <3> QED
      BY <1>1, <2>2, <3>1 DEF Follows
  <2> QED
    BY <1>1, <2>1, <2>2
<1> QED
  BY <1>4, <1>5, <1>6 DEF Proper

\* An event that has no text leaves the order of the text as it was.
LEMMA InOrderKept ==
  ASSUME NEW s, NEW c, NEW e, NEW d, More(c, e, d), e.type # "delta", InOrder(s, c)
  PROVE  InOrder(s, d)
<1>1. \A k \in DOMAIN d : d[k].type = "delta" => k \in DOMAIN c /\ d[k] = c[k]
  BY DEF More
<1> QED
  BY <1>1 DEF InOrder

\* Before the next event is anywhere.
LEMMA BeforeNext ==
  ASSUME NEW c, Len(c) \in Nat, DOMAIN c = 1 .. Len(c)
  PROVE  \A type, i : BeforeIn(c, Len(c) + 1, type, i)
                        <=> \E j \in DOMAIN c : c[j].type = type /\ c[j].index = i
BY DEF BeforeIn

\* The event that shows a block may follow when the block's turn has come.
LEMMA ShowProper ==
  ASSUME NEW f, NEW t, NEW s, NEW c, NEW e, NEW d, More(c, e, d),
         NEW bs \in Seq(Block), NEW i \in DOMAIN bs,
         Tied(t, c, bs), Proper(f, t, s, c), InTurnNow(f, t, bs, i), ~ bs[i].started,
         e.type = "open", e.index = Number(t, bs, i), Number(t, bs, i) # -1
  PROVE  Proper(f, t, s, d)
<1>1. \A type, n : BeforeIn(c, Len(c) + 1, type, n)
                     <=> \E j \in DOMAIN c : c[j].type = type /\ c[j].index = n
  BY BeforeNext DEF More
<1>2. \A k \in DOMAIN c : IsOfBlock(c[k]) => c[k].index # Number(t, bs, i)
  BY NoneBefore DEF Tied
<1>3. \A type \in {"open", "close"} : ~ BeforeIn(c, Len(c) + 1, type, e.index)
  BY <1>1, <1>2 DEF IsOfBlock
<1>4. ASSUME t = "anthropic", NEW n \in 0 .. e.index - 1
      PROVE  BeforeIn(c, Len(c) + 1, "close", n)
  <2>1. i \in 1 .. Len(bs) /\ Len(bs) \in Nat /\ DOMAIN bs = 1 .. Len(bs)
    BY LenProperties
  <2>2. e.index = i - 1
    BY <1>4 DEF Number
  <2>3. n + 1 \in DOMAIN bs /\ n + 1 < i /\ (n + 1) - 1 = n
    BY <2>1, <2>2
  <2>4. bs[n + 1].ended
    BY <1>4, <2>3 DEF InTurnNow
  <2>5. Number(t, bs, n + 1) = n
    BY <1>4, <2>3 DEF Number
  <2>6. \E k \in DOMAIN c : c[k].type = "close" /\ c[k].index = n
    BY <1>4, <2>3, <2>4, <2>5 DEF Tied, Closed
  <2> QED
    BY <1>1, <2>6
<1>5. Follows(f, t, c, e)
  BY <1>3, <1>4 DEF Follows
<1>6. InOrder(s, d)
  BY InOrderKept DEF Proper
<1> QED
  BY <1>5, <1>6, ProperSoFar

-----------------------------------------------------------------------------
(* One event of a block: its text is sent. *)

\* Numbers at most l, without those at most l - 1.
LEMMA AtMost == \A n, l \in Nat : (n <= l /\ ~ (n + 1 <= l)) => n = l
OBVIOUS

\* A text is its first n pieces and the rest.
LEMMA RestOfText ==
  ASSUME NEW text \in Seq(Int), NEW n \in Nat, n <= Len(text)
  PROVE  /\ SubSeq(text, n + 1, Len(text)) \in Seq(Int)
         /\ DOMAIN SubSeq(text, n + 1, Len(text)) = 1 .. Len(text) - n
         /\ \A x \in 1 .. Len(text) - n : SubSeq(text, n + 1, Len(text))[x] = text[n + x]
         /\ SubSeq(text, 1, n) \o SubSeq(text, n + 1, Len(text)) = SubSeq(text, 1, Len(text))
<1> DEFINE b == SubSeq(text, n + 1, Len(text))
<1>1. Len(text) \in Nat /\ DOMAIN text = 1 .. Len(text) /\ \A x \in 1 .. Len(text) : text[x] \in Int
  BY LenProperties
<1>2. n + 1 \in Int /\ Len(text) \in Int /\ \A x \in n + 1 .. Len(text) : text[x] \in Int
  BY <1>1
<1>3. /\ b \in Seq(Int)
      /\ Len(b) = IF n + 1 <= Len(text) THEN (Len(text) - (n + 1)) + 1 ELSE 0
      /\ \A x \in 1 .. (Len(text) - (n + 1)) + 1 : b[x] = text[((n + 1) + x) - 1]
  <2> HIDE DEF b
  <2> QED
    BY <1>2, SubSeqProperties DEF b
<1>4. DOMAIN b = 1 .. Len(b)
  <2> HIDE DEF b
  <2> QED
    BY <1>3, LenProperties
<1>5. Len(b) = Len(text) - n
  <2> HIDE DEF b
  <2>1. CASE n + 1 <= Len(text)
    <3>1. Len(b) = (Len(text) - (n + 1)) + 1
      BY <1>3, <2>1
    <3> QED
      BY <1>1, <3>1
  <2>2. CASE ~ (n + 1 <= Len(text))
    <3>1. Len(b) = 0
      BY <1>3, <2>2
    <3>2. n = Len(text)
      BY <1>1, <2>2, AtMost
    <3> QED
      BY <3>1, <3>2
  <2> QED
    BY <2>1, <2>2
<1>6. \A x \in 1 .. Len(text) - n : b[x] = text[n + x]
  <2> HIDE DEF b
  <2> TAKE x \in 1 .. Len(text) - n
  <2>1. x \in 1 .. (Len(text) - (n + 1)) + 1 /\ ((n + 1) + x) - 1 = n + x
    BY <1>1
  <2> QED
    BY <1>3, <2>1
<1>7. SubSeq(text, 1, n) \o b = SubSeq(text, 1, Len(text))
  <2>1. 1 \in 1 .. Len(text) + 1 /\ n \in 1 - 1 .. Len(text) /\ Len(text) \in n .. Len(text)
    BY <1>1
  <2> QED
    BY <2>1, ConcatAdjacentSubSeq
<1> QED
  BY <1>3, <1>4, <1>5, <1>6, <1>7

\* What sending a text leaves and changes.
LEMMA SendsFacts ==
  ASSUME NEW bs, NEW i, NEW cs, Sends(bs, i, cs)
  PROVE  /\ DOMAIN cs = DOMAIN bs /\ i \in DOMAIN bs
         /\ \A j \in DOMAIN bs :
              /\ cs[j].text = bs[j].text /\ cs[j].done = bs[j].done
              /\ cs[j].started = bs[j].started /\ cs[j].ended = bs[j].ended
              /\ cs[j].sent = IF j = i THEN Len(bs[j].text) ELSE bs[j].sent
              /\ IsHidden(cs[j]) <=> IsHidden(bs[j])
              /\ bs[j].text \in Seq(Int) /\ bs[j].sent \in Nat /\ Len(bs[j].text) \in Nat
         /\ \A j \in DOMAIN bs : \A f : SlotOf(f, cs[j]) = SlotOf(f, bs[j])
         /\ \A j \in DOMAIN bs : \A t : Number(t, cs, j) = Number(t, bs, j)
<1>1. Staged(bs, i, cs) /\ DOMAIN cs = DOMAIN bs /\ i \in DOMAIN bs
  BY StagedFacts DEF Sends, Staged
<1>2. ASSUME NEW j \in DOMAIN bs
      PROVE  /\ cs[j].text = bs[j].text /\ cs[j].done = bs[j].done
             /\ cs[j].started = bs[j].started /\ cs[j].ended = bs[j].ended
             /\ cs[j].sent = IF j = i THEN Len(bs[j].text) ELSE bs[j].sent
             /\ IsHidden(cs[j]) <=> IsHidden(bs[j])
             /\ bs[j].text \in Seq(Int) /\ bs[j].sent \in Nat /\ Len(bs[j].text) \in Nat
  <2>1. CASE j = i
    BY <1>1, <2>1, StagedFacts DEF Sends
  <2>2. CASE j # i
    BY <1>1, <2>2, StagedFacts DEF Sends
  <2> QED
    BY <2>1, <2>2
<1>3. \A j \in DOMAIN bs : \A f : SlotOf(f, cs[j]) = SlotOf(f, bs[j])
  BY <1>1, StagedFacts
<1>4. \A j \in DOMAIN bs : \A t : Number(t, cs, j) = Number(t, bs, j)
  BY <1>1, StagedFacts
<1> QED
  BY <1>1, <1>2, <1>3, <1>4

\* Sending the rest of a block that was shown keeps the order of the blocks.
LEMMA SendSound ==
  ASSUME NEW f, NEW t, NEW bs, NEW i, NEW cs, Sends(bs, i, cs), Sound(f, t, bs), bs[i].started
  PROVE  Sound(f, t, cs)
<1>1. \A j \in DOMAIN cs : Progress(cs[j])
  <2> SUFFICES ASSUME NEW j \in DOMAIN bs PROVE Progress(cs[j])
    BY SendsFacts
  <2>1. Progress(bs[j])
    BY DEF Sound
  <2>2. CASE j = i
    BY <2>1, <2>2, SendsFacts DEF Progress
  <2>3. CASE j # i
    BY <2>1, <2>3, SendsFacts DEF Progress
  <2> QED
    BY <2>2, <2>3
<1>2. InTurn(f, t, cs)
  BY SendsFacts DEF Sound, InTurn
<1> QED
  BY <1>1, <1>2 DEF Sound

\* Event e has the text of block i that was not sent yet.
IsRest(e, bs, i) == e.text = SubSeq(bs[i].text, bs[i].sent + 1, Len(bs[i].text))

\* The text of event e is the part of block i that was not sent.
Continues(e, bs, i) ==
  /\ DOMAIN e.text = 1 .. Len(bs[i].text) - bs[i].sent
  /\ \A x \in DOMAIN e.text : /\ bs[i].sent + x \in 1 .. Len(bs[i].text)
                              /\ e.text[x] = bs[i].text[bs[i].sent + x]
  /\ \A y \in 1 .. Len(bs[i].text) : y > bs[i].sent =>
       y - bs[i].sent \in DOMAIN e.text /\ e.text[y - bs[i].sent] = bs[i].text[y]
  /\ SubSeq(bs[i].text, 1, bs[i].sent) \o e.text = SubSeq(bs[i].text, 1, Len(bs[i].text))

\* The rest of a text goes on where it was left.
LEMMA RestFacts ==
  ASSUME NEW bs, NEW i, bs[i].text \in Seq(Int), bs[i].sent \in Nat,
         bs[i].sent <= Len(bs[i].text), NEW e, IsRest(e, bs, i)
  PROVE  Continues(e, bs, i)
<1> DEFINE text == bs[i].text
           n == bs[i].sent
           r == SubSeq(text, n + 1, Len(text))
<1>1. text \in Seq(Int) /\ n \in Nat /\ n <= Len(text) /\ Len(text) \in Nat
  BY LenProperties
<1>2. e.text = r
  BY DEF IsRest
<1> HIDE DEF text, n
<1>3. /\ DOMAIN r = 1 .. Len(text) - n
      /\ \A x \in 1 .. Len(text) - n : r[x] = text[n + x]
      /\ SubSeq(text, 1, n) \o r = SubSeq(text, 1, Len(text))
  BY <1>1, RestOfText
<1> HIDE DEF r
<1>4. \A x \in 1 .. Len(text) - n : n + x \in 1 .. Len(text)
  BY <1>1
<1>5. ASSUME NEW y \in 1 .. Len(text), y > n
      PROVE  y - n \in DOMAIN r /\ r[y - n] = text[y]
  <2>1. y - n \in 1 .. Len(text) - n /\ n + (y - n) = y
    BY <1>1, <1>5
  <2> QED
    BY <1>3, <2>1
<1> QED
  BY <1>2, <1>3, <1>4, <1>5 DEF text, n, Continues

\* The events and the blocks stay tied when the rest of a text is sent.
LEMMA SendTied ==
  ASSUME NEW t, NEW c, NEW e, NEW d, More(c, e, d), NEW bs, NEW i, NEW cs,
         Sends(bs, i, cs), Tied(t, c, bs), bs[i].started, bs[i].sent <= Len(bs[i].text),
         \A j \in DOMAIN bs : bs[j].sent <= Len(bs[j].text),
         e.type = "delta", e.index = Number(t, bs, i), IsRest(e, bs, i)
  PROVE  Tied(t, d, cs)
<1>1. /\ DOMAIN cs = DOMAIN bs /\ i \in DOMAIN bs
      /\ \A j \in DOMAIN bs : /\ cs[j].text = bs[j].text /\ cs[j].ended = bs[j].ended
                              /\ cs[j].sent = IF j = i THEN Len(bs[j].text) ELSE bs[j].sent
                              /\ cs[j].started = bs[j].started
                              /\ Number(t, cs, j) = Number(t, bs, j)
                              /\ bs[j].text \in Seq(Int) /\ bs[j].sent \in Nat
                              /\ Len(bs[j].text) \in Nat
  BY SendsFacts
<1>2. /\ DOMAIN c = 1 .. Len(c) /\ DOMAIN d = 1 .. Len(c) + 1
      /\ Len(c) \in Nat /\ Len(d) = Len(c) + 1
      /\ \A k \in DOMAIN c : d[k] = c[k]
      /\ d[Len(c) + 1] = e /\ Len(c) + 1 \in DOMAIN d
      /\ DOMAIN c \subseteq DOMAIN d
      /\ \A k \in DOMAIN d : k \in DOMAIN c \/ k = Len(c) + 1
  BY DEF More
<1>3. /\ DOMAIN e.text = 1 .. Len(bs[i].text) - bs[i].sent
      /\ \A x \in DOMAIN e.text : /\ bs[i].sent + x \in 1 .. Len(bs[i].text)
                                  /\ e.text[x] = bs[i].text[bs[i].sent + x]
      /\ \A y \in 1 .. Len(bs[i].text) : y > bs[i].sent =>
           y - bs[i].sent \in DOMAIN e.text /\ e.text[y - bs[i].sent] = bs[i].text[y]
      /\ SubSeq(bs[i].text, 1, bs[i].sent) \o e.text = SubSeq(bs[i].text, 1, Len(bs[i].text))
  <2>1. bs[i].text \in Seq(Int) /\ bs[i].sent \in Nat /\ bs[i].sent <= Len(bs[i].text)
    BY <1>1
  <2>2. Continues(e, bs, i)
    BY <2>1, RestFacts
  <2> QED
    BY <2>2 DEF Continues
<1>4. Owned(t, d, cs)
  <2> SUFFICES ASSUME NEW k \in DOMAIN d, IsOfBlock(d[k])
               PROVE  \E j \in DOMAIN cs : Tells(t, d[k], cs, j)
    BY DEF Owned
  <2>1. CASE k = Len(c) + 1
    <3>1. \A x \in DOMAIN e.text : \E y \in 1 .. cs[i].sent : e.text[x] = cs[i].text[y]
      <4> TAKE x \in DOMAIN e.text
      <4>1. bs[i].sent + x \in 1 .. cs[i].sent
        BY <1>1, <1>3
      <4> QED
        BY <1>1, <1>3, <4>1
    <3>2. Tells(t, e, cs, i)
      BY <1>1, <3>1 DEF Tells
    <3> QED
      BY <1>1, <1>2, <2>1, <3>2
  <2>2. CASE k \in DOMAIN c
    <3>1. PICK j \in DOMAIN bs : Tells(t, c[k], bs, j)
      BY <1>2, <2>2 DEF Tied, Owned
    <3>2. 1 .. bs[j].sent \subseteq 1 .. cs[j].sent
      BY <1>1
    <3>3. Tells(t, c[k], cs, j)
      BY <1>1, <3>1, <3>2, SMTT(30) DEF Tells
    <3> QED
      BY <1>1, <1>2, <2>2, <3>3
  <2> QED
    BY <1>2, <2>1, <2>2
<1>5. Opened(t, d, cs)
  BY <1>1, <1>2, SMTT(30) DEF Tied, Opened
<1>6. Closed(t, d, cs)
  BY <1>1, <1>2, SMTT(30) DEF Tied, Closed
<1>7. AllHeard(d, cs)
  <2> SUFFICES ASSUME NEW j \in DOMAIN bs, NEW y \in 1 .. cs[j].sent, bs[j].text[y] # EmptyInput
               PROVE  IsHeard(d, Abs(bs[j].text[y]))
    BY <1>1 DEF AllHeard
  <2>1. CASE y \in 1 .. bs[j].sent
    BY <2>1, Kept DEF Tied, AllHeard
  <2>2. CASE y \notin 1 .. bs[j].sent
    <3>1. j = i
      BY <1>1, <2>2
    <3>2. y \in 1 .. Len(bs[i].text) /\ y > bs[i].sent
      BY <1>1, <2>2, <3>1
    <3>3. y - bs[i].sent \in DOMAIN e.text /\ e.text[y - bs[i].sent] = bs[j].text[y]
      BY <1>3, <3>1, <3>2
    <3>4. Holds(e.text, Abs(bs[j].text[y]))
      BY <3>3 DEF Holds
    <3> QED
      BY <1>2, <3>4 DEF IsHeard
  <2> QED
    BY <2>1, <2>2
<1>8. AllStreamed(t, d, cs)
  <2> SUFFICES ASSUME t = "responses", NEW n \in Nat
               PROVE  StreamedIn(d, Len(d), n) =
                        IF n + 1 \in DOMAIN bs THEN SubSeq(bs[n+1].text, 1, cs[n+1].sent) ELSE <<>>
    BY <1>1 DEF AllStreamed
  <2>1. StreamedIn(c, Len(c), n) =
          IF n + 1 \in DOMAIN bs THEN SubSeq(bs[n+1].text, 1, bs[n+1].sent) ELSE <<>>
    BY DEF Tied, AllStreamed
  <2>2. i \in Nat
    BY <1>1, LenProperties DEF Sends, Staged
  <2>3. CASE n + 1 = i
    <3>1. e.index = n
      BY <2>2, <2>3 DEF Number
    <3>2. e.type = "delta" /\ e.index = n
      BY <3>1
    <3>9. StreamedIn(d, Len(c) + 1, n) = StreamedIn(c, Len(c), n) \o e.text
      <4>1. StreamedIn(d, Len(c) + 1, e.index) = StreamedIn(c, Len(c), e.index) \o e.text
        BY <3>2, StreamedWith
      <4> QED
        BY <3>2, <4>1
    <3>10. SubSeq(bs[n+1].text, 1, bs[n+1].sent) \o e.text = SubSeq(bs[n+1].text, 1, cs[n+1].sent)
      BY <1>1, <1>3, <2>3
    <3>11. n + 1 \in DOMAIN bs
      BY <1>1, <2>3
    <3> QED
      BY <1>2, <2>1, <3>9, <3>10, <3>11
  <2>4. CASE n + 1 # i
    <3>1. e.index # n
      BY <2>2, <2>4 DEF Number
    <3>2. StreamedIn(d, Len(c) + 1, n) = StreamedIn(c, Len(c), n) \o <<>>
      BY <3>1, StreamedMore
    <3>3. n + 1 \in DOMAIN bs => SubSeq(bs[n+1].text, 1, bs[n+1].sent) \in Seq(Int)
      BY <1>1, SubSeqProperties
    <3>4. StreamedIn(c, Len(c), n) \in Seq(Int)
      BY <2>1, <3>3
    <3>5. StreamedIn(c, Len(c), n) \o <<>> = StreamedIn(c, Len(c), n)
      BY <3>4
    <3> QED
      BY <1>1, <1>2, <2>1, <2>4, <3>2, <3>5
  <2> QED
    BY <2>3, <2>4
<1> QED
  BY <1>4, <1>5, <1>6, <1>7, <1>8 DEF Tied

\* The pieces of each slot stay in order when the rest of a text is sent.
LEMMA SendInOrder ==
  ASSUME NEW f, NEW t, NEW s, NEW c, NEW e, NEW d, More(c, e, d),
         NEW bs \in Seq(Block), NEW i \in DOMAIN bs,
         Owned(t, c, bs), InOrder(s, c), Texts(f, s, bs), Sound(f, t, bs),
         bs[i].started, e.type = "delta", Continues(e, bs, i)
  PROVE  InOrder(s, d)
<1>1. /\ DOMAIN c = 1 .. Len(c) /\ DOMAIN d = 1 .. Len(c) + 1 /\ Len(c) \in Nat
      /\ \A k \in DOMAIN c : d[k] = c[k]
      /\ d[Len(c) + 1] = e
      /\ \A k \in DOMAIN d : k \in DOMAIN c \/ k = Len(c) + 1
      /\ \A k \in DOMAIN c : k < Len(c) + 1 /\ ~ (Len(c) + 1 < k)
  BY DEF More
<1>2. ASSUME NEW j \in DOMAIN bs
      PROVE  /\ bs[j].sent \in Nat /\ Len(bs[j].text) \in Nat /\ bs[j].sent <= Len(bs[j].text)
             /\ DOMAIN bs[j].text = 1 .. Len(bs[j].text)
  <2>1. bs[j] \in Block
    BY LenProperties
  <2>2. bs[j].text \in Seq(Int) /\ bs[j].sent \in Nat
    BY <2>1 DEF Block
  <2>3. bs[j].sent <= Len(bs[j].text)
    BY DEF Sound, Progress
  <2> QED
    BY <2>2, <2>3, LenProperties
<1>3. i \in Nat /\ DOMAIN bs \subseteq Nat
  BY LenProperties
\* What the new text is.
<1>4. ASSUME NEW y \in DOMAIN e.text
      PROVE  /\ bs[i].sent + y \in DOMAIN bs[i].text /\ e.text[y] = bs[i].text[bs[i].sent + y]
             /\ y \in Nat /\ y > 0 /\ bs[i].sent # Len(bs[i].text)
  <2>1. y \in 1 .. Len(bs[i].text) - bs[i].sent
    BY DEF Continues
  <2> QED
    BY <1>2, <2>1 DEF Continues
\* What came before it.
<1>5. ASSUME NEW j \in DOMAIN c, c[j].type = "delta",
             NEW x \in DOMAIN c[j].text, NEW y \in DOMAIN e.text,
             c[j].text[x] # EmptyInput, e.text[y] # EmptyInput,
             s[Abs(c[j].text[x])] = s[Abs(e.text[y])]
      PROVE  Abs(c[j].text[x]) < Abs(e.text[y])
  <2>1. PICK m \in DOMAIN bs : Tells(t, c[j], bs, m)
    BY <1>5 DEF Owned, IsOfBlock
  <2>2. PICK z \in 1 .. bs[m].sent : c[j].text[x] = bs[m].text[z]
    BY <1>5, <2>1 DEF Tells
  <2>3. z \in DOMAIN bs[m].text
    BY <1>2, <2>2
  <2> DEFINE v == bs[i].sent + y
  <2>4. v \in DOMAIN bs[i].text /\ e.text[y] = bs[i].text[v]
    BY <1>4
  <2>5. s[Abs(bs[m].text[z])] = SlotOf(f, bs[m])
    BY <1>5, <2>2, <2>3 DEF Texts, OfSlot, SaidThere
  <2>6. s[Abs(bs[i].text[v])] = SlotOf(f, bs[i])
    BY <1>5, <2>4 DEF Texts, OfSlot, SaidThere
  <2>7. SlotOf(f, bs[i]) = SlotOf(f, bs[m])
    BY <1>5, <2>2, <2>4, <2>5, <2>6
  <2>8. CASE m = i
    <3>1. z < v /\ z \in DOMAIN bs[i].text
      <4>1. z \in Nat /\ z <= bs[i].sent
        BY <1>2, <2>2, <2>8
      <4> QED
        BY <1>2, <1>4, <2>3, <2>8, <4>1
    <3> HIDE DEF v
    <3>2. Ascending(bs[i].text)
      BY DEF Texts, OfSlot
    <3> QED
      BY <1>5, <2>2, <2>4, <2>8, <3>1, <3>2 DEF Ascending
  <2>9. CASE m < i
    <3> HIDE DEF v
    <3> QED
      BY <1>5, <2>2, <2>3, <2>4, <2>7, <2>9 DEF Texts, Successive
  <2>10. CASE i < m
    <3>1. bs[i].sent = Len(bs[i].text)
      BY <2>1, <2>7, <2>10 DEF Tells, Sound, InTurn
    <3> QED
      BY <1>4, <3>1
  <2> QED
    BY <1>3, <2>8, <2>9, <2>10
<1>6. ASSUME NEW x \in DOMAIN e.text, NEW y \in DOMAIN e.text, x < y,
             e.text[x] # EmptyInput, e.text[y] # EmptyInput
      PROVE  Abs(e.text[x]) < Abs(e.text[y])
  <2> DEFINE u == bs[i].sent + x
             v == bs[i].sent + y
  <2>1. /\ u \in DOMAIN bs[i].text /\ e.text[x] = bs[i].text[u]
        /\ v \in DOMAIN bs[i].text /\ e.text[y] = bs[i].text[v]
    BY <1>4
  <2>2. u < v
    BY <1>2, <1>4, <1>6
  <2> HIDE DEF u, v
  <2>3. Ascending(bs[i].text)
    BY DEF Texts, OfSlot
  <2> QED
    BY <1>6, <2>1, <2>2, <2>3 DEF Ascending
<1> SUFFICES ASSUME NEW j \in DOMAIN d, NEW k \in DOMAIN d, d[j].type = "delta", d[k].type = "delta",
                    NEW x \in DOMAIN d[j].text, NEW y \in DOMAIN d[k].text,
                    d[j].text[x] # EmptyInput, d[k].text[y] # EmptyInput,
                    s[Abs(d[j].text[x])] = s[Abs(d[k].text[y])],
                    j < k \/ (j = k /\ x < y)
             PROVE  Abs(d[j].text[x]) < Abs(d[k].text[y])
  BY DEF InOrder
<1>7. CASE j \in DOMAIN c /\ k \in DOMAIN c
  BY <1>1, <1>7 DEF InOrder
<1>8. CASE j \in DOMAIN c /\ k = Len(c) + 1
  BY <1>1, <1>5, <1>8
<1>9. CASE j = Len(c) + 1 /\ k = Len(c) + 1
  BY <1>1, <1>6, <1>9
<1>10. CASE j = Len(c) + 1 /\ k \in DOMAIN c
  BY <1>1, <1>10
<1> QED
  BY <1>1, <1>7, <1>8, <1>9, <1>10

\* An event that goes on with a block, or ends it, may follow.
LEMMA GoesOn ==
  ASSUME NEW t, NEW c, NEW e, NEW d, More(c, e, d),
         NEW bs \in Seq(Block), NEW i \in DOMAIN bs, Tied(t, c, bs),
         bs[i].started, ~ bs[i].ended,
         e.index = Number(t, bs, i), e.type # "open", e.index # -1
  PROVE  /\ ~ BeforeIn(c, Len(c) + 1, "close", e.index)
         /\ (e.type = "open") <=> ~ BeforeIn(c, Len(c) + 1, "open", e.index)
<1>1. \A type, n : BeforeIn(c, Len(c) + 1, type, n)
                     <=> \E j \in DOMAIN c : c[j].type = type /\ c[j].index = n
  BY BeforeNext DEF More
<1>2. \A k \in DOMAIN c : c[k].type = "close" => c[k].index # Number(t, bs, i)
  BY NoneAfter DEF Tied
<1>3. \E k \in DOMAIN c : c[k].type = "open" /\ c[k].index = Number(t, bs, i)
  BY DEF Tied, Opened
<1> QED
  BY <1>1, <1>2, <1>3

\* The rest of a text may follow the events so far.
LEMMA SendProper ==
  ASSUME NEW f, NEW t, NEW s, NEW c, NEW e, NEW d, More(c, e, d),
         NEW bs \in Seq(Block), NEW i \in DOMAIN bs,
         Tied(t, c, bs), Proper(f, t, s, c), Texts(f, s, bs), Sound(f, t, bs),
         bs[i].started, ~ bs[i].ended,
         e.type = "delta", e.index = Number(t, bs, i), Continues(e, bs, i)
  PROVE  Proper(f, t, s, d)
<1>1. InOrder(s, d)
  BY SendInOrder DEF Tied, Proper
<1>2. e.index # -1 => /\ ~ BeforeIn(c, Len(c) + 1, "close", e.index)
                      /\ (e.type = "open") <=> ~ BeforeIn(c, Len(c) + 1, "open", e.index)
  BY GoesOn
<1>3. Follows(f, t, c, e)
  BY <1>2 DEF Follows
<1> QED
  BY <1>1, <1>3, ProperSoFar

-----------------------------------------------------------------------------
(* One event of a block: the block is ended. *)

\* What ending a block leaves and changes.
LEMMA EndsFacts ==
  ASSUME NEW bs, NEW i, NEW cs, EndsBlock(bs, i, cs)
  PROVE  /\ DOMAIN cs = DOMAIN bs /\ i \in DOMAIN bs
         /\ \A j \in DOMAIN bs :
              /\ cs[j].text = bs[j].text /\ cs[j].done = bs[j].done
              /\ cs[j].started = bs[j].started /\ cs[j].sent = bs[j].sent
              /\ cs[j].ended = IF j = i THEN bs[j].done ELSE bs[j].ended
              /\ IsHidden(cs[j]) <=> IsHidden(bs[j])
              /\ bs[j].text \in Seq(Int) /\ bs[j].sent \in Nat /\ Len(bs[j].text) \in Nat
         /\ \A j \in DOMAIN bs : \A f : SlotOf(f, cs[j]) = SlotOf(f, bs[j])
         /\ \A j \in DOMAIN bs : \A t : Number(t, cs, j) = Number(t, bs, j)
<1>1. Staged(bs, i, cs) /\ DOMAIN cs = DOMAIN bs /\ i \in DOMAIN bs
  BY StagedFacts DEF EndsBlock, Staged
<1>2. ASSUME NEW j \in DOMAIN bs
      PROVE  /\ cs[j].text = bs[j].text /\ cs[j].done = bs[j].done
             /\ cs[j].started = bs[j].started /\ cs[j].sent = bs[j].sent
             /\ cs[j].ended = IF j = i THEN bs[j].done ELSE bs[j].ended
             /\ IsHidden(cs[j]) <=> IsHidden(bs[j])
             /\ bs[j].text \in Seq(Int) /\ bs[j].sent \in Nat /\ Len(bs[j].text) \in Nat
  <2>1. CASE j = i
    BY <1>1, <2>1, StagedFacts DEF EndsBlock
  <2>2. CASE j # i
    BY <1>1, <2>2, StagedFacts DEF EndsBlock
  <2> QED
    BY <2>1, <2>2
<1>3. \A j \in DOMAIN bs : \A f : SlotOf(f, cs[j]) = SlotOf(f, bs[j])
  BY <1>1, StagedFacts
<1>4. \A j \in DOMAIN bs : \A t : Number(t, cs, j) = Number(t, bs, j)
  BY <1>1, StagedFacts
<1> QED
  BY <1>1, <1>2, <1>3, <1>4

\* A block ends after all of its text was sent.
LEMMA EndSound ==
  ASSUME NEW f, NEW t, NEW bs, NEW i, NEW cs, EndsBlock(bs, i, cs), Sound(f, t, bs),
         bs[i].started, bs[i].sent = Len(bs[i].text)
  PROVE  Sound(f, t, cs)
<1>1. \A j \in DOMAIN cs : Progress(cs[j])
  <2> SUFFICES ASSUME NEW j \in DOMAIN bs PROVE Progress(cs[j])
    BY EndsFacts
  <2>1. Progress(bs[j])
    BY DEF Sound
  <2>2. CASE j = i
    BY <2>1, <2>2, EndsFacts DEF Progress
  <2>3. CASE j # i
    BY <2>1, <2>3, EndsFacts DEF Progress
  <2> QED
    BY <2>2, <2>3
<1>2. \A j \in DOMAIN bs : bs[j].ended => cs[j].ended
  BY EndsFacts DEF Sound, Progress
<1>3. InTurn(f, t, cs)
  BY <1>2, EndsFacts DEF Sound, InTurn
<1> QED
  BY <1>1, <1>3 DEF Sound

\* The events and the blocks stay tied when a block is ended.
LEMMA EndTied ==
  ASSUME NEW t, NEW c, NEW e, NEW d, More(c, e, d), NEW bs, NEW i, NEW cs,
         EndsBlock(bs, i, cs), Tied(t, c, bs), bs[i].started, bs[i].done,
         e.type = "close", e.index = Number(t, bs, i)
  PROVE  Tied(t, d, cs)
<1>1. /\ DOMAIN cs = DOMAIN bs /\ i \in DOMAIN bs
      /\ \A j \in DOMAIN bs : /\ cs[j].text = bs[j].text /\ cs[j].sent = bs[j].sent
                              /\ cs[j].started = bs[j].started
                              /\ cs[j].ended <=> (j = i \/ bs[j].ended)
                              /\ Number(t, cs, j) = Number(t, bs, j)
  BY EndsFacts
<1>2. /\ DOMAIN c = 1 .. Len(c) /\ DOMAIN d = 1 .. Len(c) + 1
      /\ Len(c) \in Nat /\ Len(d) = Len(c) + 1
      /\ \A k \in DOMAIN c : d[k] = c[k]
      /\ d[Len(c) + 1] = e /\ Len(c) + 1 \in DOMAIN d
      /\ DOMAIN c \subseteq DOMAIN d
      /\ \A k \in DOMAIN d : k \in DOMAIN c \/ k = Len(c) + 1
  BY DEF More
<1>3. Owned(t, d, cs)
  <2> SUFFICES ASSUME NEW k \in DOMAIN d, IsOfBlock(d[k])
               PROVE  \E j \in DOMAIN cs : Tells(t, d[k], cs, j)
    BY DEF Owned
  <2>1. CASE k = Len(c) + 1
    <3>1. Tells(t, e, cs, i)
      BY <1>1 DEF Tells
    <3> QED
      BY <1>1, <1>2, <2>1, <3>1
  <2>2. CASE k \in DOMAIN c
    <3>1. PICK j \in DOMAIN bs : Tells(t, c[k], bs, j)
      BY <1>2, <2>2 DEF Tied, Owned
    <3>2. Tells(t, c[k], cs, j)
      BY <1>1, <3>1 DEF Tells
    <3> QED
      BY <1>1, <1>2, <2>2, <3>2
  <2> QED
    BY <1>2, <2>1, <2>2
<1>4. Opened(t, d, cs)
  BY <1>1, <1>2 DEF Tied, Opened
<1>5. Closed(t, d, cs)
  <2> SUFFICES ASSUME NEW j \in DOMAIN bs, cs[j].ended, t # "chat"
               PROVE  \E k \in DOMAIN d : d[k].type = "close" /\ d[k].index = Number(t, bs, j)
    BY <1>1 DEF Closed
  <2>1. CASE j = i
    BY <1>2, <2>1
  <2>2. CASE j # i
    BY <1>1, <1>2, <2>2 DEF Tied, Closed
  <2> QED
    BY <2>1, <2>2
<1>6. AllHeard(d, cs)
  BY <1>1, Kept DEF Tied, AllHeard
<1>7. AllStreamed(t, d, cs)
  <2> SUFFICES ASSUME t = "responses", NEW n \in Nat
               PROVE  StreamedIn(d, Len(d), n) =
                        IF n + 1 \in DOMAIN bs THEN SubSeq(bs[n+1].text, 1, bs[n+1].sent) ELSE <<>>
    BY <1>1 DEF AllStreamed
  <2>1. StreamedIn(d, Len(c) + 1, n) = StreamedIn(c, Len(c), n) \o <<>>
    BY StreamedMore
  <2>2. StreamedIn(c, Len(c), n) =
          IF n + 1 \in DOMAIN bs THEN SubSeq(bs[n+1].text, 1, bs[n+1].sent) ELSE <<>>
    BY DEF Tied, AllStreamed
  <2> QED
    BY <1>2, <2>1, <2>2
<1> QED
  BY <1>3, <1>4, <1>5, <1>6, <1>7 DEF Tied

\* The event that ends a block may follow, and repeats the text.
LEMMA EndProper ==
  ASSUME NEW f, NEW t, NEW s, NEW c, NEW e, NEW d, More(c, e, d),
         NEW bs \in Seq(Block), NEW i \in DOMAIN bs,
         Tied(t, c, bs), Proper(f, t, s, c), t # "chat",
         bs[i].started, ~ bs[i].ended, bs[i].sent = Len(bs[i].text),
         e.type = "close", e.index = Number(t, bs, i),
         t = "responses" => e.text = bs[i].text
  PROVE  Proper(f, t, s, d)
<1>1. InOrder(s, d)
  BY InOrderKept DEF Proper
<1>2. e.index # -1 => /\ ~ BeforeIn(c, Len(c) + 1, "close", e.index)
                      /\ (e.type = "open") <=> ~ BeforeIn(c, Len(c) + 1, "open", e.index)
  BY GoesOn
<1>3. ASSUME t = "responses" PROVE e.text = StreamedIn(c, Len(c), e.index)
  <2>1. bs[i] \in Block /\ i \in Nat \ {0}
    BY LenProperties
  <2>2. bs[i].text \in Seq(Int)
    BY <2>1 DEF Block
  <2>3. e.index = i - 1 /\ i - 1 \in Nat /\ (i - 1) + 1 = i
    BY <1>3, <2>1 DEF Number
  <2>4. StreamedIn(c, Len(c), i - 1) = SubSeq(bs[i].text, 1, bs[i].sent)
    BY <1>3, <2>3 DEF Tied, AllStreamed
  <2> QED
    BY <1>3, <2>2, <2>3, <2>4, SubSeqFull
<1>4. Follows(f, t, c, e)
  BY <1>2, <1>3 DEF Follows
<1> QED
  BY <1>1, <1>4, ProperSoFar

\* Whether a block has a number.
LEMMA Numbered ==
  ASSUME NEW t, NEW bs, NEW i \in Nat \ {0}
  PROVE  (t # "chat" \/ bs[i].kind = "tool") <=> Number(t, bs, i) # -1
<1>1. CASE t = "chat" /\ bs[i].kind = "tool"
  <2>1. Number("responses", bs, i) = i - 1
    BY DEF Number
  <2>2. ToolIndex(bs, i) \in Nat
    <3> DEFINE A == {j \in 1 .. i - 1 : bs[j].kind = "tool"}
    <3>1. 1 \in Int /\ i - 1 \in Int
      OBVIOUS
    <3>2. IsFiniteSet(1 .. i - 1) /\ A \in SUBSET (1 .. i - 1)
      BY <3>1, FS_Interval
    <3> HIDE DEF A
    <3>3. Cardinality(A) \in Nat
      BY <3>2, FS_Subset, FS_CardinalityType
    <3> QED
      BY <3>3 DEF ToolIndex, A
  <2>3. Number(t, bs, i) = ToolIndex(bs, i)
    BY <1>1 DEF Number
  <2> QED
    BY <1>1, <2>2, <2>3
<1>2. CASE t = "chat" /\ bs[i].kind # "tool"
  BY <1>2 DEF Number
<1>3. CASE t # "chat"
  BY <1>3 DEF Number
<1> QED
  BY <1>1, <1>2, <1>3

\* The parts of an event of a block.
LEMMA EventType ==
  ASSUME NEW bs \in Seq(Block), NEW i \in DOMAIN bs,
         NEW type \in {"open", "delta", "close"}, NEW text \in Seq(Int)
  PROVE  /\ Event(type, bs, i, text) \in BlockEvent /\ Event(type, bs, i, text) \in EventSet
         /\ Event(type, bs, i, text).type = type
         /\ Event(type, bs, i, text).index = Number(to, bs, i)
         /\ Event(type, bs, i, text).text = text
<1>1. bs[i] \in Block /\ i \in Nat \ {0}
  BY LenProperties
<1>2. Index(bs, i) = Number(to, bs, i)
  BY DEF Index, Number
<1>3. Number(to, bs, i) \in Int
  BY <1>1, NumberType
<1>4. ClientKind(bs[i]) \in Kinds
  BY <1>1 DEF ClientKind, Block, Kinds
<1> QED
  BY <1>2, <1>3, <1>4 DEF Event, EventSet, BlockEvent

\* A point of the rendering: what is true of the events and the blocks.
Stage(f, s, c, bs) == c \in Seq(EventSet) /\ bs \in Seq(Block) /\ Core(f, to, s, c, bs)

\* Adding no event or one.
LEMMA NoEvent == ASSUME NEW c \in Seq(EventSet) PROVE c \o <<>> = c
BY ConcatEmptySeq

\* One event more, as rendering adds it.
LEMMA OneEvent ==
  ASSUME NEW c \in Seq(EventSet), NEW e \in EventSet
  PROVE  c \o <<e>> \in Seq(EventSet) /\ More(c, e, c \o <<e>>)
<1>1. Append(c, e) = c \o <<e>> /\ Append(c, e) \in Seq(EventSet)
  BY AppendIsConcat, AppendProperties
<1> QED
  BY <1>1, OneMore

\* The blocks stay as they are.
LEMMA SameTied ==
  ASSUME NEW t, NEW c, NEW bs, NEW i, NEW cs, Staged(bs, i, cs), Tied(t, c, bs),
         t # "chat" => cs[i].ended = bs[i].ended,
         bs[i].ended => cs[i].ended,
         cs[i].started = bs[i].started, cs[i].sent = bs[i].sent
  PROVE  Tied(t, c, cs)
<1>1. /\ DOMAIN cs = DOMAIN bs /\ i \in DOMAIN bs
      /\ \A j \in DOMAIN bs : /\ cs[j].text = bs[j].text
                              /\ t # "chat" => cs[j].ended = bs[j].ended
                              /\ bs[j].ended => cs[j].ended
                              /\ cs[j].sent = bs[j].sent
                              /\ cs[j].started = bs[j].started
                              /\ Number(t, cs, j) = Number(t, bs, j)
  <2>1. DOMAIN cs = DOMAIN bs /\ i \in DOMAIN bs
    BY StagedFacts DEF Staged
  <2>2. ASSUME NEW j \in DOMAIN bs
        PROVE  /\ cs[j].text = bs[j].text
               /\ t # "chat" => cs[j].ended = bs[j].ended
               /\ bs[j].ended => cs[j].ended
               /\ cs[j].sent = bs[j].sent
               /\ cs[j].started = bs[j].started
               /\ Number(t, cs, j) = Number(t, bs, j)
    <3>1. CASE j = i
      BY <3>1, StagedFacts
    <3>2. CASE j # i
      BY <3>2, StagedFacts
    <3> QED
      BY <3>1, <3>2
  <2> QED
    BY <2>1, <2>2
<1>2. Owned(t, c, cs)
  BY <1>1 DEF Tied, Owned, Tells
<1>3. Opened(t, c, cs)
  BY <1>1 DEF Tied, Opened
<1>4. Closed(t, c, cs)
  BY <1>1 DEF Tied, Closed
<1>5. AllHeard(c, cs)
  BY <1>1 DEF Tied, AllHeard
<1>6. AllStreamed(t, c, cs)
  BY <1>1 DEF Tied, AllStreamed
<1> QED
  BY <1>2, <1>3, <1>4, <1>5, <1>6 DEF Tied

\* The three parts of BlockEvents.
ShowEvents(bs, i) == IF bs[i].started THEN <<>> ELSE startBlock(bs, i)
EndEvents(bs, i) == IF bs[i].done THEN endBlock(bs, i) ELSE <<>>

\* The opening of a block, if it has one, keeps the point of the rendering.
LEMMA ShowStage ==
  ASSUME NEW f, NEW s, NEW c, NEW bs, NEW i, NEW cs, Stage(f, s, c, bs), Shows(bs, i, cs),
         InTurnNow(f, to, bs, i), ~ IsHidden(bs[i])
  PROVE  Stage(f, s, c \o ShowEvents(bs, i), cs)
<1>1. /\ c \in Seq(EventSet) /\ bs \in Seq(Block) /\ i \in DOMAIN bs /\ cs \in Seq(Block)
      /\ Staged(bs, i, cs)
      /\ AllAlike(bs, cs) /\ i \in Nat \ {0}
  BY LenProperties DEF Stage, Shows, Staged
<1>2. Texts(f, s, bs) /\ Sound(f, to, bs) /\ Tied(to, c, bs) /\ Proper(f, to, s, c)
  BY DEF Stage, Core
<1>3. Texts(f, s, cs) /\ Sound(f, to, cs)
  BY <1>1, <1>2, AlikeTexts, ShowSound
<1>4. CASE bs[i].started
  <2>1. cs[i].started = bs[i].started /\ cs[i].ended = bs[i].ended /\ cs[i].sent = bs[i].sent
    <3>1. bs[i] \in Block /\ cs[i] \in Block
      BY <1>1, LenProperties DEF AllAlike
    <3> QED
      BY <1>4, <3>1 DEF Shows, Block
  <2>2. Tied(to, c, cs)
    BY <1>1, <1>2, <2>1, SameTied
  <2> QED
    BY <1>1, <1>2, <1>3, <1>4, <2>2, NoEvent DEF Stage, Core, ShowEvents
<1>5. CASE ~ bs[i].started /\ Number(to, bs, i) = -1
  <2>1. ShowEvents(bs, i) = <<>>
    BY <1>1, <1>5, Numbered DEF ShowEvents, startBlock
  <2>2. Tied(to, c, cs)
    BY <1>2, <1>5, ShowTiedQuietly
  <2> QED
    BY <1>1, <1>2, <1>3, <2>1, <2>2, NoEvent DEF Stage, Core
<1>6. CASE ~ bs[i].started /\ Number(to, bs, i) # -1
  <2> DEFINE w == <<>>
             e == Event("open", bs, i, w)
             d == c \o <<e>>
  <2>1. ShowEvents(bs, i) = <<e>>
    BY <1>1, <1>6, Numbered DEF ShowEvents, startBlock
  <2>2. e \in EventSet /\ e.type = "open" /\ e.index = Number(to, bs, i)
    <3>1. w \in Seq(Int)
      OBVIOUS
    <3> HIDE DEF w
    <3> QED
      BY <1>1, <3>1, EventType
  <2> HIDE DEF e, w
  <2>3. d \in Seq(EventSet) /\ More(c, e, d)
    BY <1>1, <2>2, OneEvent
  <2> HIDE DEF d
  <2>4. Tied(to, d, cs)
    BY <1>2, <2>2, <2>3, ShowTied
  <2>5. Proper(f, to, s, d)
    BY <1>1, <1>2, <1>6, <2>2, <2>3, ShowProper
  <2> QED
    BY <1>1, <1>3, <2>1, <2>3, <2>4, <2>5 DEF Stage, Core, d
<1> QED
  BY <1>4, <1>5, <1>6

\* So does its text,
LEMMA SendStage ==
  ASSUME NEW f, NEW s, NEW c, NEW bs, NEW i, NEW cs, Stage(f, s, c, bs), Sends(bs, i, cs),
         bs[i].started, ~ bs[i].ended
  PROVE  Stage(f, s, c \o delta(bs, i), cs)
<1>1. /\ c \in Seq(EventSet) /\ bs \in Seq(Block) /\ i \in DOMAIN bs /\ cs \in Seq(Block)
      /\ Staged(bs, i, cs)
      /\ AllAlike(bs, cs) /\ i \in Nat \ {0}
  BY LenProperties DEF Stage, Sends, Staged
<1>2. Texts(f, s, bs) /\ Sound(f, to, bs) /\ Tied(to, c, bs) /\ Proper(f, to, s, c)
  BY DEF Stage, Core
<1>3. Texts(f, s, cs) /\ Sound(f, to, cs)
  BY <1>1, <1>2, AlikeTexts, SendSound
<1>4. /\ bs[i].text \in Seq(Int) /\ bs[i].sent \in Nat /\ Len(bs[i].text) \in Nat
      /\ \A j \in DOMAIN bs : bs[j].sent <= Len(bs[j].text)
  BY <1>1, <1>2, SendsFacts DEF Sound, Progress
<1>5. CASE ~ (Len(bs[i].text) > bs[i].sent)
  <2>1. cs[i].started = bs[i].started /\ cs[i].ended = bs[i].ended /\ cs[i].sent = bs[i].sent
    <3>1. \A a, b \in Nat : (a <= b /\ ~ (b > a)) => a = b
      OBVIOUS
    <3>2. bs[i].sent = Len(bs[i].text)
      BY <1>1, <1>4, <1>5, <3>1
    <3> QED
      BY <3>2 DEF Sends
  <2>2. Tied(to, c, cs)
    BY <1>1, <1>2, <2>1, SameTied
  <2> QED
    BY <1>1, <1>2, <1>3, <1>5, <2>2, NoEvent DEF Stage, Core, delta
<1>6. CASE Len(bs[i].text) > bs[i].sent
  <2> DEFINE w == SubSeq(bs[i].text, bs[i].sent + 1, Len(bs[i].text))
             e == Event("delta", bs, i, w)
             d == c \o <<e>>
  <2>1. delta(bs, i) = <<e>>
    BY <1>6 DEF delta
  <2>2. w \in Seq(Int)
    BY <1>1, <1>4, RestOfText
  <2>3. e \in EventSet /\ e.type = "delta" /\ e.index = Number(to, bs, i) /\ e.text = w
    <3> HIDE DEF w
    <3> QED
      BY <1>1, <2>2, EventType
  <2> HIDE DEF e
  <2>4. IsRest(e, bs, i)
    BY <2>3 DEF IsRest
  <2> HIDE DEF w
  <2>5. Continues(e, bs, i)
    BY <1>1, <1>4, <2>4, RestFacts
  <2>6. d \in Seq(EventSet) /\ More(c, e, d)
    BY <1>1, <2>3, OneEvent
  <2> HIDE DEF d
  <2>7. Tied(to, d, cs)
    BY <1>1, <1>2, <1>4, <2>3, <2>4, <2>6, SendTied
  <2>8. Proper(f, to, s, d)
    BY <1>1, <1>2, <2>3, <2>5, <2>6, SendProper
  <2> QED
    BY <1>1, <1>3, <2>1, <2>6, <2>7, <2>8 DEF Stage, Core, d
<1> QED
  BY <1>5, <1>6

\* and so does its end.
LEMMA EndStage ==
  ASSUME NEW f, NEW s, NEW c, NEW bs, NEW i, NEW cs, Stage(f, s, c, bs), EndsBlock(bs, i, cs),
         bs[i].started, ~ bs[i].ended, bs[i].sent = Len(bs[i].text)
  PROVE  Stage(f, s, c \o EndEvents(bs, i), cs)
<1>1. /\ c \in Seq(EventSet) /\ bs \in Seq(Block) /\ i \in DOMAIN bs /\ cs \in Seq(Block)
      /\ Staged(bs, i, cs)
      /\ AllAlike(bs, cs) /\ i \in Nat \ {0}
  BY LenProperties DEF Stage, EndsBlock, Staged
<1>2. Texts(f, s, bs) /\ Sound(f, to, bs) /\ Tied(to, c, bs) /\ Proper(f, to, s, c)
  BY DEF Stage, Core
<1>3. Texts(f, s, cs) /\ Sound(f, to, cs)
  BY <1>1, <1>2, AlikeTexts, EndSound
<1>4. bs[i] \in Block /\ bs[i].text \in Seq(Int) /\ bs[i].done \in BOOLEAN
      /\ bs[i].ended \in BOOLEAN
  <2>1. bs[i] \in Block
    BY <1>1, LenProperties
  <2> QED
    BY <2>1 DEF Block
<1>5. CASE ~ bs[i].done \/ to = "chat"
  <2>1. cs[i].started = bs[i].started /\ cs[i].sent = bs[i].sent /\ cs[i].ended = bs[i].done
    BY DEF EndsBlock
  <2>2. to # "chat" => cs[i].ended = bs[i].ended
    BY <1>4, <1>5, <2>1
  <2>3. Tied(to, c, cs)
    BY <1>1, <1>2, <2>1, <2>2, SameTied
  <2>4. EndEvents(bs, i) = <<>>
    BY <1>5 DEF EndEvents, endBlock
  <2> QED
    BY <1>1, <1>2, <1>3, <2>3, <2>4, NoEvent DEF Stage, Core
<1>6. CASE bs[i].done /\ to # "chat"
  <2> DEFINE w == IF to = "responses" THEN bs[i].text ELSE <<>>
             e == Event("close", bs, i, w)
             d == c \o <<e>>
  <2>1. EndEvents(bs, i) = <<e>>
    BY <1>6 DEF EndEvents, endBlock
  <2>2. w \in Seq(Int)
    BY <1>4
  <2>3. e \in EventSet /\ e.type = "close" /\ e.index = Number(to, bs, i) /\ e.text = w
    <3> HIDE DEF w
    <3> QED
      BY <1>1, <2>2, EventType
  <2> HIDE DEF e
  <2>4. to = "responses" => e.text = bs[i].text
    BY <2>3
  <2>5. d \in Seq(EventSet) /\ More(c, e, d)
    BY <1>1, <2>3, OneEvent
  <2> HIDE DEF d
  <2>6. Tied(to, d, cs)
    BY <1>1, <1>2, <1>6, <2>3, <2>5, EndTied
  <2>7. Proper(f, to, s, d)
    BY <1>1, <1>2, <1>6, <2>3, <2>4, <2>5, EndProper
  <2> QED
    BY <1>1, <1>3, <2>1, <2>5, <2>6, <2>7 DEF Stage, Core, d
<1> QED
  BY <1>5, <1>6

\* What block i adds to the events.
Part(bs, i) == IF Renders(bs, i) THEN BlockEvents(bs, i) ELSE <<>>

\* Types of the events of a block.
LEMMA PartType ==
  ASSUME NEW bs \in Seq(Block), NEW i \in DOMAIN bs, bs[i].sent <= Len(bs[i].text)
  PROVE  /\ ShowEvents(bs, i) \in Seq(EventSet) /\ delta(bs, i) \in Seq(EventSet)
         /\ EndEvents(bs, i) \in Seq(EventSet)
         /\ Part(bs, i) \in Seq(BlockEvent) /\ Part(bs, i) \in Seq(EventSet)
<1>1. bs[i] \in Block /\ i \in Nat \ {0}
  BY LenProperties
<1>2. bs[i].text \in Seq(Int) /\ bs[i].sent \in Nat
  BY <1>1 DEF Block
<1> DEFINE p == ShowEvents(bs, i)
           q == delta(bs, i)
           r == EndEvents(bs, i)
<1>3. \A type \in {"open", "delta", "close"} : \A text \in Seq(Int) :
        Event(type, bs, i, text) \in BlockEvent
  BY <1>1, EventType
<1>4. \A e \in BlockEvent : <<e>> \in Seq(BlockEvent)
  OBVIOUS
<1>5. <<>> \in Seq(BlockEvent) /\ <<>> \in Seq(Int)
  OBVIOUS
<1>6. p \in Seq(BlockEvent)
  BY <1>3, <1>4, <1>5 DEF ShowEvents, startBlock
<1>7. q \in Seq(BlockEvent)
  <2> DEFINE w == SubSeq(bs[i].text, bs[i].sent + 1, Len(bs[i].text))
  <2>1. w \in Seq(Int)
    BY <1>2, RestOfText
  <2> HIDE DEF w
  <2>2. q = IF Len(bs[i].text) > bs[i].sent THEN <<Event("delta", bs, i, w)>> ELSE <<>>
    BY DEF delta, w
  <2> HIDE DEF q
  <2>3. <<Event("delta", bs, i, w)>> \in Seq(BlockEvent)
    BY <1>3, <1>4, <2>1
  <2> QED
    BY <1>5, <2>2, <2>3
<1>8. r \in Seq(BlockEvent)
  <2> DEFINE w == IF to = "responses" THEN bs[i].text ELSE <<>>
  <2>1. w \in Seq(Int)
    BY <1>2, <1>5
  <2> HIDE DEF w
  <2>2. <<Event("close", bs, i, w)>> \in Seq(BlockEvent)
    BY <1>3, <1>4, <2>1
  <2>3. r = IF bs[i].done THEN (IF to = "chat" THEN <<>> ELSE <<Event("close", bs, i, w)>>)
            ELSE <<>>
    BY DEF EndEvents, endBlock, w
  <2> HIDE DEF r
  <2> QED
    BY <1>5, <2>2, <2>3
<1>9. BlockEvents(bs, i) = (p \o q) \o r
  BY DEF BlockEvents, ShowEvents, EndEvents
<1> HIDE DEF p, q, r
<1>10. p \o q \in Seq(BlockEvent)
  BY <1>6, <1>7, ConcatProperties
<1>11. (p \o q) \o r \in Seq(BlockEvent)
  <2> DEFINE w == p \o q
  <2>1. w \in Seq(BlockEvent)
    BY <1>10
  <2> HIDE DEF w
  <2>2. w \o r \in Seq(BlockEvent)
    BY <1>8, <2>1, ConcatProperties
  <2> QED
    BY <2>2 DEF w
<1>12. Part(bs, i) \in Seq(BlockEvent)
  BY <1>5, <1>9, <1>11 DEF Part
<1>13. Seq(BlockEvent) \subseteq Seq(EventSet)
  <2>1. BlockEvent \subseteq EventSet
    BY DEF EventSet
  <2> HIDE DEF p
  <2> QED
    BY <2>1, SeqMonotonic
<1> QED
  BY <1>6, <1>7, <1>8, <1>12, <1>13 DEF p, q, r

\* Two blocks of one slot are texts of a Chat answer, and so never hidden.
NoToolTwice(f, bs) ==
  \A i, j \in DOMAIN bs :
    (i # j /\ SlotOf(f, bs[i]) = SlotOf(f, bs[j])) => bs[i].kind # "tool"

\* All the events of one block.
LEMMA OneBlock ==
  ASSUME NEW f, NEW s, NEW c, NEW bs, NEW i \in DOMAIN bs, Stage(f, s, c, bs),
         InTurnNow(f, to, bs, i), ~ IsHidden(bs[i]), ~ bs[i].ended
  PROVE  Stage(f, s, c \o BlockEvents(bs, i), [bs EXCEPT ![i] = Rendered(bs[i])])
<1> DEFINE b1 == [bs EXCEPT ![i] = ShowIt(bs[i])]
           b2 == [b1 EXCEPT ![i] = SendIt(b1[i])]
           b3 == [b2 EXCEPT ![i] = EndIt(b2[i])]
           cs == [bs EXCEPT ![i] = Rendered(bs[i])]
           c1 == c \o ShowEvents(bs, i)
           c2 == c1 \o delta(b1, i)
           c3 == c2 \o EndEvents(b2, i)
<1>1. bs \in Seq(Block) /\ bs[i] \in Block /\ i \in Nat \ {0} /\ i \in 1 .. Len(bs)
  BY LenProperties DEF Stage
<1>2. Shows(bs, i, b1)
  BY <1>1, Stages
<1>3. b1[i] = ShowIt(bs[i])
  BY <1>1, ExceptSeq
<1> HIDE DEF b1
<1>4. b1 \in Seq(Block) /\ i \in DOMAIN b1 /\ b1[i].started /\ ~ b1[i].ended /\ b1[i].text = bs[i].text
      /\ b1[i].kind = bs[i].kind /\ b1[i].done = bs[i].done /\ b1[i].sent = bs[i].sent
  BY <1>2, StagedFacts DEF Shows, Staged, AllAlike, Alike
<1>5. Stage(f, s, c1, b1)
  BY <1>2, ShowStage
<1> HIDE DEF c1
<1>6. Sends(b1, i, b2)
  BY <1>4, Stages
<1>7. b2[i] = SendIt(b1[i])
  BY <1>4
<1> HIDE DEF b2
<1>8. b2 \in Seq(Block) /\ i \in DOMAIN b2 /\ b2[i].started /\ ~ b2[i].ended /\ b2[i].text = bs[i].text
      /\ b2[i].sent = Len(bs[i].text) /\ b2[i].kind = bs[i].kind /\ b2[i].done = bs[i].done
  BY <1>4, <1>6, StagedFacts DEF Sends, Staged, AllAlike, Alike
<1>9. Stage(f, s, c2, b2)
  BY <1>4, <1>5, <1>6, SendStage
<1> HIDE DEF c2
<1>10. EndsBlock(b2, i, b3)
  BY <1>8, Stages
<1>11. b3[i] = EndIt(b2[i])
  BY <1>8
<1> HIDE DEF b3
<1>12. Stage(f, s, c3, b3)
  BY <1>8, <1>9, <1>10, EndStage
<1>13. b3 = cs
  <2>1. b3 \in Seq(Block) /\ Len(b3) = Len(bs)
    <3>1. DOMAIN b3 = DOMAIN bs /\ b3 \in Seq(Block)
      BY <1>2, <1>6, <1>10 DEF Shows, Sends, EndsBlock, Staged, AllAlike
    <3> QED
      BY <1>1, <3>1, LenProperties
  <2>2. b3[i] = Rendered(bs[i]) /\ Rendered(bs[i]) \in Block
    <3>1. Len(bs[i].text) \in Nat
      BY <1>1, LenProperties DEF Block
    <3> QED
      BY <1>1, <1>3, <1>7, <1>11, <3>1 DEF ShowIt, SendIt, EndIt, Rendered, Block
  <2>3. \A j \in DOMAIN bs : j # i => b3[j] = bs[j]
    BY <1>2, <1>6, <1>10 DEF Shows, Sends, EndsBlock, Staged, AllAlike
  <2>4. /\ cs \in Seq(Block) /\ Len(cs) = Len(bs)
        /\ \A j \in 1 .. Len(bs) : cs[j] = IF j = i THEN Rendered(bs[i]) ELSE bs[j]
    BY <1>1, <2>2, ExceptSeq
  <2>5. \A j \in 1 .. Len(bs) : b3[j] = cs[j]
    BY <1>1, <2>2, <2>3, <2>4, LenProperties
  <2> HIDE DEF cs
  <2> QED
    BY <2>1, <2>4, <2>5, SeqEqual
<1>14. c3 = c \o BlockEvents(bs, i)
  <2>1. Index(b1, i) = Index(bs, i) /\ Index(b2, i) = Index(bs, i)
    <3>1. \A j \in DOMAIN bs : Number(to, b1, j) = Number(to, bs, j)
      BY <1>2, StagedFacts DEF Shows
    <3>2. \A j \in DOMAIN b1 : Number(to, b2, j) = Number(to, b1, j)
      BY <1>6, StagedFacts DEF Sends
    <3> QED
      BY <1>4, <3>1, <3>2 DEF Index, Number
  <2>2. delta(b1, i) = delta(bs, i)
    BY <1>4, <2>1 DEF delta, Event, ClientKind
  <2>3. EndEvents(b2, i) = EndEvents(bs, i)
    BY <1>8, <2>1 DEF EndEvents, endBlock, Event, ClientKind
  <2> DEFINE p == ShowEvents(bs, i)
             q == delta(bs, i)
             r == EndEvents(bs, i)
  <2>4. p \in Seq(EventSet) /\ q \in Seq(EventSet) /\ r \in Seq(EventSet)
    <3>1. bs[i].sent <= Len(bs[i].text)
      BY DEF Stage, Core, Sound, Progress
    <3> QED
      BY <1>1, <3>1, PartType
  <2>5. c3 = ((c \o p) \o q) \o r
    BY <2>2, <2>3 DEF c1, c2
  <2>6. BlockEvents(bs, i) = (p \o q) \o r
    BY DEF BlockEvents, ShowEvents, EndEvents
  <2>7. c \in Seq(EventSet)
    BY DEF Stage
  <2> HIDE DEF p, q, r
  <2>8. Associates(c, p, q) /\ Associates(c, p \o q, r)
    BY <2>4, <2>7, ConcatThree
  <2>9. ((c \o p) \o q) \o r = c \o ((p \o q) \o r)
    BY Zenon, <2>8 DEF Associates
  <2> QED
    BY Zenon, <2>5, <2>6, <2>9
<1> QED
  BY <1>12, <1>13, <1>14

-----------------------------------------------------------------------------
(* All blocks. *)

\* The blocks, the first n rendered, and their events.
Shown(bs, n) ==
  [i \in DOMAIN bs |-> IF i <= n /\ Renders(bs, i) THEN Rendered(bs[i]) ELSE bs[i]]
EventsOf(bs, n) == FlattenSeq([i \in 1 .. n |-> Part(bs, i)])

\* What rendering makes of a block.
LEMMA RenderedBlock ==
  ASSUME NEW b \in Block
  PROVE  /\ Rendered(b) \in Block /\ Alike(b, Rendered(b))
         /\ Rendered(b).started /\ Rendered(b).sent = Len(b.text) /\ Rendered(b).ended = b.done
<1>1. Len(b.text) \in Nat
  BY LenProperties DEF Block
<1> QED
  BY <1>1 DEF Rendered, Block, Alike

\* What rendering the first n blocks makes of all.
LEMMA ShownFacts ==
  ASSUME NEW bs \in Seq(Block), NEW n \in Nat
  PROVE  /\ Shown(bs, n) \in Seq(Block) /\ DOMAIN Shown(bs, n) = DOMAIN bs
         /\ Len(Shown(bs, n)) = Len(bs) /\ AllAlike(bs, Shown(bs, n))
         /\ \A i \in DOMAIN bs :
              Shown(bs, n)[i] = IF i <= n /\ Renders(bs, i) THEN Rendered(bs[i]) ELSE bs[i]
<1>1. DOMAIN bs = 1 .. Len(bs) /\ Len(bs) \in Nat /\ \A i \in DOMAIN bs : bs[i] \in Block
  BY LenProperties
<1>2. \A i \in DOMAIN bs : Rendered(bs[i]) \in Block /\ Alike(bs[i], Rendered(bs[i]))
  BY <1>1, RenderedBlock
<1>3. \A i \in DOMAIN bs : Alike(bs[i], bs[i])
  BY DEF Alike
<1>4. \A i \in DOMAIN bs :
        Shown(bs, n)[i] = IF i <= n /\ Renders(bs, i) THEN Rendered(bs[i]) ELSE bs[i]
  BY DEF Shown
<1>5. DOMAIN Shown(bs, n) = 1 .. Len(bs) /\ Shown(bs, n) = [i \in 1 .. Len(bs) |-> Shown(bs, n)[i]]
  BY <1>1 DEF Shown
<1>6. \A i \in 1 .. Len(bs) : Shown(bs, n)[i] \in Block /\ Alike(bs[i], Shown(bs, n)[i])
  BY <1>1, <1>2, <1>3, <1>4
<1> QED
  BY <1>1, <1>4, <1>5, <1>6 DEF AllAlike

\* The blocks are rendered one after the other,
LEMMA ShownNext ==
  ASSUME NEW bs \in Seq(Block), NEW n \in Nat, n + 1 \in DOMAIN bs
  PROVE  Shown(bs, n + 1) = IF Renders(bs, n + 1)
                            THEN [Shown(bs, n) EXCEPT ![n + 1] = Rendered(bs[n + 1])]
                            ELSE Shown(bs, n)
<1>1. DOMAIN bs = 1 .. Len(bs) /\ Len(bs) \in Nat
  BY LenProperties
<1>2. \A i \in DOMAIN bs : i <= n + 1 <=> (i <= n \/ i = n + 1)
  BY <1>1
<1>3. CASE ~ Renders(bs, n + 1)
  <2>1. \A i \in DOMAIN bs : (i <= n + 1 /\ Renders(bs, i)) <=> (i <= n /\ Renders(bs, i))
    BY <1>2, <1>3
  <2>2. Shown(bs, n + 1) = Shown(bs, n)
    BY <2>1 DEF Shown
  <2> QED
    BY <1>3, <2>2
<1>4. CASE Renders(bs, n + 1)
  <2>1. \A i \in DOMAIN bs :
          (IF i <= n + 1 /\ Renders(bs, i) THEN Rendered(bs[i]) ELSE bs[i])
            = IF i = n + 1 THEN Rendered(bs[n + 1])
              ELSE IF i <= n /\ Renders(bs, i) THEN Rendered(bs[i]) ELSE bs[i]
    BY <1>2, <1>4
  <2>2. Shown(bs, n + 1) = [Shown(bs, n) EXCEPT ![n + 1] = Rendered(bs[n + 1])]
    BY <2>1 DEF Shown
  <2> QED
    BY <1>4, <2>2
<1> QED
  BY <1>3, <1>4

\* beginning with none,
LEMMA ShownNone ==
  ASSUME NEW bs \in Seq(Block)
  PROVE  Shown(bs, 0) = bs
<1>1. DOMAIN bs = 1 .. Len(bs) /\ Len(bs) \in Nat
  BY LenProperties
<1>2. \A i \in 1 .. Len(bs) : Shown(bs, 0)[i] = bs[i]
  BY <1>1, ShownFacts
<1> QED
  BY <1>1, <1>2, ShownFacts, SeqEqual

\* and so are their events.
LEMMA EventsNext ==
  ASSUME NEW bs \in Seq(Block), \A i \in DOMAIN bs : bs[i].sent <= Len(bs[i].text),
         NEW n \in Nat, n + 1 \in DOMAIN bs
  PROVE  EventsOf(bs, n + 1) = EventsOf(bs, n) \o Part(bs, n + 1)
<1> DEFINE ss == [i \in 1 .. n |-> Part(bs, i)]
           tt == [i \in 1 .. n + 1 |-> Part(bs, i)]
           s == Part(bs, n + 1)
<1>1. \A i \in 1 .. n + 1 : Part(bs, i) \in Seq(EventSet)
  <2>1. DOMAIN bs = 1 .. Len(bs) /\ Len(bs) \in Nat
    BY LenProperties
  <2>2. \A i \in 1 .. n + 1 : i \in DOMAIN bs
    BY <2>1
  <2> QED
    BY <2>2, PartType
<1>2. ss \in Seq(Seq(EventSet)) /\ Len(ss) = n /\ tt \in Seq(Seq(EventSet)) /\ Len(tt) = n + 1
      /\ s \in Seq(EventSet)
  BY <1>1
<1>3. tt = Append(ss, s)
  <2>1. /\ Append(ss, s) \in Seq(Seq(EventSet)) /\ Len(Append(ss, s)) = n + 1
        /\ \A i \in 1 .. n : Append(ss, s)[i] = ss[i]
        /\ Append(ss, s)[n + 1] = s
    <3> HIDE DEF ss, s
    <3> QED
      BY <1>2, AppendProperties
  <2>2. \A i \in 1 .. n + 1 : tt[i] = Append(ss, s)[i]
    <3> TAKE i \in 1 .. n + 1
    <3>1. CASE i = n + 1
      BY <2>1, <3>1
    <3>2. CASE i # n + 1
      <4>1. i \in 1 .. n
        BY <3>2
      <4>2. tt[i] = ss[i]
        BY <4>1
      <4> QED
        BY <2>1, <4>1, <4>2
    <3> QED
      BY <3>1, <3>2
  <2> HIDE DEF ss, tt
  <2> QED
    BY <1>2, <2>1, <2>2, SeqEqual
<1> HIDE DEF ss, tt, s
<1>4. FlattenSeq(tt) = FlattenSeq(ss) \o s
  BY <1>2, <1>3, FlattenAppend
<1> QED
  BY <1>4 DEF EventsOf, ss, tt, s

\* A block's turn has come when the blocks before it were rendered.
LEMMA TurnComes ==
  ASSUME NEW f, NEW s, NEW bs \in Seq(Block), NoToolTwice(f, bs), Texts(f, s, bs), Sound(f, to, bs),
         NEW n \in Nat, n + 1 \in DOMAIN bs, Reached(bs, n + 1)
  PROVE  InTurnNow(f, to, Shown(bs, n), n + 1)
<1> DEFINE cs == Shown(bs, n)
<1>1. /\ DOMAIN cs = DOMAIN bs /\ AllAlike(bs, cs)
      /\ \A i \in DOMAIN bs :
           cs[i] = IF i <= n /\ Renders(bs, i) THEN Rendered(bs[i]) ELSE bs[i]
  BY ShownFacts
<1> HIDE DEF cs
<1>2. /\ DOMAIN bs = 1 .. Len(bs) /\ Len(bs) \in Nat /\ \A i \in DOMAIN bs : bs[i] \in Block
  BY LenProperties
<1> SUFFICES ASSUME NEW j \in DOMAIN bs, j < n + 1
             PROVE  /\ to = "anthropic" => cs[j].ended
                    /\ SlotOf(f, cs[n + 1]) = SlotOf(f, cs[j]) => cs[j].sent = Len(cs[j].text)
  BY <1>1 DEF InTurnNow, cs
<1>3. j <= n /\ j \in 1 .. (n + 1) - 1
  BY <1>2
<1>4. Reached(bs, j)
  <2>1. \A k \in 1 .. j - 1 : k \in 1 .. (n + 1) - 1
    BY <1>2, <1>3
  <2> QED
    BY <2>1 DEF Reached
<1>5. cs[j].text = bs[j].text
  BY <1>1 DEF AllAlike, Alike
<1>6. CASE bs[j].ended
  <2>1. cs[j] = bs[j]
    BY <1>1, <1>6 DEF Renders
  <2> QED
    BY <1>6, <2>1 DEF Sound, Progress
<1>7. CASE ~ bs[j].ended /\ ~ IsHidden(bs[j])
  <2>1. cs[j] = Rendered(bs[j])
    BY <1>1, <1>3, <1>4, <1>7 DEF Renders
  <2>2. cs[j].sent = Len(bs[j].text) /\ cs[j].ended = bs[j].done
    BY <1>2, <2>1, RenderedBlock
  <2>3. to = "anthropic" => bs[j].done
    BY <1>3 DEF Reached, HoldsBack
  <2> QED
    BY <1>5, <2>2, <2>3
<1>8. CASE ~ bs[j].ended /\ IsHidden(bs[j])
  <2>1. to # "anthropic"
    BY <1>3, <1>8 DEF Reached, HoldsBack
  <2>2. SlotOf(f, cs[n + 1]) = SlotOf(f, bs[n + 1]) /\ SlotOf(f, cs[j]) = SlotOf(f, bs[j])
    BY <1>1 DEF AllAlike, Alike, SlotOf
  <2>3. SlotOf(f, bs[n + 1]) # SlotOf(f, bs[j])
    <3>1. j # n + 1 /\ bs[j].kind = "tool"
      BY <1>3, <1>8 DEF IsHidden
    <3> QED
      BY <3>1 DEF NoToolTwice
  <2> QED
    BY <2>1, <2>2, <2>3
<1> QED
  BY <1>6, <1>7, <1>8

\* Keys differ, and so a tool has its slot for itself.
LEMMA NoTool ==
  ASSUME NEW f, NEW s, NEW bs, Texts(f, s, bs)
  PROVE  NoToolTwice(f, bs)
<1> SUFFICES ASSUME NEW i \in DOMAIN bs, NEW j \in DOMAIN bs, i # j,
                    SlotOf(f, bs[i]) = SlotOf(f, bs[j]), bs[i].kind = "tool"
             PROVE  FALSE
  BY DEF NoToolTwice
<1>1. bs[i].key # bs[j].key
  BY DEF Texts, OneKey
<1>2. f = "chat" /\ bs[j].kind # "tool"
  BY <1>1 DEF SlotOf
<1>3. bs[i].key = <<"tool", bs[i].key[2]>>
  BY <1>2 DEF Texts, KeyOfKind
<1>4. bs[i].key = <<bs[j].kind, 0>>
  BY <1>2 DEF SlotOf
<1> QED
  BY <1>2, <1>3, <1>4

\* Rendering all blocks, one after the other, keeps the events and the blocks
\* as they should be: induction over the number of blocks rendered.
LEMMA RenderBlocks ==
  ASSUME NEW f, NEW s, NEW c, NEW bs, Stage(f, s, c, bs)
  PROVE  /\ EventsOf(bs, Len(bs)) \in Seq(BlockEvent) /\ EventsOf(bs, Len(bs)) \in Seq(EventSet)
         /\ Stage(f, s, c \o EventsOf(bs, Len(bs)), Shown(bs, Len(bs)))
<1>1. /\ c \in Seq(EventSet) /\ bs \in Seq(Block) /\ Texts(f, s, bs) /\ Sound(f, to, bs)
      /\ DOMAIN bs = 1 .. Len(bs) /\ Len(bs) \in Nat
      /\ NoToolTwice(f, bs)
      /\ \A i \in DOMAIN bs : bs[i].sent <= Len(bs[i].text)
  BY NoTool, LenProperties DEF Stage, Core, Sound, Progress
<1> DEFINE P(n) == /\ EventsOf(bs, n) \in Seq(BlockEvent) /\ EventsOf(bs, n) \in Seq(EventSet)
                   /\ Stage(f, s, c \o EventsOf(bs, n), Shown(bs, n))
           Good == {n \in Nat : n <= Len(bs) => P(n)}
<1>2. 0 \in Good
  <2>1. [i \in 1 .. 0 |-> Part(bs, i)] = <<>>
    OBVIOUS
  <2>2. EventsOf(bs, 0) = <<>>
    BY <2>1, FlattenEmpty DEF EventsOf
  <2>3. c \o <<>> = c
    BY <1>1, NoEvent
  <2>4. <<>> \in Seq(EventSet) /\ <<>> \in Seq(BlockEvent)
    OBVIOUS
  <2> QED
    BY <1>1, <2>2, <2>3, <2>4, ShownNone
<1>3. ASSUME NEW n \in Nat, n + 1 <= Len(bs), P(n) PROVE P(n + 1)
  <2> DEFINE es == EventsOf(bs, n)
             p == Part(bs, n + 1)
             xs == Shown(bs, n)
             d == c \o es
  <2>1. n + 1 \in DOMAIN bs
    BY <1>1, <1>3
  <2>2. /\ es \in Seq(EventSet) /\ p \in Seq(EventSet)
        /\ es \in Seq(BlockEvent) /\ p \in Seq(BlockEvent)
    BY <1>1, <1>3, <2>1, PartType
  <2>3. EventsOf(bs, n + 1) = es \o p
    BY <1>1, <2>1, EventsNext
  <2>4. Stage(f, s, d, xs)
    BY <1>3
  <2>5. /\ xs \in Seq(Block) /\ DOMAIN xs = DOMAIN bs /\ AllAlike(bs, xs)
        /\ xs[n + 1] = bs[n + 1]
    <3>1. ~ (n + 1 <= n)
      OBVIOUS
    <3> QED
      BY <1>1, <2>1, <3>1, ShownFacts
  <2>6. CASE ~ Renders(bs, n + 1)
    <3>1. p = <<>>
      BY <2>6 DEF Part
    <3>2. EventsOf(bs, n + 1) = es
      BY <2>2, <2>3, <3>1, ConcatEmptySeq
    <3>3. Shown(bs, n + 1) = xs
      BY <1>1, <2>1, <2>6, ShownNext
    <3> QED
      BY <2>2, <2>4, <3>2, <3>3
  <2>7. CASE Renders(bs, n + 1)
    <3>1. Shown(bs, n + 1) = [xs EXCEPT ![n + 1] = Rendered(xs[n + 1])]
      BY <1>1, <2>1, <2>5, <2>7, ShownNext
    <3>2. p = BlockEvents(xs, n + 1)
      <4>1. Number(to, xs, n + 1) = Number(to, bs, n + 1)
        BY <1>1, <2>1, <2>5, AlikeNumber
      <4>2. Index(xs, n + 1) = Index(bs, n + 1)
        BY <2>5, <4>1 DEF Index, Number
      <4>3. p = BlockEvents(bs, n + 1)
        BY <2>7 DEF Part
      <4>4. BlockEvents(xs, n + 1) = BlockEvents(bs, n + 1)
        BY <2>5, <4>2 DEF BlockEvents, startBlock, delta, endBlock, Event, ClientKind
      <4> QED
        BY <4>3, <4>4
    <3>3. InTurnNow(f, to, xs, n + 1)
      BY <1>1, <2>1, <2>7, TurnComes DEF Renders
    <3>4. ~ IsHidden(xs[n + 1]) /\ ~ xs[n + 1].ended
      BY <2>5, <2>7 DEF Renders
    <3> HIDE DEF xs, d, p
    <3>5. Stage(f, s, d \o p, Shown(bs, n + 1))
      <4> DEFINE m == n + 1
      <4>1. /\ m \in DOMAIN xs /\ Stage(f, s, d, xs) /\ InTurnNow(f, to, xs, m)
            /\ ~ IsHidden(xs[m]) /\ ~ xs[m].ended
        BY <2>1, <2>4, <2>5, <3>3, <3>4
      <4>2. p = BlockEvents(xs, m) /\ Shown(bs, m) = [xs EXCEPT ![m] = Rendered(xs[m])]
        BY <3>1, <3>2
      <4> HIDE DEF m
      <4>3. Stage(f, s, d \o BlockEvents(xs, m), [xs EXCEPT ![m] = Rendered(xs[m])])
        BY <4>1, OneBlock
      <4>4. Stage(f, s, d \o p, Shown(bs, m))
        BY <4>2, <4>3
      <4> QED
        BY <4>4 DEF m
    <3>6. d \o p = c \o (es \o p)
      <4> HIDE DEF es
      <4>1. Associates(c, es, p)
        BY <1>1, <2>2, ConcatTwo
      <4> QED
        BY Zenon, <4>1 DEF d, Associates
    <3>7. es \o p \in Seq(EventSet) /\ es \o p \in Seq(BlockEvent)
      <4> HIDE DEF es
      <4> QED
        BY <2>2, ConcatProperties
    <3> QED
      BY <2>3, <3>5, <3>6, <3>7
  <2> QED
    BY <2>6, <2>7
<1>4. \A n \in Nat : n \in Good => n + 1 \in Good
  <2> HIDE DEF P
  <2> SUFFICES ASSUME NEW n \in Nat, n \in Good, n + 1 <= Len(bs) PROVE P(n + 1)
    OBVIOUS
  <2>1. n <= Len(bs)
    BY <1>1
  <2> QED
    BY <1>3, <2>1
<1>5. Nat \subseteq Good
  <2> HIDE DEF Good
  <2> QED
    BY <1>2, <1>4, Induction
<1>6. P(Len(bs))
  <2> HIDE DEF P
  <2> QED
    BY <1>1, <1>5
<1> QED
  BY <1>6

-----------------------------------------------------------------------------
(* The first and the last event. *)

\* An event that is not about a block leaves the tie between the events and the
\* blocks as it was.
LEMMA PlainTied ==
  ASSUME NEW t, NEW c, NEW e, NEW d, More(c, e, d), NEW bs, Tied(t, c, bs), ~ IsOfBlock(e)
  PROVE  Tied(t, d, bs)
<1>1. /\ DOMAIN c = 1 .. Len(c) /\ DOMAIN d = 1 .. Len(c) + 1
      /\ Len(c) \in Nat /\ Len(d) = Len(c) + 1
      /\ \A k \in DOMAIN c : d[k] = c[k]
      /\ d[Len(c) + 1] = e
      /\ DOMAIN c \subseteq DOMAIN d
      /\ \A k \in DOMAIN d : k \in DOMAIN c \/ k = Len(c) + 1
  BY DEF More
<1>2. Owned(t, d, bs)
  BY <1>1 DEF Tied, Owned
<1>3. Opened(t, d, bs)
  BY <1>1 DEF Tied, Opened
<1>4. Closed(t, d, bs)
  BY <1>1 DEF Tied, Closed
<1>5. AllHeard(d, bs)
  BY Kept DEF Tied, AllHeard
<1>6. AllStreamed(t, d, bs)
  <2> SUFFICES ASSUME t = "responses", NEW n \in Nat
               PROVE  StreamedIn(d, Len(d), n) =
                        IF n + 1 \in DOMAIN bs THEN SubSeq(bs[n+1].text, 1, bs[n+1].sent) ELSE <<>>
    BY DEF AllStreamed
  <2>1. ~ (e.type = "delta" /\ e.index = n)
    BY DEF IsOfBlock
  <2>2. StreamedIn(d, Len(c) + 1, n) = StreamedIn(c, Len(c), n) \o <<>>
    BY <2>1, StreamedMore
  <2>3. StreamedIn(c, Len(c), n) =
          IF n + 1 \in DOMAIN bs THEN SubSeq(bs[n+1].text, 1, bs[n+1].sent) ELSE <<>>
    BY DEF Tied, AllStreamed
  <2> QED
    BY <1>1, <2>2, <2>3
<1> QED
  BY <1>2, <1>3, <1>4, <1>5, <1>6 DEF Tied

\* All of the blocks were sent, and have ended.
AllDone(bs) == \A i \in DOMAIN bs : bs[i].started /\ bs[i].ended /\ bs[i].sent = Len(bs[i].text)

\* An event that is neither about a block nor the last may follow at any time.
LEMMA PlainProper ==
  ASSUME NEW f, NEW t, NEW s, NEW c, NEW e, NEW d, More(c, e, d), Proper(f, t, s, c),
         ~ IsOfBlock(e), e.type # "finish"
  PROVE  Proper(f, t, s, d)
<1>1. Follows(f, t, c, e)
  BY DEF Follows, IsOfBlock
<1>2. InOrder(s, d)
  BY InOrderKept DEF Proper, IsOfBlock
<1> QED
  BY <1>1, <1>2, ProperSoFar

\* The last event may follow when all blocks have ended.
LEMMA FinishProper ==
  ASSUME NEW f, NEW t, NEW s, NEW c, NEW e, NEW d, More(c, e, d), NEW bs \in Seq(Block),
         Tied(t, c, bs), Proper(f, t, s, c), AllDone(bs), e.type = "finish",
         (t = "responses" /\ f # t) => e.output = [i \in DOMAIN bs |-> bs[i].text]
  PROVE  Proper(f, t, s, d)
<1>1. \A type, n : BeforeIn(c, Len(c) + 1, type, n)
                     <=> \E j \in DOMAIN c : c[j].type = type /\ c[j].index = n
  BY BeforeNext DEF More
<1>2. DOMAIN c = 1 .. Len(c)
  BY DEF More
<1>3. ASSUME t # "chat", NEW i \in DOMAIN bs PROVE BeforeIn(c, Len(c) + 1, "close", i - 1)
  <2>1. \E k \in DOMAIN c : c[k].type = "close" /\ c[k].index = Number(t, bs, i)
    BY <1>3 DEF Tied, Closed, AllDone
  <2>2. Number(t, bs, i) = i - 1
    BY <1>3 DEF Number
  <2> QED
    BY <1>1, <2>1, <2>2
<1>4. ASSUME t = "anthropic", NEW j \in 1 .. Len(c), c[j].type = "open"
      PROVE  BeforeIn(c, Len(c) + 1, "close", c[j].index)
  <2>1. PICK i \in DOMAIN bs : Tells(t, c[j], bs, i)
    BY <1>2, <1>4 DEF Tied, Owned, IsOfBlock
  <2>2. c[j].index = i - 1
    BY <1>4, <2>1 DEF Tells, Number
  <2> QED
    BY <1>3, <1>4, <2>2
<1>5. ASSUME t = "responses", f # t, NEW j \in 1 .. Len(c), c[j].type = "close"
      PROVE  c[j].index + 1 \in DOMAIN e.output
  <2>1. PICK i \in DOMAIN bs : Tells(t, c[j], bs, i)
    BY <1>2, <1>5 DEF Tied, Owned, IsOfBlock
  <2>2. c[j].index = i - 1 /\ i \in Nat
    BY <1>5, <2>1, LenProperties DEF Tells, Number
  <2>3. c[j].index + 1 = i
    BY <2>2
  <2> QED
    BY <1>5, <2>3
<1>6. ASSUME t = "responses", f # t, NEW i \in DOMAIN e.output
      PROVE  /\ BeforeIn(c, Len(c) + 1, "close", i - 1)
             /\ e.output[i] = StreamedIn(c, Len(c), i - 1)
  <2>1. i \in DOMAIN bs /\ e.output[i] = bs[i].text
    BY <1>6
  <2>2. bs[i] \in Block /\ i \in Nat \ {0}
    BY <2>1, LenProperties
  <2>3. bs[i].text \in Seq(Int)
    BY <2>2 DEF Block
  <2>4. i - 1 \in Nat /\ (i - 1) + 1 = i
    BY <2>2
  <2>5. StreamedIn(c, Len(c), i - 1) = SubSeq(bs[i].text, 1, bs[i].sent)
    BY <1>6, <2>1, <2>4 DEF Tied, AllStreamed
  <2>6. bs[i].sent = Len(bs[i].text)
    BY <2>1 DEF AllDone
  <2> QED
    BY <1>3, <1>6, <2>1, <2>3, <2>5, <2>6, SubSeqFull
<1>7. Follows(f, t, c, e)
  BY <1>4, <1>5, <1>6 DEF Follows, IsOfBlock
<1>8. InOrder(s, d)
  BY InOrderKept DEF Proper
<1> QED
  BY <1>7, <1>8, ProperSoFar

\* Adding an event that is neither about a block nor the last.
LEMMA PlainStage ==
  ASSUME NEW f, NEW s, NEW c, NEW bs, Stage(f, s, c, bs),
         NEW e \in EventSet, ~ IsOfBlock(e), e.type # "finish"
  PROVE  Stage(f, s, c \o <<e>>, bs)
<1> DEFINE d == c \o <<e>>
<1>1. c \in Seq(EventSet) /\ bs \in Seq(Block) /\ Core(f, to, s, c, bs)
  BY DEF Stage
<1>2. d \in Seq(EventSet) /\ More(c, e, d)
  BY <1>1, OneEvent
<1> HIDE DEF d
<1>3. Tied(to, d, bs)
  BY <1>1, <1>2, PlainTied DEF Core
<1>4. Proper(f, to, s, d)
  BY <1>1, <1>2, PlainProper DEF Core
<1>5. Stage(f, s, d, bs)
  BY <1>1, <1>2, <1>3, <1>4 DEF Stage, Core
<1> QED
  BY <1>5 DEF d

\* Adding the last event.
LEMMA FinishStage ==
  ASSUME NEW f, NEW s, NEW c, NEW bs, Stage(f, s, c, bs), AllDone(bs),
         NEW e \in EventSet, e.type = "finish",
         (to = "responses" /\ f # to) => e.output = [i \in DOMAIN bs |-> bs[i].text]
  PROVE  Stage(f, s, c \o <<e>>, bs)
<1> DEFINE d == c \o <<e>>
<1>1. c \in Seq(EventSet) /\ bs \in Seq(Block) /\ Core(f, to, s, c, bs)
  BY DEF Stage
<1>2. d \in Seq(EventSet) /\ More(c, e, d)
  BY <1>1, OneEvent
<1> HIDE DEF d
<1>3. Tied(to, d, bs)
  BY <1>1, <1>2, PlainTied DEF Core, IsOfBlock
<1>4. Proper(f, to, s, d)
  BY <1>1, <1>2, FinishProper DEF Core
<1>5. Stage(f, s, d, bs)
  BY <1>1, <1>2, <1>3, <1>4 DEF Stage, Core
<1> QED
  BY <1>5 DEF d

\* What is rendered of a block when its turn has come.
LEMMA RenderedAll ==
  ASSUME NEW bs \in Seq(Block), NEW i \in DOMAIN bs, Progress(bs[i]),
         Reached(bs, i), ~ IsHidden(bs[i])
  PROVE  LET d == Shown(bs, Len(bs))[i]
         IN  d.sent = Len(d.text) /\ (bs[i].done => d.started /\ d.ended)
<1> DEFINE d == Shown(bs, Len(bs))[i]
<1>1. bs[i] \in Block /\ Len(bs) \in Nat /\ i <= Len(bs)
  BY LenProperties
<1>2. d = (IF i <= Len(bs) /\ Renders(bs, i) THEN Rendered(bs[i]) ELSE bs[i]) /\ Alike(bs[i], d)
  BY <1>1, ShownFacts DEF AllAlike
<1> HIDE DEF d
<1>3. CASE bs[i].ended
  <2>1. d = bs[i]
    BY <1>2, <1>3 DEF Renders
  <2> QED
    BY <1>3, <2>1 DEF Progress, d
<1>4. CASE ~ bs[i].ended
  <2>1. d = Rendered(bs[i])
    BY <1>1, <1>2, <1>4 DEF Renders
  <2>2. d.started /\ d.sent = Len(bs[i].text) /\ d.ended = bs[i].done /\ d.text = bs[i].text
    BY <1>1, <1>2, <2>1, RenderedBlock DEF Alike
  <2> QED
    BY <2>2 DEF d
<1> QED
  BY <1>3, <1>4

\* An answer that is whole holds nothing back: a tool that is not named breaks it.
LEMMA AllReached ==
  ASSUME NEW bs \in Seq(Block), \A i \in DOMAIN bs : bs[i].done, ~ Broken(bs, TRUE)
  PROVE  \A i \in DOMAIN bs : Reached(bs, i) /\ ~ IsHidden(bs[i])
<1> DEFINE H == {i \in DOMAIN bs : IsHidden(bs[i])}
<1>1. DOMAIN bs = 1 .. Len(bs) /\ Len(bs) \in Nat
  BY LenProperties
<1>2. \A i \in DOMAIN bs : \A j \in 1 .. i - 1 : j \in DOMAIN bs /\ j < i
  BY <1>1
<1>3. ASSUME H # {} PROVE FALSE
  <2>1. PICK m \in H : \A k \in H : m <= k
    <3>1. H \in SUBSET Nat
      BY <1>1
    <3> HIDE DEF H
    <3> QED
      BY <1>3, <3>1, LeastOf
  <2>2. m \in DOMAIN bs /\ IsHidden(bs[m]) /\ m \in Nat
    BY <1>1, <2>1
  <2>3. \A j \in 1 .. m - 1 : ~ IsHidden(bs[j]) /\ bs[j].done
    <3> TAKE j \in 1 .. m - 1
    <3>1. j \in DOMAIN bs /\ ~ (m <= j)
      BY <1>1, <1>2, <2>2
    <3> QED
      BY <2>1, <3>1
  <2>4. Reached(bs, m)
    BY <2>3 DEF Reached, HoldsBack
  <2> QED
    BY <2>2, <2>4 DEF Broken, IsHidden
<1>4. \A i \in DOMAIN bs : ~ IsHidden(bs[i])
  BY <1>3
<1>5. \A i \in DOMAIN bs : Reached(bs, i)
  BY <1>2, <1>4 DEF Reached, HoldsBack
<1> QED
  BY <1>4, <1>5

\* The events have no ending.
NoFinish(c) == \A k \in DOMAIN c : c[k].type # "finish"
\* The answer ended with the upstream's reason.
EndedFor(c, reason) ==
  /\ c # <<>> /\ c[Len(c)].type = "finish"
  /\ \A k \in DOMAIN c : c[k].type = "finish" => k = Len(c)
  /\ (c[Len(c)].reason = "length") <=> (reason = "length")

\* Events without an ending, one after the other, have none.
LEMMA NoFinishMore ==
  ASSUME NEW c \in Seq(EventSet), NoFinish(c), NEW es \in Seq(EventSet), NoFinish(es)
  PROVE  NoFinish(c \o es)
<1>1. /\ DOMAIN c = 1 .. Len(c) /\ Len(c) \in Nat
      /\ DOMAIN es = 1 .. Len(es) /\ Len(es) \in Nat
  BY LenProperties
<1>2. /\ DOMAIN (c \o es) = 1 .. Len(c) + Len(es)
      /\ \A k \in 1 .. Len(c) + Len(es) : (c \o es)[k] = IF k <= Len(c) THEN c[k] ELSE es[k - Len(c)]
  <2> DEFINE w == c \o es
  <2>1. /\ w \in Seq(EventSet) /\ Len(w) = Len(c) + Len(es)
        /\ \A k \in 1 .. Len(c) + Len(es) : w[k] = IF k <= Len(c) THEN c[k] ELSE es[k - Len(c)]
    BY ConcatProperties
  <2> HIDE DEF w
  <2>2. DOMAIN w = 1 .. Len(w)
    BY <2>1, LenProperties
  <2> QED
    BY <2>1, <2>2 DEF w
<1> SUFFICES ASSUME NEW k \in 1 .. Len(c) + Len(es) PROVE (c \o es)[k].type # "finish"
  BY <1>2 DEF NoFinish
<1>3. CASE k <= Len(c)
  BY <1>1, <1>2, <1>3 DEF NoFinish
<1>4. CASE ~ (k <= Len(c))
  <2>1. k - Len(c) \in DOMAIN es
    BY <1>1, <1>4
  <2> QED
    BY <1>2, <1>4, <2>1 DEF NoFinish
<1> QED
  BY <1>3, <1>4

\* At the end of the answer all blocks are done.
Whole(bs, final) == final => \A i \in DOMAIN bs : bs[i].done

\* render, when it does not fail: the events and the blocks are as they should
\* be, and the answer has an ending if it is the last call.
LEMMA RenderStep ==
  ASSUME NEW s, NEW bs, NEW reason \in Reasons, NEW final \in BOOLEAN,
         render(bs, reason, final), ~ Broken(bs, final), Stage(from, s, client, bs),
         started \in BOOLEAN, NoFinish(client),
         Whole(bs, final)
  PROVE  /\ Stage(from, s, client', blocks')
         /\ blocks' = Shown(bs, Len(bs)) /\ started' = TRUE
         /\ outcome' = IF final THEN "finished" ELSE "open"
         /\ ~ final => NoFinish(client')
         /\ final => EndedFor(client', reason) /\ AllDone(blocks')
<1> DEFINE c1 == client \o Opening
           es == AllBlockEvents(bs)
           c2 == c1 \o es
           ds == Shown(bs, Len(bs))
<1>1. /\ client \in Seq(EventSet) /\ bs \in Seq(Block) /\ Sound(from, to, bs)
      /\ DOMAIN bs = 1 .. Len(bs) /\ Len(bs) \in Nat
  BY LenProperties DEF Stage, Core
<1>2. /\ started' = TRUE /\ outcome' = IF final THEN "finished" ELSE "open"
      /\ client' = c2 \o (IF final THEN Ending(bs, reason) ELSE <<>>)
  BY DEF render
<1>3. blocks' = ds
  <2>1. blocks' = [i \in DOMAIN bs |-> IF Renders(bs, i) THEN Rendered(bs[i]) ELSE bs[i]]
    BY DEF render
  <2>2. \A i \in DOMAIN bs : i <= Len(bs)
    BY <1>1
  <2> QED
    BY <2>1, <2>2 DEF Shown
<1>4. es = EventsOf(bs, Len(bs))
  BY <1>1 DEF AllBlockEvents, EventsOf, Part
<1>5. Stage(from, s, c1, bs) /\ NoFinish(c1)
  <2>1. CASE started
    <3>1. c1 = client
      BY <1>1, <2>1, NoEvent DEF Opening
    <3> HIDE DEF c1
    <3> QED
      BY <3>1
  <2>2. CASE ~ started
    <3> DEFINE e == [type |-> "start"]
    <3>1. c1 = client \o <<e>>
      BY <2>2 DEF Opening
    <3>2. e \in EventSet /\ e.type = "start"
      BY DEF EventSet
    <3> HIDE DEF e
    <3>3. ~ IsOfBlock(e) /\ e.type # "finish" /\ <<e>> \in Seq(EventSet) /\ NoFinish(<<e>>)
      BY <3>2 DEF IsOfBlock, NoFinish
    <3>4. Stage(from, s, client \o <<e>>, bs)
      BY <3>2, <3>3, PlainStage
    <3>5. NoFinish(client \o <<e>>)
      BY <1>1, <3>3, NoFinishMore
    <3> HIDE DEF c1
    <3> QED
      BY <3>1, <3>4, <3>5
  <2> QED
    BY <2>1, <2>2
<1>6. c1 \in Seq(EventSet)
  BY <1>5 DEF Stage
<1> HIDE DEF c1, es, ds
<1>7. es \in Seq(BlockEvent) /\ es \in Seq(EventSet) /\ Stage(from, s, c2, ds)
  BY <1>4, <1>5, RenderBlocks DEF ds
<1>8. NoFinish(c2)
  <2>1. NoFinish(es)
    <3>1. \A k \in DOMAIN es : es[k] \in BlockEvent
      BY <1>7, LenProperties
    <3> QED
      BY <3>1 DEF NoFinish, BlockEvent
  <2> QED
    BY <1>5, <1>6, <1>7, <2>1, NoFinishMore
<1> HIDE DEF c2
<1>9. c2 \in Seq(EventSet)
  BY <1>7 DEF Stage
<1>10. CASE final = FALSE
  <2>1. client' = c2
    BY <1>2, <1>9, <1>10, NoEvent
  <2> QED
    BY <1>2, <1>3, <1>7, <1>8, <1>10, <2>1 DEF ds
<1>11. CASE final = TRUE
  <2> DEFINE out == IF to = "responses" THEN [i \in DOMAIN bs |-> bs[i].text] ELSE <<>>
             e == [type |-> "finish", reason |-> Reason(bs, reason), output |-> out]
             d == c2 \o <<e>>
  <2>1. client' = d
    BY <1>2, <1>11 DEF Ending
  <2>2. out \in Seq(Seq(Int))
    <3>1. \A i \in DOMAIN bs : bs[i].text \in Seq(Int)
      <4>1. \A i \in DOMAIN bs : bs[i] \in Block
        BY <1>1
      <4> QED
        BY <4>1 DEF Block
    <3>2. [i \in 1 .. Len(bs) |-> bs[i].text] \in Seq(Seq(Int))
      BY <1>1, <3>1
    <3>3. <<>> \in Seq(Seq(Int))
      OBVIOUS
    <3> QED
      BY <1>1, <3>2, <3>3
  <2>3. Reason(bs, reason) \in {"length", "content_filter", "tool_calls", "stop"} /\ (Reason(bs, reason) = "length" <=> reason = "length")
    <3>1. \/ Reason(bs, reason) = reason /\ reason \in {"length", "content_filter"}
          \/ Reason(bs, reason) \in {"tool_calls", "stop"} /\ reason \notin {"length", "content_filter"}
      BY Zenon DEF Reason
    <3>3. {"tool_calls", "stop"} \cap {"length"} = {}
      OBVIOUS
    <3> QED
      BY <3>1, <3>3
  <2>4. /\ e \in EventSet /\ e.type = "finish" /\ e.output = out
        /\ e.reason = "length" <=> reason = "length"
    <3> HIDE DEF out
    <3> QED
      BY <2>2, <2>3 DEF EventSet
  <2>5. AllDone(ds)
    <3>1. DOMAIN ds = DOMAIN bs
      BY <1>1, ShownFacts DEF ds
    <3>2. \A i \in DOMAIN bs : Reached(bs, i) /\ ~ IsHidden(bs[i]) /\ bs[i].done
      <4>1. (\A i \in DOMAIN bs : bs[i].done) /\ ~ Broken(bs, TRUE)
        BY <1>11 DEF Whole
      <4> QED
        BY <1>1, <4>1, AllReached
    <3>3. \A i \in DOMAIN bs : Progress(bs[i])
      BY <1>1 DEF Sound
    <3>4. \A i \in DOMAIN bs : ds[i].sent = Len(ds[i].text) /\ ds[i].started /\ ds[i].ended
      BY <1>1, <3>2, <3>3, RenderedAll DEF ds
    <3> QED
      BY <3>1, <3>4 DEF AllDone
  <2>6. to = "responses" => e.output = [i \in DOMAIN ds |-> ds[i].text]
    <3>1. DOMAIN ds = DOMAIN bs /\ \A i \in DOMAIN bs : ds[i].text = bs[i].text
      BY <1>1, ShownFacts DEF ds, AllAlike, Alike
    <3> HIDE DEF e
    <3> QED
      BY <2>4, <3>1
  <2> HIDE DEF e
  <2>7. Stage(from, s, d, ds)
    BY <1>7, <2>4, <2>5, <2>6, FinishStage
  <2>8. EndedFor(d, reason)
    <3>1. d \in Seq(EventSet) /\ More(c2, e, d)
      BY <1>9, <2>4, OneEvent
    <3> HIDE DEF d
    <3>2. d # <<>>
      BY <3>1 DEF More
    <3>3. d[Len(d)] = e
      BY <3>1 DEF More
    <3>4. \A k \in DOMAIN d : d[k].type = "finish" => k = Len(d)
      <4>1. \A k \in DOMAIN d : k # Len(d) => k \in DOMAIN c2 /\ d[k] = c2[k]
        BY <3>1 DEF More
      <4> QED
        BY <1>8, <4>1 DEF NoFinish
    <3> QED
      BY <2>4, <3>2, <3>3, <3>4 DEF EndedFor
  <2> QED
    BY <1>2, <1>3, <1>11, <2>1, <2>5, <2>7, <2>8 DEF ds
<1> QED
  BY <1>10, <1>11

-----------------------------------------------------------------------------
(* Before the rendering: what the upstream said changes the blocks. *)

\* Block b became d: it may have more text and be done, and nothing was sent.
Grown(b, d) ==
  /\ d.key = b.key /\ d.kind = b.kind /\ b.header \subseteq d.header
  /\ d.started = b.started /\ d.ended = b.ended /\ d.sent = b.sent
  /\ Len(b.text) <= Len(d.text) /\ \A y \in 1 .. Len(b.text) : d.text[y] = b.text[y]
  /\ b.done => d.done /\ d.text = b.text

\* Blocks were added at the end, and the others may have grown.
Edited(bs, cs) ==
  /\ bs \in Seq(Block) /\ cs \in Seq(Block)
  /\ DOMAIN bs \subseteq DOMAIN cs
  /\ \A i \in DOMAIN bs : Grown(bs[i], cs[i])
  /\ \A i \in DOMAIN cs \ DOMAIN bs : ~ cs[i].started /\ ~ cs[i].ended /\ cs[i].sent = 0

\* What an edit leaves of the blocks there were.
LEMMA EditedFacts ==
  ASSUME NEW bs, NEW cs, Edited(bs, cs)
  PROVE  /\ DOMAIN bs = 1 .. Len(bs) /\ Len(bs) \in Nat
         /\ DOMAIN cs = 1 .. Len(cs) /\ Len(cs) \in Nat
         /\ \A i \in DOMAIN bs : i \in DOMAIN cs /\ \A j \in DOMAIN cs : j < i => j \in DOMAIN bs
         /\ \A i \in DOMAIN bs :
              /\ bs[i].text \in Seq(Int) /\ Len(bs[i].text) \in Nat /\ bs[i].sent \in Nat
              /\ cs[i].text \in Seq(Int) /\ Len(cs[i].text) \in Nat
         /\ \A i \in DOMAIN bs : \A f : SlotOf(f, cs[i]) = SlotOf(f, bs[i])
         /\ \A i \in DOMAIN bs : \A t : Number(t, cs, i) = Number(t, bs, i)
<1>1. /\ DOMAIN bs = 1 .. Len(bs) /\ Len(bs) \in Nat
      /\ DOMAIN cs = 1 .. Len(cs) /\ Len(cs) \in Nat
      /\ DOMAIN bs \subseteq DOMAIN cs
  BY LenProperties DEF Edited
<1>2. \A i \in DOMAIN bs : i \in DOMAIN cs /\ \A j \in DOMAIN cs : j < i => j \in DOMAIN bs
  BY <1>1
<1>3. \A b \in Block : b.text \in Seq(Int) /\ Len(b.text) \in Nat /\ b.sent \in Nat
  BY LenProperties DEF Block
<1>4. \A i \in DOMAIN bs : bs[i] \in Block /\ cs[i] \in Block
  BY <1>1 DEF Edited
<1>5. \A i \in DOMAIN bs : \A f : SlotOf(f, cs[i]) = SlotOf(f, bs[i])
  BY DEF Edited, Grown, SlotOf
<1>6. \A i \in 1 .. Len(bs) : cs[i].kind = bs[i].kind
  BY <1>1 DEF Edited, Grown
<1>7. ASSUME NEW t PROVE \A i \in 1 .. Len(bs) : Number(t, cs, i) = Number(t, bs, i)
  BY <1>1, <1>6, NumberStable
<1> QED
  BY <1>1, <1>2, <1>3, <1>4, <1>5, <1>7

\* An edit keeps the order in which blocks are shown,
LEMMA EditSound ==
  ASSUME NEW f, NEW t, NEW bs, NEW cs, Edited(bs, cs), Sound(f, t, bs), Successive(f, bs)
  PROVE  Sound(f, t, cs)
<1>1. ASSUME NEW i \in DOMAIN bs PROVE Progress(cs[i])
  <2>1. Grown(bs[i], cs[i]) /\ Progress(bs[i])
    BY DEF Edited, Sound
  <2>2. ~ IsHidden(bs[i]) => ~ IsHidden(cs[i])
    <3>1. cs[i].kind = bs[i].kind /\ bs[i].header \subseteq cs[i].header
      BY <2>1 DEF Grown
    <3>2. cs[i] \in Block
      BY EditedFacts, LenProperties DEF Edited
    <3>3. cs[i].header \subseteq {"id", "name"}
      BY <3>2 DEF Block
    <3> QED
      BY <3>1, <3>3 DEF IsHidden, IsNamed
  <2>3. cs[i].sent <= Len(cs[i].text)
    <3>1. /\ cs[i].sent = bs[i].sent /\ bs[i].sent <= Len(bs[i].text)
          /\ Len(bs[i].text) <= Len(cs[i].text)
      BY <2>1 DEF Grown, Progress
    <3> QED
      BY <3>1, EditedFacts
  <2>4. cs[i].ended => cs[i].started /\ cs[i].done /\ cs[i].sent = Len(cs[i].text)
    BY <2>1 DEF Grown, Progress
  <2> QED
    BY <2>1, <2>2, <2>3, <2>4 DEF Grown, Progress
<1>2. ASSUME NEW i \in DOMAIN cs \ DOMAIN bs PROVE Progress(cs[i])
  <2>1. ~ cs[i].started /\ ~ cs[i].ended /\ cs[i].sent = 0
    BY DEF Edited
  <2>2. cs[i] \in Block
    BY LenProperties DEF Edited
  <2>3. Len(cs[i].text) \in Nat
    BY <2>2, LenProperties DEF Block
  <2> QED
    BY <2>1, <2>3 DEF Progress
<1>3. ASSUME NEW i \in DOMAIN cs, NEW j \in DOMAIN cs, j < i, cs[i].started
      PROVE  /\ t = "anthropic" => cs[j].ended
             /\ SlotOf(f, cs[i]) = SlotOf(f, cs[j]) => cs[j].sent = Len(cs[j].text)
  <2>1. i \in DOMAIN bs
    BY <1>3 DEF Edited
  <2>2. j \in DOMAIN bs
    BY <1>3, <2>1, EditedFacts
  <2>3. Grown(bs[i], cs[i]) /\ Grown(bs[j], cs[j])
    BY <2>1, <2>2 DEF Edited
  <2>4. bs[i].started
    BY <1>3, <2>3 DEF Grown
  <2>5. t = "anthropic" => cs[j].ended
    BY <1>3, <2>1, <2>2, <2>3, <2>4 DEF Sound, InTurn, Grown
  <2>6. ASSUME SlotOf(f, cs[i]) = SlotOf(f, cs[j]) PROVE cs[j].sent = Len(cs[j].text)
    <3>1. SlotOf(f, bs[i]) = SlotOf(f, bs[j])
      BY <2>1, <2>2, <2>6, EditedFacts
    <3>2. bs[j].sent = Len(bs[j].text) /\ bs[j].done
      BY <1>3, <2>1, <2>2, <2>4, <3>1 DEF Sound, InTurn, Successive
    <3> QED
      BY <2>3, <3>2 DEF Grown
  <2> QED
    BY <2>5, <2>6
<1> QED
  BY <1>1, <1>2, <1>3 DEF Sound, InTurn

\* and the tie between the events and the blocks.
LEMMA EditTied ==
  ASSUME NEW f, NEW t, NEW c, NEW bs, NEW cs, Edited(bs, cs), Tied(t, c, bs), Sound(f, t, bs)
  PROVE  Tied(t, c, cs)
<1>1. /\ DOMAIN bs \subseteq DOMAIN cs
      /\ \A i \in DOMAIN cs : cs[i].started \/ cs[i].ended \/ cs[i].sent # 0 => i \in DOMAIN bs
      /\ \A i \in DOMAIN bs : /\ cs[i].started = bs[i].started /\ cs[i].ended = bs[i].ended
                              /\ cs[i].sent = bs[i].sent
                              /\ Number(t, cs, i) = Number(t, bs, i)
                              /\ \A y \in 1 .. Len(bs[i].text) : cs[i].text[y] = bs[i].text[y]
  <2>1. DOMAIN bs \subseteq DOMAIN cs
    BY DEF Edited
  <2>2. \A i \in DOMAIN cs : cs[i].started \/ cs[i].ended \/ cs[i].sent # 0 => i \in DOMAIN bs
    BY DEF Edited
  <2>3. \A i \in DOMAIN bs : /\ cs[i].started = bs[i].started /\ cs[i].ended = bs[i].ended
                             /\ cs[i].sent = bs[i].sent
                             /\ \A y \in 1 .. Len(bs[i].text) : cs[i].text[y] = bs[i].text[y]
    BY DEF Edited, Grown
  <2>4. \A i \in DOMAIN bs : Number(t, cs, i) = Number(t, bs, i)
    BY EditedFacts
  <2> QED
    BY <2>1, <2>2, <2>3, <2>4
<1>2. ASSUME NEW i \in DOMAIN bs
      PROVE  \A y \in 1 .. bs[i].sent : y \in 1 .. Len(bs[i].text) /\ cs[i].text[y] = bs[i].text[y]
  <2>1. bs[i].sent <= Len(bs[i].text)
    BY DEF Sound, Progress
  <2>2. Len(bs[i].text) \in Nat /\ bs[i].sent \in Nat
    BY EditedFacts
  <2> QED
    BY <1>1, <2>1, <2>2
<1>3. Owned(t, c, cs)
  <2> SUFFICES ASSUME NEW k \in DOMAIN c, IsOfBlock(c[k])
               PROVE  \E j \in DOMAIN cs : Tells(t, c[k], cs, j)
    BY DEF Owned
  <2>1. PICK j \in DOMAIN bs : Tells(t, c[k], bs, j)
    BY DEF Tied, Owned
  <2>2. Tells(t, c[k], cs, j)
    <3>1. c[k].type = "delta" =>
            \A x \in DOMAIN c[k].text : \E y \in 1 .. cs[j].sent : c[k].text[x] = cs[j].text[y]
      BY <1>1, <1>2, <2>1 DEF Tells
    <3> QED
      BY <1>1, <2>1, <3>1 DEF Tells
  <2> QED
    BY <1>1, <2>2
<1>4. Opened(t, c, cs)
  BY <1>1 DEF Tied, Opened
<1>5. Closed(t, c, cs)
  BY <1>1 DEF Tied, Closed
<1>6. AllHeard(c, cs)
  <2> SUFFICES ASSUME NEW i \in DOMAIN cs, NEW y \in 1 .. cs[i].sent, cs[i].text[y] # EmptyInput
               PROVE  IsHeard(c, Abs(cs[i].text[y]))
    BY DEF AllHeard
  <2>1. i \in DOMAIN bs
    <3>1. cs[i].sent # 0
      OBVIOUS
    <3> QED
      BY <1>1, <3>1
  <2>2. y \in 1 .. bs[i].sent /\ cs[i].text[y] = bs[i].text[y]
    BY <1>1, <1>2, <2>1
  <2> QED
    BY <2>1, <2>2 DEF Tied, AllHeard
<1>7. AllStreamed(t, c, cs)
  <2> SUFFICES ASSUME t = "responses", NEW n \in Nat
               PROVE  StreamedIn(c, Len(c), n) =
                        IF n + 1 \in DOMAIN cs THEN SubSeq(cs[n+1].text, 1, cs[n+1].sent) ELSE <<>>
    BY DEF AllStreamed
  <2>1. StreamedIn(c, Len(c), n) =
          IF n + 1 \in DOMAIN bs THEN SubSeq(bs[n+1].text, 1, bs[n+1].sent) ELSE <<>>
    BY DEF Tied, AllStreamed
  <2>2. CASE n + 1 \in DOMAIN bs
    <3> DEFINE i == n + 1
    <3>1. i \in DOMAIN bs /\ bs[i].sent <= Len(bs[i].text)
      BY <2>2 DEF Sound, Progress
    <3> HIDE DEF i
    <3> DEFINE a == bs[i].text
               b == cs[i].text
               m == bs[i].sent
    <3>2. a \in Seq(Int) /\ b \in Seq(Int) /\ m \in Nat /\ \A y \in 1 .. m : b[y] = a[y] /\ a[y] \in Int
      <4>1. a \in Seq(Int) /\ b \in Seq(Int) /\ m \in Nat
        BY <3>1, EditedFacts
      <4>2. \A y \in 1 .. m : y \in 1 .. Len(a) /\ b[y] = a[y]
        BY <1>2, <3>1
      <4>3. \A y \in 1 .. Len(a) : a[y] \in Int
        <5> HIDE DEF a
        <5> QED
          BY <4>1, LenProperties
      <4> QED
        BY <4>1, <4>2, <4>3
    <3>3. cs[i].sent = m
      BY <1>1, <3>1
    <3> HIDE DEF a, b, m
    <3>4. SubSeq(b, 1, m) = SubSeq(a, 1, m)
      <4> DEFINE p == SubSeq(a, 1, m)
                 q == SubSeq(b, 1, m)
      <4>1. /\ p \in Seq(Int) /\ Len(p) = IF 1 <= m THEN (m - 1) + 1 ELSE 0
            /\ \A y \in 1 .. (m - 1) + 1 : p[y] = a[(1 + y) - 1]
        BY <3>2, SubSeqProperties
      <4>2. /\ q \in Seq(Int) /\ Len(q) = IF 1 <= m THEN (m - 1) + 1 ELSE 0
            /\ \A y \in 1 .. (m - 1) + 1 : q[y] = b[(1 + y) - 1]
        BY <3>2, SubSeqProperties
      <4> HIDE DEF p, q
      <4>3. Len(p) = m /\ Len(q) = m
        BY <3>2, <4>1, <4>2
      <4>4. \A y \in 1 .. m : p[y] = q[y]
        <5> TAKE y \in 1 .. m
        <5>1. y \in 1 .. (m - 1) + 1 /\ (1 + y) - 1 = y
          BY <3>2
        <5> QED
          BY <3>2, <4>1, <4>2, <5>1
      <4> QED
        BY <4>1, <4>2, <4>3, <4>4, SeqEqual DEF p, q
    <3>5. i \in DOMAIN cs
      BY <1>1, <3>1
    <3> QED
      BY <2>1, <3>1, <3>3, <3>4, <3>5 DEF a, b, i, m
  <2>3. CASE n + 1 \notin DOMAIN bs
    <3>1. n + 1 \in DOMAIN cs => cs[n + 1].sent = 0
      BY <1>1, <2>3
    <3>2. n + 1 \in DOMAIN cs => SubSeq(cs[n + 1].text, 1, cs[n + 1].sent) = <<>>
      BY <3>1, SubSeqEmpty
    <3> QED
      BY <2>1, <2>3, <3>2
  <2> QED
    BY <2>2, <2>3
<1> QED
  BY <1>3, <1>4, <1>5, <1>6, <1>7 DEF Tied

\* An edit that leaves the texts in order leaves the answer as it was told.
LEMMA EditStage ==
  ASSUME NEW f, NEW s, NEW c, NEW bs, NEW cs, Stage(f, s, c, bs), Edited(bs, cs), Texts(f, s, cs)
  PROVE  Stage(f, s, c, cs)
<1>1. Sound(f, to, cs)
  BY EditSound DEF Stage, Core, Texts
<1>2. Tied(to, c, cs)
  BY EditTied DEF Stage, Core
<1> QED
  BY <1>1, <1>2 DEF Stage, Core, Edited

\* The number of a piece.
LEMMA AbsType == \A n \in Int : Abs(n) \in Nat /\ (n # EmptyInput => Abs(n) > 0)
BY DEF Abs, EmptyInput

\* Block b became done.
Closes(b, d) ==
  /\ d.key = b.key /\ d.kind = b.kind /\ d.header = b.header /\ d.fallback = b.fallback
  /\ d.started = b.started /\ d.ended = b.ended /\ d.sent = b.sent /\ d.done
  /\ ~ (b.kind = "tool" /\ b.text = <<>>) => d.text = b.text
  /\ (b.kind = "tool" /\ b.text = <<>>) =>
       d.text = IF b.fallback = <<>> THEN <<EmptyInput>> ELSE b.fallback

\* closeBlock closes a block.
LEMMA CloseBlock ==
  ASSUME NEW b \in Block
  PROVE  closeBlock(b) \in Block /\ Closes(b, closeBlock(b))
<1>1. <<EmptyInput>> \in Seq(Int)
  BY DEF EmptyInput
<1> DEFINE e == <<EmptyInput>>
           w == IF b.kind = "tool" /\ b.text = <<>>
                THEN (IF b.fallback = <<>> THEN e ELSE b.fallback) ELSE b.text
<1>2. closeBlock(b) = [b EXCEPT !.done = TRUE, !.text = w]
  BY DEF closeBlock
<1>3. w \in Seq(Int)
  <2> HIDE DEF e
  <2>1. e \in Seq(Int) /\ b.fallback \in Seq(Int) /\ b.text \in Seq(Int)
    BY <1>1 DEF Block, e
  <2> QED
    BY <2>1
<1>4. /\ (b.kind = "tool" /\ b.text = <<>>) => w = IF b.fallback = <<>> THEN e ELSE b.fallback
      /\ ~ (b.kind = "tool" /\ b.text = <<>>) => w = b.text
  OBVIOUS
<1> HIDE DEF w, e
<1>5. closeBlock(b) \in Block
  BY <1>2, <1>3 DEF Block
<1>6. closeBlock(b).text = w /\ closeBlock(b).done
  BY <1>2 DEF Block
<1>7. /\ closeBlock(b).key = b.key /\ closeBlock(b).kind = b.kind
      /\ closeBlock(b).header = b.header /\ closeBlock(b).fallback = b.fallback
      /\ closeBlock(b).started = b.started /\ closeBlock(b).ended = b.ended
      /\ closeBlock(b).sent = b.sent
  BY <1>2 DEF Block
<1> QED
  BY <1>4, <1>5, <1>6, <1>7 DEF Closes, e

\* Some of the blocks became done.
CloseSome(bs, cs) ==
  /\ bs \in Seq(Block) /\ cs \in Seq(Block) /\ DOMAIN cs = DOMAIN bs
  /\ \A i \in DOMAIN bs : cs[i] = bs[i] \/ Closes(bs[i], cs[i])

\* The text of a block that was closed.
LEMMA ClosedText ==
  ASSUME NEW bs, NEW cs, CloseSome(bs, cs), NEW i \in DOMAIN bs
  PROVE  /\ cs[i].key = bs[i].key /\ cs[i].kind = bs[i].kind /\ cs[i].fallback = bs[i].fallback
         /\ cs[i].header = bs[i].header /\ cs[i].sent = bs[i].sent
         /\ cs[i].started = bs[i].started /\ cs[i].ended = bs[i].ended
         /\ bs[i].done => cs[i].done
         /\ \/ cs[i].text = bs[i].text
            \/ /\ bs[i].kind = "tool" /\ bs[i].text = <<>> /\ cs[i].done
               /\ \/ cs[i].text = <<EmptyInput>> /\ bs[i].fallback = <<>>
                  \/ cs[i].text = bs[i].fallback /\ bs[i].fallback # <<>>
         /\ (cs[i].kind = "tool" /\ cs[i].done /\ ~ bs[i].done) => cs[i].text # <<>>
<1>1. CASE cs[i] = bs[i]
  BY <1>1
<1>2. CASE Closes(bs[i], cs[i])
  <2>1. CASE ~ (bs[i].kind = "tool" /\ bs[i].text = <<>>)
    BY <1>2, <2>1 DEF Closes
  <2>2. CASE bs[i].kind = "tool" /\ bs[i].text = <<>>
    <3>1. <<EmptyInput>> # <<>>
      OBVIOUS
    <3>2. CASE bs[i].fallback = <<>>
      BY <1>2, <2>2, <3>1, <3>2 DEF Closes
    <3>3. CASE bs[i].fallback # <<>>
      BY <1>2, <2>2, <3>3 DEF Closes
    <3> QED
      BY <3>2, <3>3
  <2> QED
    BY <2>1, <2>2
<1> QED
  BY <1>1, <1>2 DEF CloseSome

\* Closing blocks leaves the texts in order,
LEMMA CloseTexts ==
  ASSUME NEW f, NEW s, NEW bs, NEW cs, CloseSome(bs, cs), Texts(f, s, bs)
  PROVE  Texts(f, s, cs)
<1>1. DOMAIN cs = DOMAIN bs
  BY DEF CloseSome
<1>2. \A i \in DOMAIN bs : SlotOf(f, cs[i]) = SlotOf(f, bs[i])
  BY ClosedText DEF SlotOf
<1>3. OneKey(cs) /\ KeyOfKind(f, cs)
  BY <1>1, ClosedText DEF Texts, OneKey, KeyOfKind
<1>4. Filled(cs)
  <2> SUFFICES ASSUME NEW i \in DOMAIN bs, cs[i].kind = "tool", cs[i].done PROVE cs[i].text # <<>>
    BY <1>1 DEF Filled
  <2>1. CASE bs[i].done
    <3>1. bs[i].text # <<>>
      BY <2>1, ClosedText DEF Texts, Filled
    <3> QED
      BY <3>1, ClosedText
  <2>2. CASE ~ bs[i].done
    BY <2>2, ClosedText
  <2> QED
    BY <2>1, <2>2
<1>5. OfSlot(f, s, cs)
  <2> SUFFICES ASSUME NEW i \in DOMAIN bs
               PROVE  /\ SaidThere(s, SlotOf(f, bs[i]), cs[i].text) /\ Ascending(cs[i].text)
                      /\ SaidThere(s, SlotOf(f, bs[i]), cs[i].fallback)
                      /\ Ascending(cs[i].fallback)
    BY <1>1, <1>2 DEF OfSlot
  <2>1. /\ SaidThere(s, SlotOf(f, bs[i]), bs[i].text) /\ Ascending(bs[i].text)
        /\ SaidThere(s, SlotOf(f, bs[i]), bs[i].fallback) /\ Ascending(bs[i].fallback)
    BY DEF Texts, OfSlot
  <2>2. SaidThere(s, SlotOf(f, bs[i]), <<EmptyInput>>) /\ Ascending(<<EmptyInput>>)
    BY DEF SaidThere, Ascending
  <2>3. /\ cs[i].text = bs[i].text \/ cs[i].text = bs[i].fallback \/ cs[i].text = <<EmptyInput>>
        /\ cs[i].fallback = bs[i].fallback
    BY ClosedText
  <2> QED
    BY <2>1, <2>2, <2>3
<1>6. Successive(f, cs)
  <2> SUFFICES ASSUME NEW i \in DOMAIN bs, NEW j \in DOMAIN bs, i < j,
                      SlotOf(f, bs[i]) = SlotOf(f, bs[j])
               PROVE  /\ cs[i].done
                      /\ \A x \in DOMAIN cs[i].text, y \in DOMAIN cs[j].text :
                           (cs[i].text[x] # EmptyInput /\ cs[j].text[y] # EmptyInput)
                             => Abs(cs[i].text[x]) < Abs(cs[j].text[y])
    BY <1>1, <1>2 DEF Successive
  <2>1. bs[i].kind # "tool" /\ bs[j].kind # "tool"
    <3>1. i # j
      BY LenProperties DEF CloseSome
    <3> QED
      BY <3>1, NoTool DEF NoToolTwice
  <2>2. cs[i].text = bs[i].text /\ cs[j].text = bs[j].text /\ (bs[i].done => cs[i].done)
    BY <2>1, ClosedText
  <2> QED
    BY <2>2 DEF Texts, Successive
<1> QED
  BY <1>3, <1>4, <1>5, <1>6 DEF Texts

\* changes nothing that was sent,
LEMMA CloseEdited ==
  ASSUME NEW bs, NEW cs, CloseSome(bs, cs), Filled(bs)
  PROVE  Edited(bs, cs)
<1>1. ASSUME NEW i \in DOMAIN bs PROVE Grown(bs[i], cs[i])
  <2>1. Len(bs[i].text) <= Len(cs[i].text) /\ \A y \in 1 .. Len(bs[i].text) : cs[i].text[y] = bs[i].text[y]
    <3>1. bs[i] \in Block /\ cs[i] \in Block
      BY LenProperties DEF CloseSome
    <3>2. Len(bs[i].text) \in Nat /\ Len(cs[i].text) \in Nat
      BY <3>1, LenProperties DEF Block
    <3>3. CASE cs[i].text = bs[i].text
      BY <3>2, <3>3
    <3>4. CASE bs[i].text = <<>>
      <4>1. Len(bs[i].text) = 0
        BY <3>4
      <4> QED
        BY <3>2, <4>1
    <3> QED
      BY <3>3, <3>4, ClosedText
  <2>2. bs[i].done => cs[i].text = bs[i].text
    BY ClosedText DEF Filled
  <2> QED
    BY <2>1, <2>2, ClosedText DEF Grown
<1> QED
  BY <1>1 DEF Edited, CloseSome

\* and every piece keeps its place: what a tool had in its start goes to its text.
LEMMA ClosePlaced ==
  ASSUME NEW o, NEW s, NEW bs, NEW cs, CloseSome(bs, cs), Filled(bs), AllPlaced(o, s, bs)
  PROVE  AllPlaced(o, s, cs)
<1>1. ASSUME NEW n, NEW i \in DOMAIN bs,
             Holds(bs[i].text, n) \/ (Pending(bs[i]) /\ Holds(bs[i].fallback, n))
      PROVE  Holds(cs[i].text, n) \/ (Pending(cs[i]) /\ Holds(cs[i].fallback, n))
  <2>1. CASE Holds(bs[i].text, n)
    <3>1. bs[i].text # <<>>
      BY <2>1 DEF Holds
    <3> QED
      BY <2>1, <3>1, ClosedText
  <2>2. CASE Pending(bs[i]) /\ Holds(bs[i].fallback, n)
    <3>1. bs[i].fallback # <<>>
      BY <2>2 DEF Holds
    <3>2. CASE cs[i] = bs[i]
      BY <2>2, <3>2
    <3>3. CASE Closes(bs[i], cs[i])
      <4>1. cs[i].text = bs[i].fallback
        BY <2>2, <3>1, <3>3 DEF Closes, Pending
      <4> QED
        BY <2>2, <4>1
    <3> QED
      BY <3>2, <3>3 DEF CloseSome
  <2> QED
    BY <1>1, <2>1, <2>2
<1>2. \A n : Placed(s, bs, n) => Placed(s, cs, n)
  BY <1>1 DEF Placed, CloseSome
<1> QED
  BY <1>2 DEF AllPlaced

\* A new block was added.
Adds(bs, key, kind, cs) ==
  /\ bs \in Seq(Block) /\ cs \in Seq(Block) /\ Len(cs) = Len(bs) + 1
  /\ \A i \in 1 .. Len(bs) : cs[i] = bs[i]
  /\ cs[Len(bs) + 1] = NewBlock(key, kind)

\* What adding a block leaves and changes.
LEMMA AddsFacts ==
  ASSUME NEW bs, NEW key, NEW kind, NEW cs, Adds(bs, key, kind, cs)
  PROVE  /\ DOMAIN bs = 1 .. Len(bs) /\ Len(bs) \in Nat /\ DOMAIN cs = 1 .. Len(bs) + 1
         /\ DOMAIN bs \subseteq DOMAIN cs
         /\ \A i \in DOMAIN bs : cs[i] = bs[i]
         /\ \A i \in DOMAIN cs : i \in DOMAIN bs \/ i = Len(bs) + 1
         /\ LET d == cs[Len(bs) + 1]
            IN  /\ d.key = key /\ d.kind = kind /\ d.text = <<>> /\ d.fallback = <<>>
                /\ d.header = {} /\ ~ d.done /\ ~ d.started /\ ~ d.ended /\ d.sent = 0
<1>1. DOMAIN bs = 1 .. Len(bs) /\ Len(bs) \in Nat /\ DOMAIN cs = 1 .. Len(bs) + 1
  BY LenProperties DEF Adds
<1> QED
  BY <1>1 DEF Adds, NewBlock

\* A new block changes nothing that was sent,
LEMMA AddEdited ==
  ASSUME NEW bs, NEW key, NEW kind, NEW cs, Adds(bs, key, kind, cs)
  PROVE  Edited(bs, cs)
<1>1. ASSUME NEW i \in DOMAIN bs PROVE Grown(bs[i], cs[i])
  <2>1. bs[i] \in Block
    BY LenProperties DEF Adds
  <2>2. Len(bs[i].text) \in Nat
    BY <2>1, LenProperties DEF Block
  <2>3. cs[i] = bs[i]
    BY AddsFacts
  <2> QED
    BY <2>2, <2>3 DEF Grown
<1> QED
  BY <1>1, AddsFacts DEF Edited, Adds

\* leaves the texts in order when the blocks of its slot are done,
LEMMA AddTexts ==
  ASSUME NEW f, NEW s, NEW bs, NEW key, NEW kind, NEW cs, Adds(bs, key, kind, cs), Texts(f, s, bs),
         ~ Has(bs, key), f = "chat" => key = <<kind, key[2]>>,
         \A i \in DOMAIN bs : SlotOf(f, bs[i]) = SlotOf(f, NewBlock(key, kind)) => bs[i].done
  PROVE  Texts(f, s, cs)
<1> DEFINE d == cs[Len(bs) + 1]
<1>1. /\ DOMAIN bs = 1 .. Len(bs) /\ Len(bs) \in Nat /\ DOMAIN bs \subseteq DOMAIN cs
      /\ \A i \in DOMAIN bs : cs[i] = bs[i]
      /\ \A i \in DOMAIN cs : i \in DOMAIN bs \/ (i = Len(bs) + 1 /\ cs[i] = d)
      /\ \A i \in DOMAIN bs : i < Len(bs) + 1 /\ ~ (Len(bs) + 1 < i)
  BY AddsFacts
<1>2. d.key = key /\ d.kind = kind /\ d.text = <<>> /\ d.fallback = <<>> /\ ~ d.done
  BY AddsFacts
<1>3. d = NewBlock(key, kind)
  BY DEF Adds
<1> HIDE DEF d
<1>4. OneKey(cs)
  <2>1. \A i \in DOMAIN bs : bs[i].key # key
    BY DEF Has
  <2> QED
    BY <1>1, <1>2, <2>1 DEF Texts, OneKey
<1>5. KeyOfKind(f, cs)
  BY <1>1, <1>2 DEF Texts, KeyOfKind
<1>6. Filled(cs)
  BY <1>1, <1>2 DEF Texts, Filled
<1>7. OfSlot(f, s, cs)
  <2>1. \A slot : SaidThere(s, slot, <<>>) /\ Ascending(<<>>)
    BY DEF SaidThere, Ascending
  <2> SUFFICES ASSUME NEW i \in DOMAIN cs
               PROVE  /\ SaidThere(s, SlotOf(f, cs[i]), cs[i].text)
                      /\ SaidThere(s, SlotOf(f, cs[i]), cs[i].fallback)
                      /\ Ascending(cs[i].text) /\ Ascending(cs[i].fallback)
    BY DEF OfSlot
  <2>2. CASE i \in DOMAIN bs
    BY <1>1, <2>2 DEF Texts, OfSlot
  <2>3. CASE i \notin DOMAIN bs
    BY <1>1, <1>2, <2>1, <2>3
  <2> QED
    BY <2>2, <2>3
<1>8. Successive(f, cs)
  <2> SUFFICES ASSUME NEW i \in DOMAIN cs, NEW j \in DOMAIN cs, i < j,
                      SlotOf(f, cs[i]) = SlotOf(f, cs[j])
               PROVE  /\ cs[i].done
                      /\ \A x \in DOMAIN cs[i].text, y \in DOMAIN cs[j].text :
                           (cs[i].text[x] # EmptyInput /\ cs[j].text[y] # EmptyInput)
                             => Abs(cs[i].text[x]) < Abs(cs[j].text[y])
    BY DEF Successive
  <2>1. CASE j \in DOMAIN bs
    <3>1. i \in DOMAIN bs
      BY <1>1, <2>1
    <3> QED
      BY <1>1, <2>1, <3>1 DEF Texts, Successive
  <2>2. CASE j \notin DOMAIN bs
    <3>1. cs[j] = d /\ j = Len(bs) + 1
      BY <1>1, <2>2
    <3>2. i \in DOMAIN bs
      BY <1>1, <3>1
    <3>3. SlotOf(f, bs[i]) = SlotOf(f, NewBlock(key, kind))
      BY <1>1, <1>3, <3>1, <3>2
    <3>4. cs[i].done
      BY <1>1, <3>2, <3>3
    <3>5. DOMAIN cs[j].text = {}
      BY <1>2, <3>1
    <3> QED
      BY <3>4, <3>5
  <2> QED
    BY <2>1, <2>2
<1> QED
  BY <1>4, <1>5, <1>6, <1>7, <1>8 DEF Texts

\* and leaves every piece where it was.
LEMMA AddPlaced ==
  ASSUME NEW o, NEW s, NEW bs, NEW key, NEW kind, NEW cs, Adds(bs, key, kind, cs),
         AllPlaced(o, s, bs)
  PROVE  AllPlaced(o, s, cs)
<1>1. DOMAIN bs \subseteq DOMAIN cs /\ \A i \in DOMAIN bs : cs[i] = bs[i]
  BY AddsFacts
<1> QED
  BY <1>1 DEF AllPlaced, Placed

\* Block k got text w.
Puts(bs, k, w, cs) ==
  /\ bs \in Seq(Block) /\ cs \in Seq(Block) /\ k \in DOMAIN bs /\ DOMAIN cs = DOMAIN bs
  /\ \A i \in DOMAIN bs : i # k => cs[i] = bs[i]
  /\ w \in Seq(Int) /\ cs[k].text = bs[k].text \o w
  /\ cs[k].key = bs[k].key /\ cs[k].kind = bs[k].kind /\ cs[k].header = bs[k].header
  /\ cs[k].fallback = bs[k].fallback /\ cs[k].done = bs[k].done
  /\ cs[k].started = bs[k].started /\ cs[k].ended = bs[k].ended /\ cs[k].sent = bs[k].sent

\* Adding text to a block, as the code does it.
LEMMA PutIs ==
  ASSUME NEW bs \in Seq(Block), NEW k \in DOMAIN bs, NEW w \in Seq(Int)
  PROVE  Puts(bs, k, w, [bs EXCEPT ![k].text = @ \o w])
<1> DEFINE v == bs[k].text \o w
           b == [bs[k] EXCEPT !.text = v]
           cs == [bs EXCEPT ![k] = b]
<1>1. bs[k] \in Block /\ k \in 1 .. Len(bs) /\ DOMAIN bs = 1 .. Len(bs)
  BY LenProperties
<1>2. v \in Seq(Int)
  <2>1. bs[k].text \in Seq(Int)
    BY <1>1 DEF Block
  <2> QED
    BY <2>1, ConcatProperties
<1>3. v = bs[k].text \o w
  OBVIOUS
<1> HIDE DEF v
<1>4. /\ b \in Block /\ b.text = v /\ b.key = bs[k].key /\ b.kind = bs[k].kind
      /\ b.header = bs[k].header /\ b.fallback = bs[k].fallback /\ b.done = bs[k].done
      /\ b.started = bs[k].started /\ b.ended = bs[k].ended /\ b.sent = bs[k].sent
  BY <1>1, <1>2 DEF Block
<1>5. [bs EXCEPT ![k].text = @ \o w] = cs
  BY DEF v
<1> HIDE DEF b
<1>6. cs \in Seq(Block) /\ DOMAIN cs = DOMAIN bs /\ cs[k] = b /\ \A i \in DOMAIN bs : i # k => cs[i] = bs[i]
  BY <1>1, <1>4, ExceptSeq
<1> HIDE DEF cs
<1>7. Puts(bs, k, w, cs)
  BY <1>3, <1>4, <1>6 DEF Puts
<1> QED
  BY <1>5, <1>7

\* The text of block k, with the added.
LEMMA PutText ==
  ASSUME NEW bs, NEW k, NEW w, NEW cs, Puts(bs, k, w, cs)
  PROVE  /\ bs[k].text \in Seq(Int) /\ Len(bs[k].text) \in Nat
         /\ DOMAIN bs[k].text = 1 .. Len(bs[k].text)
         /\ Len(cs[k].text) = Len(bs[k].text) + Len(w) /\ Len(w) \in Nat
         /\ DOMAIN cs[k].text = 1 .. Len(bs[k].text) + Len(w)
         /\ \A x \in DOMAIN bs[k].text : x \in DOMAIN cs[k].text /\ cs[k].text[x] = bs[k].text[x]
         /\ \A x \in DOMAIN cs[k].text : x \notin DOMAIN bs[k].text =>
              x - Len(bs[k].text) \in DOMAIN w /\ cs[k].text[x] = w[x - Len(bs[k].text)]
         /\ \A x \in DOMAIN w : x + Len(bs[k].text) \in DOMAIN cs[k].text
                                /\ cs[k].text[x + Len(bs[k].text)] = w[x]
<1> DEFINE a == bs[k].text
           v == cs[k].text
<1>1. bs[k] \in Block
  BY LenProperties DEF Puts
<1>2. a \in Seq(Int) /\ w \in Seq(Int) /\ v = a \o w
  BY <1>1 DEF Block, Puts
<1> HIDE DEF a, v
<1>3. Len(a) \in Nat /\ DOMAIN a = 1 .. Len(a) /\ Len(w) \in Nat /\ DOMAIN w = 1 .. Len(w)
  BY <1>2, LenProperties
<1>4. /\ v \in Seq(Int) /\ Len(v) = Len(a) + Len(w)
      /\ \A x \in 1 .. Len(a) + Len(w) : v[x] = IF x <= Len(a) THEN a[x] ELSE w[x - Len(a)]
  BY <1>2, ConcatProperties
<1>5. DOMAIN v = 1 .. Len(a) + Len(w)
  BY <1>4, LenProperties
<1>6. ASSUME NEW x \in DOMAIN a PROVE x \in DOMAIN v /\ v[x] = a[x]
  BY <1>3, <1>4, <1>5
<1>7. ASSUME NEW x \in DOMAIN v, x \notin DOMAIN a
      PROVE  x - Len(a) \in DOMAIN w /\ v[x] = w[x - Len(a)]
  <2>1. ~ (x <= Len(a)) /\ x - Len(a) \in DOMAIN w
    BY <1>3, <1>5, <1>7
  <2> QED
    BY <1>4, <1>5, <2>1
<1>8. ASSUME NEW x \in DOMAIN w
      PROVE  x + Len(a) \in DOMAIN v /\ v[x + Len(a)] = w[x]
  <2>1. x + Len(a) \in 1 .. Len(a) + Len(w) /\ ~ (x + Len(a) <= Len(a)) /\ (x + Len(a)) - Len(a) = x
    BY <1>3
  <2> QED
    BY <1>4, <1>5, <2>1
<1> QED
  BY <1>2, <1>3, <1>4, <1>5, <1>6, <1>7, <1>8 DEF a, v

\* Text is added to a block that is not done: nothing sent changes.
LEMMA PutEdited ==
  ASSUME NEW bs, NEW k, NEW w, NEW cs, Puts(bs, k, w, cs), ~ bs[k].done
  PROVE  Edited(bs, cs)
<1>1. ASSUME NEW i \in DOMAIN bs PROVE Grown(bs[i], cs[i])
  <2>1. CASE i = k
    <3>1. /\ Len(bs[k].text) <= Len(cs[k].text)
          /\ \A y \in 1 .. Len(bs[k].text) : cs[k].text[y] = bs[k].text[y]
      BY PutText
    <3> QED
      BY <2>1, <3>1 DEF Puts, Grown
  <2>2. CASE i # k
    <3>1. bs[i] \in Block
      BY LenProperties DEF Puts
    <3>2. Len(bs[i].text) \in Nat
      BY <3>1, LenProperties DEF Block
    <3>3. cs[i] = bs[i]
      BY <2>2 DEF Puts
    <3> QED
      BY <3>2, <3>3 DEF Grown
  <2> QED
    BY <2>1, <2>2
<1> QED
  BY <1>1 DEF Edited, Puts

\* The text w is the newest piece the upstream said, or none.
Newest(s, slot, w) ==
  /\ w \in Seq(Int) /\ Len(s) \in Nat
  /\ \A x \in DOMAIN w : /\ Len(w) = 1 /\ w[x] # EmptyInput /\ Abs(w[x]) = Len(s)
                         /\ Len(s) > 0 /\ Len(s) \in DOMAIN s /\ s[Len(s)] = slot

\* No block has the newest piece.
Older(n, bs) ==
  \A i \in DOMAIN bs : \A x \in DOMAIN bs[i].text :
    bs[i].text[x] # EmptyInput => Abs(bs[i].text[x]) < n

\* The newest piece may go to a block that is not done.
LEMMA PutTexts ==
  ASSUME NEW f, NEW s, NEW bs, NEW k, NEW w, NEW cs, Puts(bs, k, w, cs), ~ bs[k].done,
         Texts(f, s, bs), Newest(s, SlotOf(f, bs[k]), w), w = <<>> \/ Older(Len(s), bs)
  PROVE  Texts(f, s, cs)
<1>1. /\ DOMAIN cs = DOMAIN bs /\ k \in DOMAIN bs
      /\ \A i \in DOMAIN bs : /\ cs[i].key = bs[i].key /\ cs[i].kind = bs[i].kind
                              /\ cs[i].done = bs[i].done /\ cs[i].fallback = bs[i].fallback
                              /\ i # k => cs[i].text = bs[i].text
  BY DEF Puts
<1>2. \A i \in DOMAIN bs : SlotOf(f, cs[i]) = SlotOf(f, bs[i])
  BY <1>1 DEF SlotOf
<1>3. \A x \in DOMAIN cs[k].text :
        \/ x \in DOMAIN bs[k].text /\ cs[k].text[x] = bs[k].text[x]
        \/ /\ x \notin DOMAIN bs[k].text /\ x = Len(bs[k].text) + 1
           /\ cs[k].text[x] # EmptyInput /\ Abs(cs[k].text[x]) = Len(s)
           /\ Len(s) \in DOMAIN s /\ s[Len(s)] = SlotOf(f, bs[k]) /\ Older(Len(s), bs)
  <2> SUFFICES ASSUME NEW x \in DOMAIN cs[k].text, x \notin DOMAIN bs[k].text
               PROVE  /\ x = Len(bs[k].text) + 1
                      /\ cs[k].text[x] # EmptyInput /\ Abs(cs[k].text[x]) = Len(s)
                      /\ Len(s) \in DOMAIN s /\ s[Len(s)] = SlotOf(f, bs[k])
                      /\ Older(Len(s), bs)
    BY PutText
  <2>1. x - Len(bs[k].text) \in DOMAIN w /\ cs[k].text[x] = w[x - Len(bs[k].text)]
    BY PutText
  <2>2. DOMAIN w = 1 .. 1
    BY <2>1, LenProperties DEF Newest
  <2>3. x = Len(bs[k].text) + 1
    <3>1. x \in Nat /\ Len(bs[k].text) \in Nat
      BY PutText, SMTT(30)
    <3> QED
      BY <2>1, <2>2, <3>1
  <2>4. w # <<>>
    BY <2>1
  <2> QED
    BY <2>1, <2>3, <2>4 DEF Newest
<1>4. OneKey(cs) /\ KeyOfKind(f, cs) /\ Filled(cs)
  <2>1. OneKey(cs) /\ KeyOfKind(f, cs)
    BY <1>1 DEF Texts, OneKey, KeyOfKind
  <2>2. Filled(cs)
    BY <1>1 DEF Texts, Filled
  <2> QED
    BY <2>1, <2>2
<1>5. OfSlot(f, s, cs)
  <2> SUFFICES ASSUME NEW i \in DOMAIN bs
               PROVE  /\ SaidThere(s, SlotOf(f, bs[i]), cs[i].text)
                      /\ SaidThere(s, SlotOf(f, bs[i]), cs[i].fallback)
                      /\ Ascending(cs[i].text) /\ Ascending(cs[i].fallback)
    BY <1>1, <1>2 DEF OfSlot
  <2>1. /\ SaidThere(s, SlotOf(f, bs[i]), bs[i].text) /\ Ascending(bs[i].text)
        /\ SaidThere(s, SlotOf(f, bs[i]), bs[i].fallback) /\ Ascending(bs[i].fallback)
    BY DEF Texts, OfSlot
  <2>2. CASE i # k
    BY <1>1, <2>1, <2>2
  <2>3. CASE i = k
    <3>1. SaidThere(s, SlotOf(f, bs[k]), cs[k].text)
      BY <1>3, <2>1, <2>3 DEF SaidThere
    <3>2. Ascending(cs[k].text)
      <4> SUFFICES ASSUME NEW x \in DOMAIN cs[k].text, NEW y \in DOMAIN cs[k].text, x < y,
                          cs[k].text[x] # EmptyInput, cs[k].text[y] # EmptyInput
                   PROVE  Abs(cs[k].text[x]) < Abs(cs[k].text[y])
        BY DEF Ascending
      <4>1. x \in DOMAIN bs[k].text
        <5> DEFINE l == Len(bs[k].text)
        <5>1. l \in Nat /\ DOMAIN bs[k].text = 1 .. l
          BY PutText
        <5>2. \A z \in DOMAIN cs[k].text : z \in 1 .. l \/ z = l + 1
          BY <1>3, <5>1
        <5> HIDE DEF l
        <5>3. x \in 1 .. l
          BY <5>1, <5>2
        <5> QED
          BY <5>1, <5>3
      <4>2. CASE y \in DOMAIN bs[k].text
        BY <2>1, <2>3, <4>1, <4>2, PutText DEF Ascending
      <4>3. CASE y \notin DOMAIN bs[k].text
        <5>1. Abs(cs[k].text[y]) = Len(s)
          BY <1>3, <4>3
        <5>2. cs[k].text[x] = bs[k].text[x]
          BY <4>1, PutText
        <5> QED
          BY <1>1, <1>3, <4>1, <4>3, <5>1, <5>2 DEF Older
      <4> QED
        BY <4>2, <4>3
    <3> QED
      BY <1>1, <2>1, <2>3, <3>1, <3>2
  <2> QED
    BY <2>2, <2>3
<1>6. Successive(f, cs)
  <2> SUFFICES ASSUME NEW i \in DOMAIN bs, NEW j \in DOMAIN bs, i < j,
                      SlotOf(f, bs[i]) = SlotOf(f, bs[j])
               PROVE  /\ bs[i].done
                      /\ \A x \in DOMAIN cs[i].text, y \in DOMAIN cs[j].text :
                           (cs[i].text[x] # EmptyInput /\ cs[j].text[y] # EmptyInput)
                             => Abs(cs[i].text[x]) < Abs(cs[j].text[y])
    BY <1>1, <1>2 DEF Successive
  <2>1. bs[i].done
    BY DEF Texts, Successive
  <2>2. i # k /\ cs[i].text = bs[i].text
    BY <1>1, <2>1
  <2> SUFFICES ASSUME NEW x \in DOMAIN bs[i].text, NEW y \in DOMAIN cs[j].text,
                      bs[i].text[x] # EmptyInput, cs[j].text[y] # EmptyInput
               PROVE  Abs(bs[i].text[x]) < Abs(cs[j].text[y])
    BY <2>1, <2>2
  <2>3. CASE y \in DOMAIN bs[j].text /\ cs[j].text[y] = bs[j].text[y]
    BY <2>3 DEF Texts, Successive
  <2>4. CASE j = k /\ Abs(cs[j].text[y]) = Len(s) /\ Older(Len(s), bs)
    BY <2>4 DEF Older
  <2> QED
    BY <1>1, <1>3, <2>3, <2>4
<1> QED
  BY <1>4, <1>5, <1>6 DEF Texts

\* The piece has its place.
LEMMA PutPlaced ==
  ASSUME NEW o, NEW s, NEW bs, NEW k, NEW w, NEW cs, Puts(bs, k, w, cs), NEW slot, Newest(s, slot, w),
         Pending(bs[k]) => bs[k].fallback = <<>> \/ w = <<>>,
         AllPlaced(o, s, bs), NEW p, p = o \/ (p = "open" /\ w # <<>>)
  PROVE  AllPlaced(p, s, cs)
<1>1. ASSUME NEW n, Placed(s, bs, n) PROVE Placed(s, cs, n)
  <2>1. PICK i \in DOMAIN bs : Holds(bs[i].text, n) \/ (Pending(bs[i]) /\ Holds(bs[i].fallback, n))
    BY <1>1 DEF Placed
  <2>2. CASE i # k
    BY <2>1, <2>2 DEF Placed, Puts
  <2>3. CASE i = k /\ Holds(bs[k].text, n)
    <3>1. Holds(cs[k].text, n)
      BY <2>3, PutText DEF Holds
    <3> QED
      BY <3>1 DEF Placed, Puts
  <2>4. CASE i = k /\ Pending(bs[k]) /\ Holds(bs[k].fallback, n)
    <3>1. w = <<>>
      BY <2>4 DEF Holds
    <3>2. cs[k].text = <<>>
      <4>1. cs[k].text = <<>> \o <<>>
        BY <2>4, <3>1 DEF Puts, Pending
      <4> QED
        BY <4>1
    <3>3. Pending(cs[k]) /\ cs[k].fallback = bs[k].fallback
      BY <2>4, <3>2 DEF Pending, Puts
    <3> QED
      BY <2>4, <3>3 DEF Placed, Puts
  <2> QED
    BY <2>1, <2>2, <2>3, <2>4
<1>2. ASSUME w # <<>> PROVE Placed(s, cs, Len(s))
  <2>1. 1 \in DOMAIN w
    <3>1. w \in Seq(Int)
      BY DEF Newest
    <3>2. Len(w) \in Nat \ {0} /\ DOMAIN w = 1 .. Len(w)
      BY <1>2, <3>1, EmptySeq, LenProperties
    <3> QED
      BY <3>2
  <2>2. w[1] # EmptyInput /\ Abs(w[1]) = Len(s)
    BY <2>1 DEF Newest
  <2>3. Holds(cs[k].text, Len(s))
    <3> DEFINE x == 1 + Len(bs[k].text)
    <3>1. x \in DOMAIN cs[k].text /\ cs[k].text[x] = w[1]
      BY <2>1, PutText
    <3> HIDE DEF x
    <3> QED
      BY <2>2, <3>1 DEF Holds
  <2> QED
    BY <2>3 DEF Placed, Puts
<1> QED
  BY <1>1, <1>2 DEF AllPlaced

-----------------------------------------------------------------------------
(* The steps, and the theorems. *)

\* The type of a new block.
LEMMA NewBlockType ==
  ASSUME NEW key \in Keys, NEW kind \in Kinds
  PROVE  NewBlock(key, kind) \in Block
<1>1. <<>> \in Seq(Int)
  OBVIOUS
<1> QED
  BY <1>1 DEF NewBlock, Block

\* The number of the block with a key.
LEMMA AtIs ==
  ASSUME NEW bs, NEW key, Has(bs, key)
  PROVE  At(bs, key) \in DOMAIN bs /\ bs[At(bs, key)].key = key
BY DEF Has, At

\* The blocks bs, or with a new block of that key.
Widened(bs, key, kind, cs) == cs = bs \/ (~ Has(bs, key) /\ Adds(bs, key, kind, cs))

\* With widens the blocks.
LEMMA WithIs ==
  ASSUME NEW bs \in Seq(Block), NEW key \in Keys, NEW kind \in Kinds
  PROVE  /\ Widened(bs, key, kind, With(bs, key, kind))
         /\ With(bs, key, kind) \in Seq(Block) /\ Has(With(bs, key, kind), key)
<1>1. CASE Has(bs, key)
  BY <1>1 DEF With, Widened
<1>2. CASE ~ Has(bs, key)
  <2> DEFINE b == NewBlock(key, kind)
             cs == Append(bs, b)
  <2>1. b \in Block /\ b.key = key
    BY NewBlockType DEF NewBlock
  <2>2. With(bs, key, kind) = cs
    BY <1>2 DEF With
  <2> HIDE DEF b
  <2>3. /\ cs \in Seq(Block) /\ Len(cs) = Len(bs) + 1
        /\ \A i \in 1 .. Len(bs) : cs[i] = bs[i]
        /\ cs[Len(bs) + 1] = b
    BY <2>1, AppendProperties
  <2> HIDE DEF cs
  <2>4. Adds(bs, key, kind, cs)
    BY <2>3 DEF Adds, b
  <2>5. Len(bs) + 1 \in DOMAIN cs
    BY <2>4, AddsFacts
  <2>6. Has(cs, key)
    BY <2>1, <2>3, <2>5 DEF Has
  <2> QED
    BY <1>2, <2>2, <2>3, <2>4, <2>6 DEF Widened
<1> QED
  BY <1>1, <1>2

\* Block k of that key got text w, in blocks that were widened.
Extended(bs, key, kind, c, k, w, cs) ==
  Widened(bs, key, kind, c) /\ k \in DOMAIN c /\ c[k].key = key /\ Puts(c, k, w, cs)

\* Extend adds the text to the block of the key.
LEMMA ExtendIs ==
  ASSUME NEW bs \in Seq(Block), NEW key \in Keys, NEW kind \in Kinds, NEW w \in Seq(Int)
  PROVE  \E c, k : Extended(bs, key, kind, c, k, w, Extend(bs, key, kind, w))
<1> DEFINE c == With(bs, key, kind)
           k == At(c, key)
           cs == [c EXCEPT ![k].text = @ \o w]
<1>1. Widened(bs, key, kind, c) /\ c \in Seq(Block) /\ Has(c, key)
  BY WithIs
<1>2. Extend(bs, key, kind, w) = cs
  BY DEF Extend
<1> HIDE DEF c
<1>3. k \in DOMAIN c /\ c[k].key = key
  BY <1>1, AtIs
<1> HIDE DEF k
<1>4. Puts(c, k, w, cs)
  BY <1>1, <1>3, PutIs
<1> QED
  BY <1>1, <1>2, <1>3, <1>4 DEF Extended

\* The blocks of the client's events c can take text of that key.
CanTake(f, bs, key, kind) ==
  /\ f = "chat" => key = <<kind, key[2]>>
  /\ ~ Has(bs, key) =>
       \A i \in DOMAIN bs : SlotOf(f, bs[i]) = SlotOf(f, NewBlock(key, kind)) => bs[i].done
  /\ \A i \in DOMAIN bs :
       bs[i].key = key => ~ bs[i].done /\ bs[i].kind = kind /\ bs[i].fallback = <<>>

\* The blocks after text was added to those of that key.
Takes(bs, key, kind, cs) ==
  /\ bs \in Seq(Block) /\ cs \in Seq(Block)
  /\ DOMAIN bs \subseteq DOMAIN cs /\ Has(cs, key)
  /\ \A i \in DOMAIN bs :
       /\ cs[i].key = bs[i].key /\ cs[i].kind = bs[i].kind /\ cs[i].fallback = bs[i].fallback
       /\ cs[i].done = bs[i].done
       /\ bs[i].key # key => cs[i] = bs[i]
  /\ \A i \in DOMAIN cs \ DOMAIN bs :
       cs[i].key = key /\ cs[i].kind = kind /\ cs[i].fallback = <<>> /\ ~ cs[i].done

\* The blocks and the events are as they should be, and all pieces have a place.
Good(f, s, c, o, bs) == Stage(f, s, c, bs) /\ AllPlaced(o, s, bs)

\* Blocks that were widened are as they should be.
LEMMA WidenGood ==
  ASSUME NEW f, NEW s, NEW c, NEW o, NEW bs, Good(f, s, c, o, bs),
         NEW key, NEW kind, CanTake(f, bs, key, kind), NEW cs, Widened(bs, key, kind, cs)
  PROVE  /\ Good(f, s, c, o, cs)
         /\ bs \in Seq(Block) /\ cs \in Seq(Block) /\ DOMAIN bs \subseteq DOMAIN cs
         /\ \A i \in DOMAIN bs : cs[i] = bs[i]
         /\ \A i \in DOMAIN cs \ DOMAIN bs :
              /\ cs[i].key = key /\ cs[i].kind = kind /\ cs[i].fallback = <<>> /\ ~ cs[i].done
              /\ cs[i].text = <<>> /\ cs[i].header = {}
         /\ \A i \in DOMAIN cs : cs[i].key = key =>
              ~ cs[i].done /\ cs[i].kind = kind /\ cs[i].fallback = <<>>
<1>1. bs \in Seq(Block)
  BY DEF Good, Stage
<1>2. CASE cs = bs
  BY <1>1, <1>2 DEF CanTake
<1>3. CASE ~ Has(bs, key) /\ Adds(bs, key, kind, cs)
  <2>1. Edited(bs, cs)
    BY <1>3, AddEdited
  <2>2. Texts(f, s, bs) /\ Stage(f, s, c, bs) /\ AllPlaced(o, s, bs)
    BY DEF Good, Stage, Core
  <2>3. Texts(f, s, cs)
    BY <1>3, <2>2, AddTexts DEF CanTake
  <2>4. Stage(f, s, c, cs)
    BY <2>1, <2>2, <2>3, EditStage
  <2>5. AllPlaced(o, s, cs)
    BY <1>3, <2>2, AddPlaced
  <2>6. /\ DOMAIN bs \subseteq DOMAIN cs
        /\ \A i \in DOMAIN bs : cs[i] = bs[i]
        /\ \A i \in DOMAIN cs : i \in DOMAIN bs \/ i = Len(bs) + 1
        /\ LET d == cs[Len(bs) + 1]
           IN  /\ d.key = key /\ d.kind = kind /\ d.text = <<>> /\ d.fallback = <<>>
               /\ d.header = {} /\ ~ d.done
    BY <1>3, AddsFacts
  <2>7. cs \in Seq(Block)
    BY <1>3 DEF Adds
  <2> QED
    BY <1>1, <2>4, <2>5, <2>6, <2>7 DEF Good, CanTake
<1> QED
  BY <1>2, <1>3 DEF Widened

\* Text of the newest piece can be added, and the piece has its place then.
LEMMA ExtendGood ==
  ASSUME NEW f, NEW s, NEW c, NEW o, NEW bs, Good(f, s, c, o, bs),
         NEW key \in Keys, NEW kind \in Kinds, CanTake(f, bs, key, kind),
         NEW w, Newest(s, SlotOf(f, NewBlock(key, kind)), w),
         w = <<>> \/ Older(Len(s), bs),
         NEW p, p = o \/ (p = "open" /\ w # <<>>)
  PROVE  /\ Good(f, s, c, p, Extend(bs, key, kind, w))
         /\ Takes(bs, key, kind, Extend(bs, key, kind, w))
<1> DEFINE cs == Extend(bs, key, kind, w)
<1>1. bs \in Seq(Block) /\ w \in Seq(Int)
  BY DEF Good, Stage, Newest
<1>2. PICK a, k : Extended(bs, key, kind, a, k, w, cs)
  BY <1>1, ExtendIs
<1> HIDE DEF cs
<1>3. /\ Widened(bs, key, kind, a) /\ k \in DOMAIN a /\ a[k].key = key /\ Puts(a, k, w, cs)
  BY <1>2 DEF Extended
<1>4. /\ Good(f, s, c, o, a)
      /\ a \in Seq(Block) /\ DOMAIN bs \subseteq DOMAIN a
      /\ \A i \in DOMAIN bs : a[i] = bs[i]
      /\ \A i \in DOMAIN a \ DOMAIN bs :
           /\ a[i].key = key /\ a[i].kind = kind /\ a[i].fallback = <<>> /\ ~ a[i].done
           /\ a[i].text = <<>>
      /\ ~ a[k].done /\ a[k].kind = kind /\ a[k].fallback = <<>>
  BY <1>3, WidenGood
<1>5. SlotOf(f, a[k]) = SlotOf(f, NewBlock(key, kind))
  BY <1>3, <1>4 DEF SlotOf, NewBlock
<1>6. w = <<>> \/ Older(Len(s), a)
  BY <1>4 DEF Older
<1>7. Texts(f, s, a) /\ Stage(f, s, c, a) /\ AllPlaced(o, s, a)
  BY <1>4 DEF Good, Stage, Core
<1>8. Texts(f, s, cs)
  BY <1>3, <1>4, <1>5, <1>6, <1>7, PutTexts
<1>9. Stage(f, s, c, cs)
  BY <1>3, <1>4, <1>7, <1>8, PutEdited, EditStage
<1>10. AllPlaced(p, s, cs)
  BY <1>3, <1>4, <1>7, PutPlaced
<1>11. /\ DOMAIN cs = DOMAIN a /\ cs \in Seq(Block)
       /\ \A i \in DOMAIN a : /\ cs[i].key = a[i].key /\ cs[i].kind = a[i].kind
                              /\ cs[i].fallback = a[i].fallback /\ cs[i].done = a[i].done
                              /\ i # k => cs[i] = a[i]
  BY <1>3 DEF Puts
<1>12. Takes(bs, key, kind, cs)
  BY <1>1, <1>3, <1>4, <1>11 DEF Takes, Has
<1> QED
  BY <1>9, <1>10, <1>12 DEF Good, cs

\* Some blocks became done.
LEMMA CloseGood ==
  ASSUME NEW f, NEW s, NEW c, NEW o, NEW bs, Good(f, s, c, o, bs), NEW cs, CloseSome(bs, cs)
  PROVE  Good(f, s, c, o, cs)
<1>1. Texts(f, s, bs) /\ Stage(f, s, c, bs) /\ AllPlaced(o, s, bs) /\ Filled(bs)
  BY DEF Good, Stage, Core, Texts
<1>2. Texts(f, s, cs) /\ Edited(bs, cs) /\ AllPlaced(o, s, cs)
  BY <1>1, CloseTexts, CloseEdited, ClosePlaced
<1>3. Stage(f, s, c, cs)
  BY <1>1, <1>2, EditStage
<1> QED
  BY <1>2, <1>3 DEF Good

\* Block k got a larger header, and fallback w for none.
Heads(bs, k, w, cs) ==
  /\ bs \in Seq(Block) /\ cs \in Seq(Block) /\ k \in DOMAIN bs /\ DOMAIN cs = DOMAIN bs
  /\ \A i \in DOMAIN bs : i # k => cs[i] = bs[i]
  /\ bs[k].header \subseteq cs[k].header
  /\ bs[k].fallback = <<>> /\ cs[k].fallback = w
  /\ cs[k].text = bs[k].text
  /\ cs[k].key = bs[k].key /\ cs[k].kind = bs[k].kind /\ cs[k].done = bs[k].done
  /\ cs[k].started = bs[k].started /\ cs[k].ended = bs[k].ended /\ cs[k].sent = bs[k].sent

\* A larger header, or arguments in a tool's start, leave the blocks as they
\* should be.
LEMMA HeadGood ==
  ASSUME NEW f, NEW s, NEW c, NEW o, NEW bs, Good(f, s, c, o, bs),
         NEW k, NEW w, NEW cs, Heads(bs, k, w, cs), Newest(s, SlotOf(f, bs[k]), w),
         NEW p, p = o \/ (p = "open" /\ w # <<>> /\ Pending(bs[k]))
  PROVE  Good(f, s, c, p, cs)
<1>1. /\ bs \in Seq(Block) /\ cs \in Seq(Block) /\ k \in DOMAIN bs /\ DOMAIN cs = DOMAIN bs
      /\ \A i \in DOMAIN bs : /\ cs[i].key = bs[i].key /\ cs[i].kind = bs[i].kind
                              /\ cs[i].done = bs[i].done /\ cs[i].text = bs[i].text
                              /\ bs[i].header \subseteq cs[i].header
                              /\ cs[i].started = bs[i].started /\ cs[i].ended = bs[i].ended
                              /\ cs[i].sent = bs[i].sent
                              /\ i # k => cs[i] = bs[i]
  BY DEF Heads
<1>2. Texts(f, s, bs) /\ Stage(f, s, c, bs) /\ AllPlaced(o, s, bs)
  BY DEF Good, Stage, Core
<1>3. \A i \in DOMAIN bs : SlotOf(f, cs[i]) = SlotOf(f, bs[i])
  BY <1>1 DEF SlotOf
<1>4. Edited(bs, cs)
  <2>1. \A i \in DOMAIN bs : Len(bs[i].text) \in Nat
    <3>1. \A i \in DOMAIN bs : bs[i] \in Block
      BY <1>1, LenProperties
    <3> QED
      BY <3>1, LenProperties DEF Block
  <2>2. \A i \in DOMAIN bs : Grown(bs[i], cs[i])
    BY <1>1, <2>1 DEF Grown
  <2> QED
    BY <1>1, <2>2 DEF Edited
<1>5. Texts(f, s, cs)
  <2>1. OneKey(cs) /\ KeyOfKind(f, cs)
    BY <1>1, <1>2 DEF Texts, OneKey, KeyOfKind
  <2>2. Filled(cs)
    BY <1>1, <1>2 DEF Texts, Filled
  <2>3. Successive(f, cs)
    BY <1>1, <1>2, <1>3 DEF Texts, Successive
  <2>4. OfSlot(f, s, cs)
    <3>1. SaidThere(s, SlotOf(f, bs[k]), w)
      BY DEF SaidThere, Newest
    <3>2. Ascending(w)
      <4>1. \A x, y \in DOMAIN w : x = y
        <5> SUFFICES ASSUME NEW x \in DOMAIN w, NEW y \in DOMAIN w PROVE x = y
          OBVIOUS
        <5>1. Len(w) = 1 /\ DOMAIN w = 1 .. Len(w)
          BY LenProperties DEF Newest
        <5> QED
          BY <5>1
      <4>2. \A x \in DOMAIN w : ~ (x < x)
        <5>1. w \in Seq(Int)
          BY DEF Newest
        <5>2. \A x \in DOMAIN w : x \in Nat
          BY <5>1, LenProperties
        <5> QED
          BY <5>2
      <4> QED
        BY <4>1, <4>2 DEF Ascending
    <3>3. cs[k].fallback = w
      BY DEF Heads
    <3> SUFFICES ASSUME NEW i \in DOMAIN bs
                 PROVE  /\ SaidThere(s, SlotOf(f, bs[i]), cs[i].text)
                        /\ SaidThere(s, SlotOf(f, bs[i]), cs[i].fallback)
                        /\ Ascending(cs[i].text) /\ Ascending(cs[i].fallback)
      BY <1>1, <1>3 DEF OfSlot
    <3>4. /\ SaidThere(s, SlotOf(f, bs[i]), bs[i].text) /\ Ascending(bs[i].text)
          /\ SaidThere(s, SlotOf(f, bs[i]), bs[i].fallback) /\ Ascending(bs[i].fallback)
      BY <1>2 DEF Texts, OfSlot
    <3> QED
      BY <1>1, <3>1, <3>2, <3>3, <3>4
  <2> QED
    BY <2>1, <2>2, <2>3, <2>4 DEF Texts
<1>6. AllPlaced(p, s, cs)
  <2>1. ASSUME NEW n, Placed(s, bs, n) PROVE Placed(s, cs, n)
    <3>1. PICK i \in DOMAIN bs : Holds(bs[i].text, n) \/ (Pending(bs[i]) /\ Holds(bs[i].fallback, n))
      BY <2>1 DEF Placed
    <3>2. i = k => Holds(bs[k].text, n)
      BY <3>1 DEF Holds, Heads
    <3> QED
      BY <1>1, <3>1, <3>2 DEF Placed
  <2>2. ASSUME w # <<>>, Pending(bs[k]) PROVE Placed(s, cs, Len(s))
    <3>1. 1 \in DOMAIN w
      <4>1. w \in Seq(Int)
        BY DEF Newest
      <4>2. Len(w) \in Nat \ {0} /\ DOMAIN w = 1 .. Len(w)
        BY <2>2, <4>1, EmptySeq, LenProperties
      <4> QED
        BY <4>2
    <3>2. Holds(cs[k].fallback, Len(s)) /\ Pending(cs[k])
      BY <2>2, <3>1 DEF Newest, Holds, Heads, Pending
    <3> QED
      BY <1>1, <3>2 DEF Placed
  <2> QED
    BY <1>2, <2>1, <2>2 DEF AllPlaced
<1>7. Stage(f, s, c, cs)
  BY <1>2, <1>4, <1>5, EditStage
<1> QED
  BY <1>6, <1>7 DEF Good

\* The slots r are s and then the slot of a piece that no block has yet.
SaidOneMore(f, s, c, bs, slot, r) ==
  /\ Good(f, r, c, "failed", bs) /\ Older(Len(r), bs)
  /\ r \in Seq(Keys) /\ Len(r) = Len(s) + 1 /\ Len(s) \in Nat
  /\ Len(r) \in DOMAIN r /\ r[Len(r)] = slot

\* The upstream says a piece, and all pieces but that one have a place.
LEMMA SaidMore ==
  ASSUME NEW f, NEW s \in Seq(Keys), NEW c, NEW bs, Good(f, s, c, "open", bs),
         NEW slot \in Keys
  PROVE  SaidOneMore(f, s, c, bs, slot, Append(s, slot))
<1> DEFINE r == Append(s, slot)
<1>1. /\ r \in Seq(Keys) /\ Len(r) = Len(s) + 1 /\ Len(s) \in Nat
      /\ \A n \in 1 .. Len(s) : r[n] = s[n]
      /\ r[Len(s) + 1] = slot
  BY AppendProperties, LenProperties
<1> HIDE DEF r
<1>2. DOMAIN s = 1 .. Len(s) /\ DOMAIN r = 1 .. Len(s) + 1
  BY <1>1, LenProperties
<1>3. DOMAIN s \subseteq DOMAIN r /\ \A n \in DOMAIN s : r[n] = s[n]
  BY <1>1, <1>2
<1>4. Len(r) \in DOMAIN r /\ r[Len(r)] = slot
  BY <1>1, <1>2
<1>5. /\ c \in Seq(EventSet) /\ bs \in Seq(Block)
      /\ Texts(f, s, bs) /\ Sound(f, to, bs) /\ Tied(to, c, bs) /\ Proper(f, to, s, c)
      /\ AllPlaced("open", s, bs)
  BY DEF Good, Stage, Core
<1>6. Older(Len(r), bs)
  <2> SUFFICES ASSUME NEW i \in DOMAIN bs, NEW x \in DOMAIN bs[i].text, bs[i].text[x] # EmptyInput
               PROVE  Abs(bs[i].text[x]) < Len(r)
    BY DEF Older
  <2>1. Abs(bs[i].text[x]) \in DOMAIN s
    BY <1>5 DEF Texts, OfSlot, SaidThere
  <2> QED
    BY <1>1, <1>2, <2>1
<1>7. Texts(f, r, bs)
  BY <1>3, <1>5 DEF Texts, OfSlot, SaidThere
<1>8. ASSUME NEW j \in DOMAIN c, c[j].type = "delta", NEW x \in DOMAIN c[j].text,
             c[j].text[x] # EmptyInput
      PROVE  r[Abs(c[j].text[x])] = s[Abs(c[j].text[x])]
  <2>1. PICK i \in DOMAIN bs : Tells(to, c[j], bs, i)
    BY <1>5, <1>8 DEF Tied, Owned, IsOfBlock
  <2>2. PICK y \in 1 .. bs[i].sent : c[j].text[x] = bs[i].text[y]
    BY <1>8, <2>1 DEF Tells
  <2>3. y \in DOMAIN bs[i].text
    <3>1. bs[i] \in Block
      BY <1>5, LenProperties
    <3>2. bs[i].text \in Seq(Int) /\ bs[i].sent \in Nat
      BY <3>1 DEF Block
    <3>3. Len(bs[i].text) \in Nat /\ DOMAIN bs[i].text = 1 .. Len(bs[i].text)
      BY <3>2, LenProperties
    <3>4. bs[i].sent <= Len(bs[i].text)
      BY <1>5 DEF Sound, Progress
    <3> QED
      BY <3>2, <3>3, <3>4
  <2>4. Abs(c[j].text[x]) \in DOMAIN s
    BY <1>5, <1>8, <2>2, <2>3 DEF Texts, OfSlot, SaidThere
  <2> QED
    BY <1>3, <2>4
<1>9. InOrder(r, c)
  BY <1>5, <1>8 DEF Proper, InOrder
<1>10. Stage(f, r, c, bs)
  BY <1>5, <1>7, <1>9 DEF Stage, Core, Proper
<1>11. AllPlaced("failed", r, bs)
  <2> SUFFICES ASSUME NEW n \in DOMAIN r PROVE Placed(r, bs, n) \/ n = Len(r)
    BY DEF AllPlaced
  <2>1. CASE n \in DOMAIN s
    <3>1. Placed(s, bs, n)
      BY <1>5, <2>1 DEF AllPlaced
    <3> QED
      BY <3>1 DEF Placed
  <2>2. CASE n \notin DOMAIN s
    BY <1>1, <1>2, <2>2
  <2> QED
    BY <2>1, <2>2
<1> QED
  BY <1>1, <1>4, <1>6, <1>10, <1>11 DEF Good, SaidOneMore, r

\* The upstream said nothing, or one piece.
SaidNext == said' = said \/ \E slot \in Keys : said' = Append(said, slot)

\* Pieces that have a place have it whatever the outcome.
LEMMA PlacedAnyway ==
  ASSUME NEW o, NEW s, NEW bs, AllPlaced("open", s, bs)
  PROVE  AllPlaced(o, s, bs)
BY DEF AllPlaced

\* Whether the upstream's answer is whole.
EndsRight(final) == final => up'.phase = "ended" \/ (from = "chat" /\ stop' # "")

\* Push, and what it makes of the events and the blocks: it fails and leaves
\* them, it renders what is due, or it ends the answer.
LEMMA PushSound ==
  ASSUME Inv, outcome = "open", from # to, NEW bs, NEW reason \in Reasons, NEW final \in BOOLEAN,
         Push(bs, reason, final), SaidNext, Whole(bs, final), Good(from, said', client, "open", bs)
  PROVE  /\ from' = from /\ to' = to /\ stop' = reason
         /\ Good(from, said', client', outcome', blocks')
         /\ started' \in BOOLEAN /\ said' \in Seq(Keys)
         /\ \/ outcome' = "failed" /\ NoFinish(client')
            \/ outcome' = "open" /\ final = FALSE /\ NoFinish(client') /\ blocks' = Shown(bs, Len(bs))
            \/ /\ outcome' = "finished" /\ final = TRUE /\ EndedFor(client', reason)
               /\ AllDone(blocks') /\ AllAlike(bs, blocks')
<1>1. from' = from /\ to' = to /\ stop' = reason /\ render(bs, reason, final)
  BY DEF Push
<1>2. NoFinish(client)
  BY DEF Inv, Ends, NoFinish
<1>3. /\ said \in Seq(Keys) /\ started \in BOOLEAN
      /\ client \in Seq(EventSet) /\ blocks \in Seq(Block)
  BY DEF Inv, TypeOK
<1>4. Good(from, said, client, "open", blocks)
  BY <1>3 DEF Inv, Good, Stage
<1>5. Good(from, said', client, "failed", blocks) /\ said' \in Seq(Keys)
  <2>1. CASE said' = said
    BY <1>3, <1>4, <2>1, PlacedAnyway DEF Good
  <2>2. CASE \E slot \in Keys : said' = Append(said, slot)
    <3>1. PICK slot \in Keys : said' = Append(said, slot)
      BY <2>2
    <3>2. SaidOneMore(from, said, client, blocks, slot, Append(said, slot))
      BY <1>3, <1>4, SaidMore
    <3>3. SaidOneMore(from, said, client, blocks, slot, said')
      BY <3>1, <3>2
    <3> QED
      BY <3>3 DEF SaidOneMore
  <2> QED
    BY <2>1, <2>2 DEF SaidNext
<1>6. CASE Broken(bs, final)
  <2>1. outcome' = "failed" /\ UNCHANGED <<blocks, started, client>>
    BY <1>1, <1>6 DEF render, Fail
  <2> QED
    BY <1>1, <1>2, <1>3, <1>5, <2>1
<1>7. CASE ~ Broken(bs, final)
  <2>1. Stage(from, said', client, bs) /\ AllPlaced("open", said', bs) /\ bs \in Seq(Block)
    BY DEF Good, Stage
  <2>2. /\ Stage(from, said', client', blocks')
        /\ blocks' = Shown(bs, Len(bs)) /\ started' = TRUE
        /\ outcome' = IF final THEN "finished" ELSE "open"
        /\ ~ final => NoFinish(client')
        /\ final => EndedFor(client', reason) /\ AllDone(blocks')
    BY <1>1, <1>2, <1>3, <1>7, <2>1, RenderStep
  <2>3. AllAlike(bs, blocks')
    <3>1. Len(bs) \in Nat
      BY <2>1, LenProperties
    <3> QED
      BY <2>1, <2>2, <3>1, ShownFacts
  <2>4. AllPlaced(outcome', said', blocks')
    BY <2>1, <2>3, AlikePlaced, PlacedAnyway
  <2>5. Good(from, said', client', outcome', blocks')
    BY <2>2, <2>4 DEF Good
  <2>6. CASE final = TRUE
    BY <1>1, <1>5, <2>2, <2>3, <2>5, <2>6
  <2>7. CASE final = FALSE
    BY <1>1, <1>5, <2>2, <2>5, <2>7
  <2> QED
    BY <2>6, <2>7
<1> QED
  BY <1>6, <1>7

\* Types of what Push leaves alone.
Steady ==
  /\ chatText' \in Nat /\ chatThinking' \in Nat
  /\ up' \in UpSet

\* Push preserves the invariant when the blocks it gets are as they should be.
LEMMA PushStep ==
  ASSUME Inv, outcome = "open", from # to, NEW bs, NEW reason \in Reasons, NEW final \in BOOLEAN,
         Push(bs, reason, final), SaidNext, Steady, Whole(bs, final), EndsRight(final),
         Good(from, said', client, "open", bs),
         final = FALSE => Following(from, up', chatText', chatThinking', bs)
  PROVE  Inv'
<1>1. /\ from' = from /\ to' = to /\ stop' = reason
      /\ Good(from, said', client', outcome', blocks')
      /\ started' \in BOOLEAN /\ said' \in Seq(Keys)
      /\ \/ outcome' = "failed" /\ NoFinish(client')
         \/ outcome' = "open" /\ final = FALSE /\ NoFinish(client') /\ blocks' = Shown(bs, Len(bs))
         \/ /\ outcome' = "finished" /\ final = TRUE /\ EndedFor(client', reason)
            /\ AllDone(blocks') /\ AllAlike(bs, blocks')
  BY PushSound
<1>2. /\ client' \in Seq(EventSet) /\ blocks' \in Seq(Block)
      /\ Core(from', to', said', client', blocks') /\ AllPlaced(outcome', said', blocks')
  BY <1>1 DEF Good, Stage
<1>3. TypeOK'
  <2>1. from' \in Protocols /\ to' \in Protocols
    BY <1>1 DEF Inv, TypeOK
  <2>2. outcome' \in {"open", "finished", "failed"}
    BY <1>1
  <2> QED
    BY <1>1, <1>2, <2>1, <2>2 DEF TypeOK, Steady
<1>4. bs \in Seq(Block) /\ Len(bs) \in Nat /\ \A i \in DOMAIN bs : i <= Len(bs)
  <2>1. bs \in Seq(Block)
    BY DEF Good, Stage
  <2>2. DOMAIN bs = 1 .. Len(bs) /\ Len(bs) \in Nat
    BY <2>1, LenProperties
  <2> QED
    BY <2>1, <2>2
<1>5. outcome' = "open" => Following(from', up', chatText', chatThinking', blocks')
  <2> SUFFICES ASSUME outcome' = "open"
               PROVE  Following(from, up', chatText', chatThinking', blocks')
    BY <1>1
  <2>1. Following(from, up', chatText', chatThinking', bs) /\ blocks' = Shown(bs, Len(bs))
    BY <1>1
  <2>2. AllAlike(bs, blocks')
    BY <1>4, <2>1, ShownFacts
  <2> QED
    BY <2>1, <2>2, AlikeFollowing
<1>6. Ends'
  <2>1. \A k \in DOMAIN client' :
          client'[k].type = "finish" => k = Len(client') /\ outcome' = "finished"
    BY <1>1 DEF NoFinish, EndedFor
  <2>2. outcome' = "finished" => client' # <<>> /\ client'[Len(client')].type = "finish"
    BY <1>1 DEF EndedFor
  <2>3. outcome' = "finished" => EndsRight(TRUE)
    BY <1>1
  <2>4. outcome' = "finished" => up'.phase = "ended" \/ (from' = "chat" /\ stop' # "")
    BY <1>1, <2>3 DEF EndsRight
  <2>5. outcome' = "finished" =>
          ((client'[Len(client')].reason = "length") <=> (stop' = "length"))
    BY <1>1 DEF EndedFor
  <2> QED
    BY <2>1, <2>2, <2>4, <2>5 DEF Ends
<1>7. Due'
  <2>1. ASSUME outcome' = "open", to # "anthropic", NEW i \in DOMAIN blocks',
               ~ IsHidden(blocks'[i])
        PROVE  blocks'[i].sent = Len(blocks'[i].text)
    <3>1. blocks' = Shown(bs, Len(bs))
      BY <1>1, <2>1
    <3>2. DOMAIN blocks' = DOMAIN bs /\ AllAlike(bs, blocks')
      BY <1>4, <3>1, ShownFacts
    <3>3. ~ IsHidden(bs[i])
      BY <2>1, <3>2 DEF AllAlike, Alike, IsHidden, IsNamed
    <3>4. Reached(bs, i)
      BY <2>1 DEF Reached, HoldsBack
    <3>5. Progress(bs[i])
      BY <3>2 DEF Good, Stage, Core, Sound
    <3> QED
      BY <1>4, <3>1, <3>2, <3>3, <3>4, <3>5, RenderedAll
  <2>2. ASSUME outcome' = "finished", NEW i \in DOMAIN blocks'
        PROVE  ~ Pending(blocks'[i]) /\ blocks'[i].sent = Len(blocks'[i].text)
    <3>1. AllDone(blocks') /\ AllAlike(bs, blocks') /\ final = TRUE
      BY <1>1, <2>2
    <3>2. bs[i].done
      BY <2>2, <3>1 DEF Whole, AllAlike
    <3> QED
      BY <2>2, <3>1, <3>2 DEF AllDone, AllAlike, Alike, Pending
  <2> QED
    BY <1>1, <2>1, <2>2 DEF Due
<1> QED
  BY <1>1, <1>2, <1>3, <1>5, <1>6, <1>7 DEF Inv

\* A step of the upstream's protocol: what the actions of Push have in common.
LEMMA Talking ==
  ASSUME Inv, NEW protocol, NEW phase, Converting(protocol, phase)
  PROVE  /\ outcome = "open" /\ from # to /\ from = protocol /\ up.phase = phase
         /\ Good(from, said, client, "open", blocks)
         /\ Following(from, up, chatText, chatThinking, blocks)
         /\ blocks \in Seq(Block) /\ said \in Seq(Keys) /\ stop \in Reasons
         /\ chatText \in Nat /\ chatThinking \in Nat
         /\ up \in UpSet
         /\ Len(up.items) \in Nat /\ DOMAIN up.items = 1 .. Len(up.items)
         /\ \A o \in DOMAIN up.items : up.items[o].kind \in Kinds \cup {"whole"}
<1>1. outcome = "open" /\ from # to /\ from = protocol /\ up.phase = phase
  BY DEF Converting
<1>2. /\ blocks \in Seq(Block) /\ said \in Seq(Keys) /\ stop \in Reasons
      /\ chatText \in Nat /\ chatThinking \in Nat /\ client \in Seq(EventSet)
      /\ up \in UpSet
  BY DEF Inv, TypeOK
<1>3. Good(from, said, client, "open", blocks)
  BY <1>1, <1>2 DEF Inv, Good, Stage
<1>4. Following(from, up, chatText, chatThinking, blocks)
  BY <1>1 DEF Inv
<1> DEFINE items == up.items
<1>5. items \in Seq(ItemSet)
  BY <1>2 DEF UpSet
<1> HIDE DEF items
<1>6. Len(items) \in Nat /\ DOMAIN items = 1 .. Len(items) /\ \A o \in DOMAIN items : items[o] \in ItemSet
  BY <1>5, LenProperties
<1>7. \A o \in DOMAIN items : items[o].kind \in Kinds \cup {"whole"}
  BY <1>6 DEF ItemSet
<1> QED
  BY <1>1, <1>2, <1>3, <1>4, <1>6, <1>7 DEF items

\* The piece that is said is the newest.
LEMMA Saying ==
  ASSUME Inv, NEW slot \in Keys, Say(slot), NEW bs, Good(from, said, client, "open", bs)
  PROVE  /\ Good(from, said', client, "failed", bs) /\ Older(Len(said'), bs) /\ SaidNext
         /\ Newest(said', slot, <<Piece>>) /\ Newest(said', slot, <<- Piece>>)
         /\ Piece \in Int
<1>1. said \in Seq(Keys) /\ said' = Append(said, slot)
  BY DEF Inv, TypeOK, Say
<1>2. /\ Good(from, said', client, "failed", bs) /\ Older(Len(said'), bs)
      /\ said' \in Seq(Keys) /\ Len(said') = Len(said) + 1 /\ Len(said) \in Nat
      /\ Len(said') \in DOMAIN said' /\ said'[Len(said')] = slot
  <2>1. SaidOneMore(from, said, client, bs, slot, Append(said, slot))
    BY <1>1, SaidMore
  <2>2. SaidOneMore(from, said, client, bs, slot, said')
    BY <1>1, <2>1
  <2> QED
    BY <2>2 DEF SaidOneMore
<1>3. SaidNext
  BY <1>1 DEF SaidNext
<1>4. Piece = Len(said') /\ Len(said') \in Nat /\ Len(said') > 0
  BY <1>2 DEF Piece
<1> DEFINE n == Len(said')
<1> HIDE DEF n
<1>5. n \in Nat /\ n > 0
  BY <1>4 DEF n
<1>6. ASSUME NEW z \in {n, - n} PROVE Newest(said', slot, <<z>>)
  <2>1. z \in Int /\ z # EmptyInput /\ Abs(z) = n
    BY <1>5 DEF Abs, EmptyInput
  <2> DEFINE w == <<z>>
  <2>2. w \in Seq(Int) /\ Len(w) = 1 /\ \A x \in DOMAIN w : w[x] = z
    BY <2>1
  <2> HIDE DEF w
  <2>3. Newest(said', slot, w)
    BY <1>2, <1>4, <2>1, <2>2 DEF Newest, n
  <2> QED
    BY <2>3 DEF w
<1>7. Newest(said', slot, <<n>>) /\ Newest(said', slot, <<- n>>)
  BY <1>6
<1>8. Piece = n /\ - Piece = - n
  BY <1>4 DEF n
<1> QED
  BY <1>2, <1>3, <1>5, <1>7, <1>8

\* No text at all is said in any slot.
LEMMA NoneNewest ==
  ASSUME NEW s \in Seq(Keys), NEW slot
  PROVE  Newest(s, slot, <<>>)
<1>1. <<>> \in Seq(Int) /\ DOMAIN <<>> = {} /\ Len(s) \in Nat
  BY LenProperties
<1> QED
  BY <1>1 DEF Newest

\* Said text goes to the blocks of a key that can take it.
LEMMA SayGood ==
  ASSUME Inv, NEW bs, Good(from, said, client, "open", bs),
         NEW key \in Keys, NEW kind \in Kinds, CanTake(from, bs, key, kind),
         NEW slot \in Keys, slot = SlotOf(from, NewBlock(key, kind)), Say(slot),
         NEW w, w = <<Piece>> \/ w = <<- Piece>>
  PROVE  /\ Good(from, said', client, "open", Extend(bs, key, kind, w))
         /\ Takes(bs, key, kind, Extend(bs, key, kind, w)) /\ SaidNext
<1>1. /\ Good(from, said', client, "failed", bs) /\ Older(Len(said'), bs) /\ SaidNext
      /\ Newest(said', slot, w)
  BY Saying
<1>2. w # <<>>
  OBVIOUS
<1>3. Newest(said', SlotOf(from, NewBlock(key, kind)), w)
  BY <1>1
<1> DEFINE p == "open"
           o == "failed"
<1>4. p = o \/ (p = "open" /\ w # <<>>)
  BY <1>2
<1>5. Good(from, said', client, o, bs)
  BY <1>1
<1> HIDE DEF p, o
<1>6. /\ Good(from, said', client, p, Extend(bs, key, kind, w))
      /\ Takes(bs, key, kind, Extend(bs, key, kind, w))
  BY <1>1, <1>3, <1>4, <1>5, ExtendGood
<1> QED
  BY <1>1, <1>6 DEF p

\* Closing some of the blocks.
LEMMA CloseThoseIs ==
  ASSUME NEW bs \in Seq(Block), NEW cs, DOMAIN cs = DOMAIN bs,
         \A i \in DOMAIN bs : cs[i] = closeBlock(bs[i]) \/ cs[i] = bs[i],
         cs = [i \in DOMAIN bs |-> cs[i]]
  PROVE  CloseSome(bs, cs)
<1>1. /\ DOMAIN bs = 1 .. Len(bs) /\ Len(bs) \in Nat
      /\ \A i \in DOMAIN bs : bs[i] \in Block
  BY LenProperties
<1>2. \A i \in DOMAIN bs : closeBlock(bs[i]) \in Block /\ Closes(bs[i], closeBlock(bs[i]))
  BY <1>1, CloseBlock
<1>3. \A i \in DOMAIN bs : cs[i] \in Block
  BY <1>1, <1>2
<1>4. cs \in Seq(Block)
  BY <1>1, <1>3
<1> QED
  BY <1>2, <1>4 DEF CloseSome

\* All of them,
LEMMA CloseAllIs ==
  ASSUME NEW bs \in Seq(Block)
  PROVE  /\ CloseSome(bs, closeAll(bs))
         /\ \A i \in DOMAIN bs : closeAll(bs)[i].done
<1> DEFINE cs == closeAll(bs)
<1>1. cs = [i \in DOMAIN bs |-> closeBlock(bs[i])]
  BY DEF closeAll, CloseThose
<1>2. DOMAIN cs = DOMAIN bs /\ \A i \in DOMAIN bs : cs[i] = closeBlock(bs[i])
  BY <1>1
<1>3. cs = [i \in DOMAIN bs |-> cs[i]]
  BY <1>1
<1> HIDE DEF cs
<1>4. CloseSome(bs, cs)
  BY <1>2, <1>3, CloseThoseIs
<1>5. \A i \in DOMAIN bs : cs[i].done
  <2> TAKE i \in DOMAIN bs
  <2>1. bs[i] \in Block
    BY LenProperties
  <2> QED
    BY <1>2, <2>1, CloseBlock DEF Closes
<1> QED
  BY <1>4, <1>5 DEF cs

\* all but the tools,
LEMMA CloseOthersIs ==
  ASSUME NEW bs \in Seq(Block)
  PROVE  LET cs == CloseThose(bs, LAMBDA b : b.kind # "tool")
         IN  /\ CloseSome(bs, cs)
             /\ \A i \in DOMAIN bs : IF bs[i].kind # "tool" THEN cs[i].done ELSE cs[i] = bs[i]
<1> DEFINE cs == CloseThose(bs, LAMBDA b : b.kind # "tool")
<1>1. cs = [i \in DOMAIN bs |-> IF bs[i].kind # "tool" THEN closeBlock(bs[i]) ELSE bs[i]]
  BY DEF CloseThose
<1>2. DOMAIN cs = DOMAIN bs
      /\ \A i \in DOMAIN bs : cs[i] = IF bs[i].kind # "tool" THEN closeBlock(bs[i]) ELSE bs[i]
  BY <1>1
<1>3. cs = [i \in DOMAIN bs |-> cs[i]]
  BY <1>1
<1> HIDE DEF cs
<1>4. CloseSome(bs, cs)
  BY <1>2, <1>3, CloseThoseIs
<1>5. \A i \in DOMAIN bs : IF bs[i].kind # "tool" THEN cs[i].done ELSE cs[i] = bs[i]
  <2> TAKE i \in DOMAIN bs
  <2>1. bs[i] \in Block
    BY LenProperties
  <2> QED
    BY <1>2, <2>1, CloseBlock DEF Closes
<1> QED
  BY <1>4, <1>5 DEF cs

\* The blocks once those of a key were closed.
ClosedAt(bs, key) ==
  [i \in DOMAIN bs |-> IF bs[i].key = key THEN closeBlock(bs[i]) ELSE bs[i]]

\* or those of one key.
LEMMA CloseKeyIs ==
  ASSUME NEW bs \in Seq(Block), NEW key
  PROVE  LET cs == ClosedAt(bs, key)
         IN  /\ CloseSome(bs, cs)
             /\ \A i \in DOMAIN bs : IF bs[i].key = key THEN cs[i].done ELSE cs[i] = bs[i]
<1> DEFINE cs == ClosedAt(bs, key)
<1>1. cs = [i \in DOMAIN bs |-> IF bs[i].key = key THEN closeBlock(bs[i]) ELSE bs[i]]
  BY DEF ClosedAt
<1>2. DOMAIN cs = DOMAIN bs
      /\ \A i \in DOMAIN bs : cs[i] = IF bs[i].key = key THEN closeBlock(bs[i]) ELSE bs[i]
  BY <1>1
<1>3. cs = [i \in DOMAIN bs |-> cs[i]]
  BY <1>1
<1> HIDE DEF cs
<1>4. CloseSome(bs, cs)
  BY <1>2, <1>3, CloseThoseIs
<1>5. \A i \in DOMAIN bs : IF bs[i].key = key THEN cs[i].done ELSE cs[i] = bs[i]
  <2> TAKE i \in DOMAIN bs
  <2>1. bs[i] \in Block
    BY LenProperties
  <2> QED
    BY <1>2, <2>1, CloseBlock DEF Closes
<1> QED
  BY <1>4, <1>5 DEF cs

\* The upstream goes on to another phase,
LEMMA UpPhase ==
  ASSUME NEW u \in UpSet, NEW phase \in {"talking", "stopped", "ended"}
  PROVE  LET v == [u EXCEPT !.phase = phase]
         IN  v \in UpSet /\ v.phase = phase /\ v.items = u.items
BY DEF UpSet

\* begins an item
LEMMA UpAdded ==
  ASSUME NEW u \in UpSet, NEW it \in ItemSet
  PROVE  LET v == [u EXCEPT !.items = Append(@, it)]
         IN  /\ v \in UpSet /\ v.phase = u.phase /\ Len(u.items) \in Nat
             /\ Len(v.items) = Len(u.items) + 1
             /\ DOMAIN u.items = 1 .. Len(u.items) /\ DOMAIN v.items = 1 .. Len(u.items) + 1
             /\ \A o \in 1 .. Len(u.items) : v.items[o] = u.items[o]
             /\ v.items[Len(u.items) + 1] = it
<1> DEFINE a == u.items
           b == Append(a, it)
           v == [u EXCEPT !.items = b]
<1>1. a \in Seq(ItemSet)
  BY DEF UpSet
<1>2. /\ b \in Seq(ItemSet) /\ Len(b) = Len(a) + 1 /\ Len(a) \in Nat
      /\ \A o \in 1 .. Len(a) : b[o] = a[o]
      /\ b[Len(a) + 1] = it
  <2> HIDE DEF a
  <2> QED
    BY <1>1, AppendProperties, LenProperties
<1>3. DOMAIN a = 1 .. Len(a) /\ DOMAIN b = 1 .. Len(a) + 1
  <2> HIDE DEF a, b
  <2> QED
    BY <1>1, <1>2, LenProperties
<1> HIDE DEF b
<1>4. v \in UpSet /\ v.phase = u.phase /\ v.items = b
  BY <1>2 DEF UpSet
<1> QED
  BY <1>2, <1>3, <1>4 DEF b

\* Item t of the upstream is no longer open.
Shut(u, t, v) ==
  /\ v \in UpSet /\ v.phase = u.phase /\ Len(v.items) = Len(u.items)
  /\ DOMAIN v.items = DOMAIN u.items
  /\ \A o \in DOMAIN u.items : v.items[o].kind = u.items[o].kind
  /\ \A o \in DOMAIN u.items : o # t => v.items[o] = u.items[o]
  /\ v.items[t].open = FALSE

\* or ends one.
LEMMA UpShut ==
  ASSUME NEW u \in UpSet, NEW t \in DOMAIN u.items
  PROVE  Shut(u, t, [u EXCEPT !.items[t].open = FALSE])
<1> DEFINE a == u.items
           it == [a[t] EXCEPT !.open = FALSE]
           b == [a EXCEPT ![t] = it]
           v == [u EXCEPT !.items = b]
<1>1. a \in Seq(ItemSet) /\ t \in DOMAIN a
  BY DEF UpSet
<1>2. [u EXCEPT !.items[t].open = FALSE] = v
  OBVIOUS
<1> HIDE DEF a
<1>3. a[t] \in ItemSet /\ t \in 1 .. Len(a)
  BY <1>1, LenProperties
<1>4. it \in ItemSet /\ it.kind = a[t].kind /\ it.open = FALSE
  BY <1>3 DEF ItemSet
<1> HIDE DEF it
<1>5. /\ b \in Seq(ItemSet) /\ Len(b) = Len(a) /\ DOMAIN b = DOMAIN a
      /\ b[t] = it /\ \A o \in DOMAIN a : o # t => b[o] = a[o]
  <2>1. b \in Seq(ItemSet) /\ DOMAIN b = DOMAIN a /\ b[t] = it /\ \A o \in DOMAIN a : o # t => b[o] = a[o]
    BY <1>1, <1>3, <1>4, ExceptSeq
  <2>2. Len(b) = Len(a)
    <3> HIDE DEF b
    <3>1. DOMAIN a = 1 .. Len(a) /\ DOMAIN b = 1 .. Len(b) /\ Len(a) \in Nat /\ Len(b) \in Nat
      BY <1>1, <2>1, LenProperties
    <3> QED
      BY <2>1, <3>1
  <2> QED
    BY <2>1, <2>2
<1> HIDE DEF b
<1>6. v \in UpSet /\ v.phase = u.phase /\ v.items = b
  BY <1>5 DEF UpSet
<1> HIDE DEF v
<1>7. Shut(u, t, v)
  BY <1>4, <1>5, <1>6 DEF a, Shut
<1> QED
  BY <1>2, <1>7

\* Closing all blocks makes the answer whole.
LEMMA CloseAllGood ==
  ASSUME NEW f, NEW s, NEW c, NEW o, NEW bs, Good(f, s, c, o, bs)
  PROVE  /\ Good(f, s, c, o, closeAll(bs)) /\ Whole(closeAll(bs), TRUE)
         /\ CloseSome(bs, closeAll(bs))
<1>1. bs \in Seq(Block)
  BY DEF Good, Stage
<1>2. CloseSome(bs, closeAll(bs)) /\ \A i \in DOMAIN bs : closeAll(bs)[i].done
  BY <1>1, CloseAllIs
<1>3. DOMAIN closeAll(bs) = DOMAIN bs
  BY <1>2 DEF CloseSome
<1>4. Good(f, s, c, o, closeAll(bs))
  BY <1>2, CloseGood
<1> QED
  BY <1>2, <1>3, <1>4 DEF Whole

\* The end of an answer: all blocks are closed.
LEMMA FinalStep ==
  ASSUME Inv, outcome = "open", from # to, NEW bs, NEW reason \in Reasons,
         Push(closeAll(bs), reason, TRUE), SaidNext, Steady, EndsRight(TRUE),
         Good(from, said', client, "open", bs)
  PROVE  Inv'
<1>1. Good(from, said', client, "open", closeAll(bs)) /\ Whole(closeAll(bs), TRUE)
  BY CloseAllGood
<1> DEFINE cs == closeAll(bs)
           final == TRUE
<1>2. final \in BOOLEAN /\ final # FALSE
  OBVIOUS
<1>3. Good(from, said', client, "open", cs) /\ Whole(cs, final) /\ Push(cs, reason, final)
      /\ EndsRight(final)
  BY <1>1
<1> HIDE DEF cs, final
<1> QED
  BY <1>2, <1>3, PushStep

\* A step that is not the end.
LEMMA OpenStep ==
  ASSUME Inv, outcome = "open", from # to, NEW bs, NEW reason \in Reasons,
         Push(bs, reason, FALSE), SaidNext, Steady,
         Good(from, said', client, "open", bs),
         Following(from, up', chatText', chatThinking', bs)
  PROVE  Inv'
<1> DEFINE final == FALSE
<1>1. final \in BOOLEAN /\ Push(bs, reason, final) /\ Whole(bs, final) /\ EndsRight(final)
  BY DEF Whole, EndsRight
<1> HIDE DEF final
<1> QED
  BY <1>1, PushStep

\* An event without content preserves the invariant.
LEMMA SilenceStep ==
  ASSUME Inv, Silence
  PROVE  Inv'
<1>1. PICK protocol, phase : Converting(protocol, phase)
  BY DEF Silence
<1>2. /\ outcome = "open" /\ from # to /\ Good(from, said, client, "open", blocks)
      /\ Following(from, up, chatText, chatThinking, blocks)
      /\ stop \in Reasons /\ chatText \in Nat /\ chatThinking \in Nat /\ up \in UpSet
  BY <1>1, Talking
<1>3. Push(blocks, stop, FALSE) /\ said' = said /\ up' = up
      /\ chatText' = chatText /\ chatThinking' = chatThinking
  BY DEF Silence, SameChatBlocks
<1>4. SaidNext /\ Steady
  BY <1>2, <1>3 DEF SaidNext, Steady
<1> QED
  BY <1>2, <1>3, <1>4, OpenStep

-----------------------------------------------------------------------------
(* Chat *)

\* After its finish reason a Chat upstream says nothing more.
LEMMA ChatClosed ==
  ASSUME NEW u, NEW v, NEW ct, NEW ck, NEW bs, NEW cs, CloseSome(bs, cs),
         Following("chat", u, ct, ck, bs), v.phase # "talking"
  PROVE  Following("chat", v, ct, ck, cs)
<1> SUFFICES ASSUME NEW i \in DOMAIN bs PROVE ChatBlock(cs[i], v, ct, ck)
  BY DEF CloseSome, Following
<1>1. /\ cs[i].key = bs[i].key /\ cs[i].kind = bs[i].kind /\ cs[i].fallback = bs[i].fallback
  BY ClosedText
<1>2. ChatBlock(bs[i], u, ct, ck)
  BY DEF Following
<1> QED
  BY <1>1, <1>2 DEF ChatBlock

\* The finish reason of a Chat answer preserves the invariant,
LEMMA ChatFinishStep ==
  ASSUME Inv, ChatFinish
  PROVE  Inv'
<1>1. Converting("chat", "talking")
  BY DEF ChatFinish
<1>2. /\ outcome = "open" /\ from # to /\ from = "chat" /\ Good(from, said, client, "open", blocks)
      /\ Following(from, up, chatText, chatThinking, blocks)
      /\ chatText \in Nat /\ chatThinking \in Nat /\ up \in UpSet
  BY <1>1, Talking
<1>3. PICK reason \in {"stop", "length"} : Push(closeAll(blocks), reason, FALSE)
  BY DEF ChatFinish
<1>4. /\ up' = [up EXCEPT !.phase = "stopped"] /\ said' = said
      /\ chatText' = chatText /\ chatThinking' = chatThinking
  BY DEF ChatFinish, SameChatBlocks
<1>5. reason \in Reasons
  BY DEF Reasons
<1>6. up' \in UpSet /\ up'.phase = "stopped"
  BY <1>2, <1>4, UpPhase
<1>7. SaidNext /\ Steady
  BY <1>2, <1>4, <1>6 DEF SaidNext, Steady
<1>8. Good(from, said', client, "open", closeAll(blocks)) /\ CloseSome(blocks, closeAll(blocks))
  BY <1>2, <1>4, CloseAllGood
<1>9. Following(from, up', chatText', chatThinking', closeAll(blocks))
  <2>1. Following("chat", up, chatText, chatThinking, blocks) /\ up'.phase # "talking"
    BY <1>2, <1>6
  <2>2. Following("chat", up', chatText, chatThinking, closeAll(blocks))
    BY <1>8, <2>1, ChatClosed
  <2> QED
    BY <1>2, <1>4, <2>2
<1> QED
  BY <1>2, <1>3, <1>5, <1>7, <1>8, <1>9, OpenStep

\* and so does its [DONE].
LEMMA ChatDoneStep ==
  ASSUME Inv, ChatDone
  PROVE  Inv'
<1>1. PICK phase \in {"talking", "stopped"} : Converting("chat", phase)
  BY DEF ChatDone
<1>2. /\ outcome = "open" /\ from # to /\ Good(from, said, client, "open", blocks)
      /\ stop \in Reasons /\ chatText \in Nat /\ chatThinking \in Nat /\ up \in UpSet
  BY <1>1, Talking
<1>3. /\ Push(closeAll(blocks), stop, TRUE)
      /\ up' = [up EXCEPT !.phase = "ended"] /\ said' = said
      /\ chatText' = chatText /\ chatThinking' = chatThinking
  BY DEF ChatDone, SameChatBlocks
<1>4. up' \in UpSet /\ up'.phase = "ended"
  BY <1>2, <1>3, UpPhase
<1>5. SaidNext /\ Steady /\ EndsRight(TRUE)
  BY <1>2, <1>3, <1>4 DEF SaidNext, Steady, EndsRight
<1> QED
  BY <1>2, <1>3, <1>5, FinalStep

\* The blocks of one kind of a Chat answer, up to number n.
Counted(bs, kind, n) ==
  \A i \in DOMAIN bs :
    /\ bs[i].key = <<bs[i].kind, bs[i].key[2]>> /\ bs[i].fallback = <<>>
    /\ bs[i].kind = kind => bs[i].key[2] \in 0 .. n /\ (bs[i].key[2] < n => bs[i].done)

\* The current text block, or the next, can take text.
LEMMA CurrentTakes ==
  ASSUME OneKey(blocks), NEW kind \in {"text", "thinking"}, NEW n \in Nat,
         Counted(blocks, kind, n), NEW m, m = Current(kind, n)
  PROVE  /\ m \in Nat /\ n <= m /\ <<kind, m>> \in Keys
         /\ CanTake("chat", blocks, <<kind, m>>, kind)
         /\ \A i \in DOMAIN blocks :
              (blocks[i].kind = kind /\ blocks[i].key[2] < m) => blocks[i].done
<1> DEFINE bs == blocks
           now == <<kind, n>>
<1>1. m = IF Has(bs, now) /\ bs[At(bs, now)].done THEN n + 1 ELSE n
  BY DEF Current
<1>2. m \in Nat /\ n <= m
  BY <1>1
<1>3. <<kind, m>> \in Keys
  BY <1>2 DEF Keys, Kinds
<1>4. \A i \in DOMAIN bs : bs[i].kind = kind => bs[i].key = <<kind, bs[i].key[2]>>
  BY DEF Counted
<1>5. ASSUME NEW i \in DOMAIN bs, bs[i].kind = kind, bs[i].key[2] < m
      PROVE  bs[i].done
  <2>1. bs[i].key[2] \in 0 .. n /\ (bs[i].key[2] < n => bs[i].done)
    BY <1>5 DEF Counted
  <2>2. CASE bs[i].key[2] < n
    BY <2>1, <2>2
  <2>3. CASE bs[i].key[2] = n
    <3>1. bs[i].key = now
      BY <1>4, <1>5, <2>3
    <3>2. Has(bs, now) /\ bs[At(bs, now)].done
      BY <1>1, <1>5, <2>3
    <3>3. At(bs, now) \in DOMAIN bs /\ bs[At(bs, now)].key = now
      BY <3>2, AtIs
    <3> HIDE DEF now
    <3>4. At(bs, now) = i
      BY <3>1, <3>3 DEF OneKey
    <3> QED
      BY <3>2, <3>4
  <2> QED
    BY <2>1, <2>2, <2>3
<1>6. ASSUME NEW i \in DOMAIN bs, bs[i].key = <<kind, m>>
      PROVE  ~ bs[i].done /\ bs[i].kind = kind /\ bs[i].fallback = <<>>
  <2>1. bs[i].kind = kind /\ bs[i].key[2] = m /\ bs[i].fallback = <<>>
    <3>1. bs[i].key = <<bs[i].kind, bs[i].key[2]>> /\ bs[i].fallback = <<>>
      BY DEF Counted
    <3> QED
      BY <1>6, <3>1
  <2>2. m = n
    <3>1. m \in 0 .. n
      BY <2>1 DEF Counted
    <3> QED
      BY <1>2, <3>1
  <2>3. bs[i].key = now /\ Has(bs, now)
    BY <1>6, <2>2 DEF Has
  <2>4. ~ bs[At(bs, now)].done
    BY <1>1, <2>2, <2>3
  <2>5. At(bs, now) \in DOMAIN bs /\ bs[At(bs, now)].key = now
    BY <2>3, AtIs
  <2> HIDE DEF now
  <2>6. At(bs, now) = i
    BY <2>3, <2>5 DEF OneKey
  <2> QED
    BY <2>1, <2>4, <2>6
<1>7. ASSUME ~ Has(bs, <<kind, m>>), NEW i \in DOMAIN bs,
             SlotOf("chat", bs[i]) = SlotOf("chat", NewBlock(<<kind, m>>, kind))
      PROVE  bs[i].done
  <2>1. SlotOf("chat", NewBlock(<<kind, m>>, kind)) = <<kind, 0>>
    BY DEF SlotOf, NewBlock
  <2>2. bs[i].key = <<bs[i].kind, bs[i].key[2]>>
    BY DEF Counted
  <2>3. bs[i].kind = kind
    BY <1>7, <2>1, <2>2 DEF SlotOf
  <2>4. bs[i].key[2] # m
    BY <1>7, <2>2, <2>3 DEF Has
  <2>5. bs[i].key[2] \in 0 .. n
    BY <2>3 DEF Counted
  <2>6. bs[i].key[2] < m
    BY <1>2, <2>4, <2>5
  <2> QED
    BY <1>5, <2>3, <2>6
<1>8. CanTake("chat", bs, <<kind, m>>, kind)
  <2>1. <<kind, m>> = <<kind, <<kind, m>>[2]>>
    OBVIOUS
  <2> QED
    BY <1>6, <1>7, <2>1 DEF CanTake
<1> QED
  BY <1>2, <1>3, <1>5, <1>8

\* A piece of the text of a Chat answer preserves the invariant,
LEMMA ChatContentStep ==
  ASSUME Inv, ChatContent
  PROVE  Inv'
<1>1. Converting("chat", "talking") /\ Say(<<"text", 0>>)
  BY DEF ChatContent
<1>2. /\ outcome = "open" /\ from # to /\ from = "chat" /\ Good(from, said, client, "open", blocks)
      /\ Following(from, up, chatText, chatThinking, blocks)
      /\ stop \in Reasons /\ chatText \in Nat /\ chatThinking \in Nat /\ up \in UpSet
      /\ up.phase = "talking"
  BY <1>1, Talking
<1> DEFINE m == chatText'
           bs == Extend(blocks, <<"text", m>>, "text", <<Piece>>)
<1>3. /\ m = Current("text", chatText) /\ Push(bs, stop, FALSE)
      /\ chatThinking' = chatThinking /\ up' = up
  BY DEF ChatContent
<1>4. \A i \in DOMAIN blocks : ChatBlock(blocks[i], up, chatText, chatThinking)
  BY <1>2 DEF Following
<1>5. Counted(blocks, "text", chatText)
  BY <1>2, <1>4 DEF Counted, ChatBlock
<1>6. OneKey(blocks)
  BY <1>2 DEF Good, Stage, Core, Texts
<1>7. /\ m \in Nat /\ chatText <= m /\ <<"text", m>> \in Keys
      /\ CanTake("chat", blocks, <<"text", m>>, "text")
      /\ \A i \in DOMAIN blocks :
           (blocks[i].kind = "text" /\ blocks[i].key[2] < m) => blocks[i].done
  BY <1>2, <1>3, <1>5, <1>6, CurrentTakes
<1>8. <<"text", 0>> \in Keys /\ <<"text", 0>> = SlotOf("chat", NewBlock(<<"text", m>>, "text"))
      /\ "text" \in Kinds
  BY DEF Keys, Kinds, SlotOf, NewBlock
<1> DEFINE w == <<Piece>>
           slot == <<"text", 0>>
<1>9. Good(from, said', client, "open", bs) /\ Takes(blocks, <<"text", m>>, "text", bs) /\ SaidNext
  <2>1. w = <<Piece>> \/ w = <<- Piece>>
    OBVIOUS
  <2> HIDE DEF w, slot, m
  <2> DEFINE key == <<"text", m>>
  <2>2. /\ key \in Keys /\ CanTake(from, blocks, key, "text")
        /\ slot \in Keys /\ slot = SlotOf(from, NewBlock(key, "text"))
        /\ Say(slot)
    BY <1>1, <1>2, <1>7, <1>8 DEF slot
  <2> HIDE DEF key
  <2>3. /\ Good(from, said', client, "open", Extend(blocks, key, "text", w))
        /\ Takes(blocks, key, "text", Extend(blocks, key, "text", w)) /\ SaidNext
    BY <1>2, <1>8, <2>1, <2>2, SayGood
  <2> QED
    BY <2>3 DEF w, key
<1> HIDE DEF bs
<1>10. Following(from, up', chatText', chatThinking', bs)
  <2> SUFFICES ASSUME NEW i \in DOMAIN bs PROVE ChatBlock(bs[i], up, m, chatThinking)
    BY <1>2, <1>3 DEF Following
  <2>1. CASE i \in DOMAIN blocks
    <3>1. ChatBlock(blocks[i], up, chatText, chatThinking)
      BY <1>4, <2>1
    <3>2. /\ bs[i].key = blocks[i].key /\ bs[i].kind = blocks[i].kind
          /\ bs[i].fallback = blocks[i].fallback /\ bs[i].done = blocks[i].done
      BY <1>9, <2>1 DEF Takes
    <3> HIDE DEF m
    <3>3. bs[i].kind = "text" => bs[i].key[2] \in 0 .. m
      BY <1>2, <1>7, <3>1, <3>2 DEF ChatBlock
    <3> QED
      BY <1>7, <2>1, <3>1, <3>2, <3>3 DEF ChatBlock
  <2>2. CASE i \notin DOMAIN blocks
    <3>1. bs[i].key = <<"text", m>> /\ bs[i].kind = "text" /\ bs[i].fallback = <<>> /\ ~ bs[i].done
      BY <1>9, <2>2 DEF Takes
    <3> HIDE DEF m
    <3> QED
      BY <1>7, <3>1 DEF ChatBlock
  <2> QED
    BY <2>1, <2>2
<1>11. Steady
  BY <1>2, <1>3, <1>7 DEF Steady
<1> HIDE DEF m
<1> QED
  BY <1>2, <1>3, <1>9, <1>10, <1>11, OpenStep

\* a piece of its reasoning does,
LEMMA ChatReasoningStep ==
  ASSUME Inv, ChatReasoning
  PROVE  Inv'
<1>1. Converting("chat", "talking") /\ Say(<<"thinking", 0>>)
  BY DEF ChatReasoning
<1>2. /\ outcome = "open" /\ from # to /\ from = "chat" /\ Good(from, said, client, "open", blocks)
      /\ Following(from, up, chatText, chatThinking, blocks)
      /\ stop \in Reasons /\ chatThinking \in Nat /\ chatText \in Nat /\ up \in UpSet
      /\ up.phase = "talking"
  BY <1>1, Talking
<1> DEFINE m == chatThinking'
           bs == Extend(blocks, <<"thinking", m>>, "thinking", <<Piece>>)
<1>3. /\ m = Current("thinking", chatThinking) /\ Push(bs, stop, FALSE)
      /\ chatText' = chatText /\ up' = up
  BY DEF ChatReasoning
<1>4. \A i \in DOMAIN blocks : ChatBlock(blocks[i], up, chatText, chatThinking)
  BY <1>2 DEF Following
<1>5. Counted(blocks, "thinking", chatThinking)
  BY <1>2, <1>4 DEF Counted, ChatBlock
<1>6. OneKey(blocks)
  BY <1>2 DEF Good, Stage, Core, Texts
<1>7. /\ m \in Nat /\ chatThinking <= m /\ <<"thinking", m>> \in Keys
      /\ CanTake("chat", blocks, <<"thinking", m>>, "thinking")
      /\ \A i \in DOMAIN blocks :
           (blocks[i].kind = "thinking" /\ blocks[i].key[2] < m) => blocks[i].done
  BY <1>2, <1>3, <1>5, <1>6, CurrentTakes
<1>8. <<"thinking", 0>> \in Keys /\ <<"thinking", 0>> = SlotOf("chat", NewBlock(<<"thinking", m>>, "thinking"))
      /\ "thinking" \in Kinds
  BY DEF Keys, Kinds, SlotOf, NewBlock
<1> DEFINE w == <<Piece>>
           slot == <<"thinking", 0>>
<1>9. Good(from, said', client, "open", bs) /\ Takes(blocks, <<"thinking", m>>, "thinking", bs) /\ SaidNext
  <2>1. w = <<Piece>> \/ w = <<- Piece>>
    OBVIOUS
  <2> HIDE DEF w, slot, m
  <2> DEFINE key == <<"thinking", m>>
  <2>2. /\ key \in Keys /\ CanTake(from, blocks, key, "thinking")
        /\ slot \in Keys /\ slot = SlotOf(from, NewBlock(key, "thinking"))
        /\ Say(slot)
    BY <1>1, <1>2, <1>7, <1>8 DEF slot
  <2> HIDE DEF key
  <2>3. /\ Good(from, said', client, "open", Extend(blocks, key, "thinking", w))
        /\ Takes(blocks, key, "thinking", Extend(blocks, key, "thinking", w)) /\ SaidNext
    BY <1>2, <1>8, <2>1, <2>2, SayGood
  <2> QED
    BY <2>3 DEF w, key
<1> HIDE DEF bs
<1>10. Following(from, up', chatText', chatThinking', bs)
  <2> SUFFICES ASSUME NEW i \in DOMAIN bs PROVE ChatBlock(bs[i], up, chatText, m)
    BY <1>2, <1>3 DEF Following
  <2>1. CASE i \in DOMAIN blocks
    <3>1. ChatBlock(blocks[i], up, chatText, chatThinking)
      BY <1>4, <2>1
    <3>2. /\ bs[i].key = blocks[i].key /\ bs[i].kind = blocks[i].kind
          /\ bs[i].fallback = blocks[i].fallback /\ bs[i].done = blocks[i].done
      BY <1>9, <2>1 DEF Takes
    <3> HIDE DEF m
    <3>3. bs[i].kind = "thinking" => bs[i].key[2] \in 0 .. m
      BY <1>2, <1>7, <3>1, <3>2 DEF ChatBlock
    <3> QED
      BY <1>7, <2>1, <3>1, <3>2, <3>3 DEF ChatBlock
  <2>2. CASE i \notin DOMAIN blocks
    <3>1. bs[i].key = <<"thinking", m>> /\ bs[i].kind = "thinking" /\ bs[i].fallback = <<>> /\ ~ bs[i].done
      BY <1>9, <2>2 DEF Takes
    <3> HIDE DEF m
    <3> QED
      BY <1>7, <3>1 DEF ChatBlock
  <2> QED
    BY <2>1, <2>2
<1>11. Steady
  BY <1>2, <1>3, <1>7 DEF Steady
<1> HIDE DEF m
<1> QED
  BY <1>2, <1>3, <1>9, <1>10, <1>11, OpenStep

\* and a piece of its refusal.
LEMMA ChatRefusalStep ==
  ASSUME Inv, ChatRefusal
  PROVE  Inv'
<1> DEFINE key == <<"refusal", 0>>
           w == <<Piece>>
           bs == Extend(blocks, key, "refusal", w)
<1>1. Converting("chat", "talking") /\ Say(key) /\ up.items = <<>>
  BY DEF ChatRefusal
<1>2. /\ outcome = "open" /\ from # to /\ from = "chat" /\ Good(from, said, client, "open", blocks)
      /\ Following(from, up, chatText, chatThinking, blocks)
      /\ stop \in Reasons /\ chatText \in Nat /\ chatThinking \in Nat /\ up \in UpSet
      /\ up.phase = "talking"
  BY <1>1, Talking
<1>3. /\ Push(bs, stop, FALSE)
      /\ chatText' = chatText /\ chatThinking' = chatThinking /\ up' = up
  BY DEF ChatRefusal, SameChatBlocks
<1>4. \A i \in DOMAIN blocks : ChatBlock(blocks[i], up, chatText, chatThinking)
  BY <1>2 DEF Following
<1>5. key \in Keys /\ key = SlotOf("chat", NewBlock(key, "refusal")) /\ "refusal" \in Kinds
  BY DEF Keys, Kinds, SlotOf, NewBlock
<1>6. \A i \in DOMAIN blocks : (blocks[i].kind = "refusal" <=> blocks[i].key = key)
                               /\ blocks[i].fallback = <<>> /\ ~ blocks[i].done
  <2> TAKE i \in DOMAIN blocks
  <2>1. ChatBlock(blocks[i], up, chatText, chatThinking)
    BY <1>4
  <2>2. blocks[i].key = <<blocks[i].kind, blocks[i].key[2]>>
        /\ (blocks[i].kind = "refusal" => blocks[i].key[2] = 0)
    BY <2>1 DEF ChatBlock
  <2>3. blocks[i].fallback = <<>> /\ ~ blocks[i].done
    BY <1>1, <1>2, <2>1 DEF ChatBlock
  <2> QED
    BY <2>2, <2>3
<1>7. CanTake("chat", blocks, key, "refusal")
  <2>1. ASSUME NEW i \in DOMAIN blocks, SlotOf("chat", blocks[i]) = key
        PROVE  blocks[i].key = key
    <3>1. blocks[i].key = <<blocks[i].kind, blocks[i].key[2]>>
      BY <1>4 DEF ChatBlock
    <3>2. blocks[i].kind = "refusal"
      BY <2>1, <3>1 DEF SlotOf
    <3> QED
      BY <1>6, <3>2
  <2>2. key = <<"refusal", key[2]>>
    OBVIOUS
  <2> HIDE DEF key
  <2>3. ~ Has(blocks, key) => \A i \in DOMAIN blocks :
          SlotOf("chat", blocks[i]) # SlotOf("chat", NewBlock(key, "refusal"))
    BY <1>5, <2>1 DEF Has
  <2> QED
    BY <1>6, <2>2, <2>3 DEF CanTake
<1>8. Good(from, said', client, "open", bs) /\ Takes(blocks, key, "refusal", bs) /\ SaidNext
  <2>1. w = <<Piece>> \/ w = <<- Piece>>
    OBVIOUS
  <2> HIDE DEF w, key
  <2>2. key = SlotOf(from, NewBlock(key, "refusal")) /\ CanTake(from, blocks, key, "refusal")
    BY <1>2, <1>5, <1>7
  <2> QED
    BY <1>1, <1>2, <1>5, <2>1, <2>2, SayGood
<1> HIDE DEF bs
<1>9. Following(from, up', chatText', chatThinking', bs)
  <2> SUFFICES ASSUME NEW i \in DOMAIN bs PROVE ChatBlock(bs[i], up, chatText, chatThinking)
    BY <1>2, <1>3 DEF Following
  <2>1. CASE i \in DOMAIN blocks
    <3>1. ChatBlock(blocks[i], up, chatText, chatThinking)
      BY <1>4, <2>1
    <3>2. /\ bs[i].key = blocks[i].key /\ bs[i].kind = blocks[i].kind
          /\ bs[i].fallback = blocks[i].fallback /\ bs[i].done = blocks[i].done
      BY <1>8, <2>1 DEF Takes
    <3> QED
      BY <3>1, <3>2 DEF ChatBlock
  <2>2. CASE i \notin DOMAIN blocks
    <3>1. bs[i].key = key /\ bs[i].kind = "refusal" /\ bs[i].fallback = <<>> /\ ~ bs[i].done
      BY <1>8, <2>2 DEF Takes
    <3> QED
      BY <3>1 DEF ChatBlock
  <2> QED
    BY <2>1, <2>2
<1>10. Steady
  BY <1>2, <1>3 DEF Steady
<1> QED
  BY <1>2, <1>3, <1>8, <1>9, <1>10, OpenStep

-----------------------------------------------------------------------------
(* Chat tool calls: the blocks before are closed, then the call's block gets
   text and header. *)

\* The blocks of the client, with the header of one of them larger.
LEMMA HeaderIs ==
  ASSUME NEW bs \in Seq(Block), NEW k \in DOMAIN bs, NEW h \in SUBSET {"id", "name"},
         bs[k].fallback = <<>>
  PROVE  Heads(bs, k, <<>>, [bs EXCEPT ![k].header = @ \cup h])
<1> DEFINE g == bs[k].header \cup h
           b == [bs[k] EXCEPT !.header = g]
           cs == [bs EXCEPT ![k] = b]
<1>1. bs[k] \in Block /\ k \in 1 .. Len(bs)
  BY LenProperties
<1>2. g \in SUBSET {"id", "name"} /\ bs[k].header \subseteq g
  BY <1>1 DEF Block
<1>3. [bs EXCEPT ![k].header = @ \cup h] = cs
  OBVIOUS
<1> HIDE DEF g
<1>4. /\ b \in Block /\ b.text = bs[k].text /\ b.key = bs[k].key /\ b.kind = bs[k].kind
      /\ b.header = g /\ b.fallback = bs[k].fallback /\ b.done = bs[k].done
      /\ b.started = bs[k].started /\ b.ended = bs[k].ended /\ b.sent = bs[k].sent
  BY <1>1, <1>2 DEF Block
<1> HIDE DEF b
<1>5. cs \in Seq(Block) /\ DOMAIN cs = DOMAIN bs /\ cs[k] = b /\ \A i \in DOMAIN bs : i # k => cs[i] = bs[i]
  BY <1>1, <1>4, ExceptSeq
<1> HIDE DEF cs
<1>6. Heads(bs, k, <<>>, cs)
  BY <1>2, <1>4, <1>5 DEF Heads
<1> QED
  BY <1>3, <1>6

\* What a part of call t leaves of the blocks.
Calls(bs, key, cs) ==
  /\ bs \in Seq(Block) /\ DOMAIN bs \subseteq DOMAIN cs
  /\ \A i \in DOMAIN bs :
       /\ cs[i].key = bs[i].key /\ cs[i].kind = bs[i].kind /\ cs[i].fallback = bs[i].fallback
       /\ IF bs[i].kind = "tool" THEN cs[i].done = bs[i].done ELSE cs[i].done
  /\ \A i \in DOMAIN cs \ DOMAIN bs :
       cs[i].key = key /\ cs[i].kind = "tool" /\ cs[i].fallback = <<>> /\ ~ cs[i].done

\* The blocks that a part of tool call t makes are as they should be.
LEMMA ChatToolGood ==
  ASSUME Inv, Converting("chat", "talking"), NEW t \in Nat, NEW header \in SUBSET {"id", "name"},
         NEW w, \/ w = <<>> /\ said' = said
                \/ Say(<<"tool", t>>) /\ (w = <<Piece>> \/ w = <<- Piece>>)
  PROVE  /\ Good(from, said', client, "open", ChatToolBlocks(t, header, w))
         /\ Calls(blocks, <<"tool", t>>, ChatToolBlocks(t, header, w)) /\ SaidNext
<1> DEFINE key == <<"tool", t>>
           closed == CloseThose(blocks, LAMBDA b : b.kind # "tool")
           bs == Extend(closed, key, "tool", w)
           k == At(bs, key)
           cs == [bs EXCEPT ![k].header = @ \cup header]
<1>1. ChatToolBlocks(t, header, w) = cs
  BY DEF ChatToolBlocks
<1>2. /\ from = "chat" /\ Good(from, said, client, "open", blocks)
      /\ Following(from, up, chatText, chatThinking, blocks) /\ up.phase = "talking"
      /\ said \in Seq(Keys) /\ blocks \in Seq(Block)
  BY Talking
<1>3. \A i \in DOMAIN blocks : ChatBlock(blocks[i], up, chatText, chatThinking)
  BY <1>2 DEF Following
<1>4. /\ CloseSome(blocks, closed)
      /\ \A i \in DOMAIN blocks :
           IF blocks[i].kind # "tool" THEN closed[i].done ELSE closed[i] = blocks[i]
  BY <1>2, CloseOthersIs
<1> HIDE DEF closed
<1>5. Good(from, said, client, "open", closed)
  BY <1>2, <1>4, CloseGood
<1>6. /\ DOMAIN closed = DOMAIN blocks
      /\ \A i \in DOMAIN blocks :
           /\ closed[i].key = blocks[i].key /\ closed[i].kind = blocks[i].kind
           /\ closed[i].fallback = <<>>
           /\ blocks[i].key = <<blocks[i].kind, blocks[i].key[2]>>
           /\ blocks[i].kind = "tool" => ~ blocks[i].done
  BY <1>2, <1>3, <1>4, ClosedText DEF ChatBlock, CloseSome
<1>7. key \in Keys /\ "tool" \in Kinds /\ key = SlotOf(from, NewBlock(key, "tool"))
  BY <1>2 DEF Keys, Kinds, SlotOf, NewBlock
<1>8. CanTake(from, closed, key, "tool")
  <2>1. ASSUME NEW i \in DOMAIN closed, SlotOf(from, closed[i]) = key
        PROVE  closed[i].key = key
    <3>1. CASE closed[i].kind = "tool"
      BY <2>1, <3>1 DEF SlotOf
    <3>2. CASE closed[i].kind # "tool"
      <4>1. <<closed[i].kind, 0>> = <<"tool", t>>
        BY <1>2, <2>1, <3>2 DEF SlotOf
      <4> QED
        BY <3>2, <4>1
    <3> QED
      BY <3>1, <3>2
  <2>2. \A i \in DOMAIN closed : closed[i].key = key =>
          ~ closed[i].done /\ closed[i].kind = "tool" /\ closed[i].fallback = <<>>
    <3> SUFFICES ASSUME NEW i \in DOMAIN blocks, closed[i].key = key
                 PROVE  ~ closed[i].done /\ closed[i].kind = "tool" /\ closed[i].fallback = <<>>
      BY <1>6
    <3>1. blocks[i].kind = "tool"
      BY <1>6
    <3> QED
      BY <1>4, <1>6, <3>1
  <2>3. key = <<"tool", key[2]>>
    OBVIOUS
  <2> HIDE DEF key
  <2>4. ~ Has(closed, key) => \A i \in DOMAIN closed :
          SlotOf(from, closed[i]) # SlotOf(from, NewBlock(key, "tool"))
    BY <1>7, <2>1 DEF Has
  <2> QED
    BY <2>2, <2>3, <2>4 DEF CanTake
<1>9. Good(from, said', client, "open", bs) /\ Takes(closed, key, "tool", bs) /\ SaidNext
  <2>1. CASE w = <<>> /\ said' = said
    <3> DEFINE p == "open"
    <3>1. Newest(said, SlotOf(from, NewBlock(key, "tool")), w)
      BY <1>2, <2>1, NoneNewest
    <3>2. Good(from, said, client, p, closed) /\ p = p
      BY <1>5
    <3> HIDE DEF p, key
    <3>3. /\ Good(from, said, client, p, Extend(closed, key, "tool", w))
          /\ Takes(closed, key, "tool", Extend(closed, key, "tool", w))
      BY <1>7, <1>8, <2>1, <3>1, <3>2, ExtendGood
    <3>4. SaidNext
      BY <2>1 DEF SaidNext
    <3> QED
      BY <2>1, <3>3, <3>4 DEF p
  <2>2. CASE Say(key) /\ (w = <<Piece>> \/ w = <<- Piece>>)
    <3> HIDE DEF key
    <3> QED
      BY <1>5, <1>7, <1>8, <2>2, SayGood
  <2> QED
    BY <2>1, <2>2
<1> HIDE DEF bs
<1>10. Has(bs, key) /\ bs \in Seq(Block) /\ DOMAIN closed \subseteq DOMAIN bs
  BY <1>9 DEF Takes
<1>11. k \in DOMAIN bs
  BY <1>10, AtIs
<1>12. bs[k].fallback = <<>>
  BY <1>6, <1>9, <1>11 DEF Takes
<1> HIDE DEF k
<1>13. Heads(bs, k, <<>>, cs)
  BY <1>10, <1>11, <1>12, HeaderIs
<1> HIDE DEF cs
<1>14. Good(from, said', client, "open", cs)
  <2> DEFINE p == "open"
             e == <<>>
  <2>1. said' \in Seq(Keys)
    <3>1. CASE said' = said
      BY <1>2, <3>1
    <3>2. CASE \E slot \in Keys : said' = Append(said, slot)
      <4>1. PICK slot \in Keys : said' = Append(said, slot)
        BY <3>2
      <4>2. Append(said, slot) \in Seq(Keys)
        BY <1>2, AppendProperties
      <4> QED
        BY <4>1, <4>2
    <3> QED
      BY <1>9, <3>1, <3>2 DEF SaidNext
  <2>2. Newest(said', SlotOf(from, bs[k]), e)
    BY <2>1, NoneNewest
  <2>3. Good(from, said', client, p, bs) /\ Heads(bs, k, e, cs) /\ p = p
    BY <1>9, <1>13
  <2> HIDE DEF p, e
  <2>4. Good(from, said', client, p, cs)
    BY <2>2, <2>3, HeadGood
  <2> QED
    BY <2>4 DEF p
<1>15. Calls(blocks, key, cs)
  <2>1. /\ DOMAIN cs = DOMAIN bs
        /\ \A i \in DOMAIN bs : /\ cs[i].key = bs[i].key /\ cs[i].kind = bs[i].kind
                                /\ cs[i].done = bs[i].done /\ cs[i].fallback = bs[i].fallback
    BY <1>12, <1>13 DEF Heads
  <2>2. \A i \in DOMAIN closed :
          /\ bs[i].key = closed[i].key /\ bs[i].kind = closed[i].kind
          /\ bs[i].fallback = closed[i].fallback /\ bs[i].done = closed[i].done
    BY <1>9 DEF Takes
  <2>3. \A i \in DOMAIN bs \ DOMAIN closed :
          bs[i].key = key /\ bs[i].kind = "tool" /\ bs[i].fallback = <<>> /\ ~ bs[i].done
    BY <1>9 DEF Takes
  <2>4. \A i \in DOMAIN blocks : blocks[i].fallback = <<>>
    BY <1>3 DEF ChatBlock
  <2>5. \A i \in DOMAIN blocks :
          IF blocks[i].kind = "tool" THEN cs[i].done = blocks[i].done ELSE cs[i].done
    BY <1>4, <1>6, <1>10, <2>1, <2>2
  <2>6. \A i \in DOMAIN blocks :
          /\ cs[i].key = blocks[i].key /\ cs[i].kind = blocks[i].kind
          /\ cs[i].fallback = blocks[i].fallback
    BY <1>6, <1>10, <2>1, <2>2, <2>4
  <2>7. \A i \in DOMAIN cs \ DOMAIN blocks :
          cs[i].key = key /\ cs[i].kind = "tool" /\ cs[i].fallback = <<>> /\ ~ cs[i].done
    BY <1>6, <2>1, <2>3
  <2> QED
    BY <1>2, <1>6, <1>10, <2>1, <2>5, <2>6, <2>7 DEF Calls
<1> QED
  BY <1>1, <1>9, <1>14, <1>15

\* The upstream stays where it was, or has one more call.
LEMMA ChatCalled ==
  ASSUME NEW u, NEW v, NEW ct, NEW ck, NEW bs, NEW t \in Nat, NEW cs, Calls(bs, <<"tool", t>>, cs),
         Following("chat", u, ct, ck, bs), u.phase = "talking", v.phase = "talking",
         Len(u.items) \in Nat, Len(v.items) \in Nat, Len(u.items) <= Len(v.items),
         t < Len(v.items)
  PROVE  Following("chat", v, ct, ck, cs)
<1> SUFFICES ASSUME NEW i \in DOMAIN cs PROVE ChatBlock(cs[i], v, ct, ck)
  BY DEF Following
<1>1. v.items # <<>>
  <2>1. Len(v.items) > 0
    OBVIOUS
  <2> QED
    BY <2>1
<1>2. CASE i \in DOMAIN bs
  <2>1. ChatBlock(bs[i], u, ct, ck)
    BY <1>2 DEF Following
  <2>2. /\ cs[i].key = bs[i].key /\ cs[i].kind = bs[i].kind /\ cs[i].fallback = bs[i].fallback
        /\ IF bs[i].kind = "tool" THEN cs[i].done = bs[i].done ELSE cs[i].done
    BY <1>2 DEF Calls
  <2>3. bs[i].kind = "tool" => ~ cs[i].done /\ cs[i].key[2] \in 0 .. Len(v.items) - 1
    BY <2>1, <2>2 DEF ChatBlock
  <2> QED
    BY <1>1, <2>1, <2>2, <2>3 DEF ChatBlock
<1>3. CASE i \notin DOMAIN bs
  <2>1. cs[i].key = <<"tool", t>> /\ cs[i].kind = "tool" /\ cs[i].fallback = <<>> /\ ~ cs[i].done
    BY <1>3 DEF Calls
  <2> QED
    BY <1>1, <2>1 DEF ChatBlock
<1> QED
  BY <1>2, <1>3

\* A step that carries a part of call t.
LEMMA ChatToolStep ==
  ASSUME Inv, Converting("chat", "talking"), NEW t \in Nat, NEW header \in SUBSET {"id", "name"},
         NEW w, \/ w = <<>> /\ said' = said
                \/ Say(<<"tool", t>>) /\ (w = <<Piece>> \/ w = <<- Piece>>),
         Push(ChatToolBlocks(t, header, w), stop, FALSE), SameChatBlocks,
         up' \in UpSet, up'.phase = "talking",
         Len(up'.items) \in Nat, Len(up.items) <= Len(up'.items), t < Len(up'.items)
  PROVE  Inv'
<1> DEFINE cs == ChatToolBlocks(t, header, w)
<1>1. /\ outcome = "open" /\ from # to /\ from = "chat" /\ up.phase = "talking"
      /\ Following(from, up, chatText, chatThinking, blocks)
      /\ stop \in Reasons /\ chatText \in Nat /\ chatThinking \in Nat /\ Len(up.items) \in Nat
  BY Talking
<1>2. Good(from, said', client, "open", cs) /\ Calls(blocks, <<"tool", t>>, cs) /\ SaidNext
  BY ChatToolGood
<1>3. Push(cs, stop, FALSE)
  OBVIOUS
<1> HIDE DEF cs
<1>4. chatText' = chatText /\ chatThinking' = chatThinking
  BY DEF SameChatBlocks
<1>5. Following(from, up', chatText', chatThinking', cs)
  <2>1. Following("chat", up, chatText, chatThinking, blocks)
    BY <1>1
  <2>2. Following("chat", up', chatText, chatThinking, cs)
    BY <1>1, <1>2, <2>1, ChatCalled
  <2> QED
    BY <1>1, <1>4, <2>2
<1>6. Steady
  BY <1>1, <1>4 DEF Steady
<1> QED
  BY <1>1, <1>2, <1>3, <1>5, <1>6, OpenStep

\* The beginning of a tool call preserves the invariant,
LEMMA ChatToolStartStep ==
  ASSUME Inv, ChatToolStart
  PROVE  Inv'
<1>1. Converting("chat", "talking") /\ SameChatBlocks /\ said' = said
  BY DEF ChatToolStart
<1>2. PICK header \in {{"id"}, {"id", "name"}} :
        /\ Push(ChatToolBlocks(Len(up.items), header, <<>>), stop, FALSE)
        /\ up' = [up EXCEPT !.items = Append(@, [kind |-> "tool", open |-> header = {"id"}])]
  BY DEF ChatToolStart
<1>3. up \in UpSet /\ Len(up.items) \in Nat /\ up.phase = "talking"
  BY <1>1, Talking
<1> DEFINE it == [kind |-> "tool", open |-> header = {"id"}]
<1>4. it \in ItemSet
  BY DEF ItemSet, Kinds
<1>5. up' = [up EXCEPT !.items = Append(@, it)]
  BY <1>2
<1> HIDE DEF it
<1>6. up' \in UpSet /\ up'.phase = up.phase /\ Len(up'.items) = Len(up.items) + 1
  BY <1>3, <1>4, <1>5, UpAdded
<1> DEFINE t == Len(up.items)
           w == <<>>
<1>7. /\ t \in Nat /\ header \in SUBSET {"id", "name"} /\ w = <<>>
      /\ Push(ChatToolBlocks(t, header, w), stop, FALSE)
      /\ Len(up'.items) \in Nat /\ t <= Len(up'.items) /\ t < Len(up'.items)
  <2>1. header \in SUBSET {"id", "name"}
    OBVIOUS
  <2>2. Len(up'.items) \in Nat /\ t <= Len(up'.items) /\ t < Len(up'.items) /\ t \in Nat
    BY <1>3, <1>6
  <2>3. Push(ChatToolBlocks(t, header, w), stop, FALSE)
    BY <1>2
  <2> QED
    BY <2>1, <2>2, <2>3
<1> HIDE DEF w
<1> QED
  BY <1>1, <1>3, <1>6, <1>7, ChatToolStep

\* its name does,
LEMMA ChatToolNameStep ==
  ASSUME Inv, ChatToolName
  PROVE  Inv'
<1>1. Converting("chat", "talking") /\ SameChatBlocks /\ said' = said
  BY DEF ChatToolName
<1>2. PICK o \in DOMAIN up.items :
        /\ Push(ChatToolBlocks(o - 1, {"name"}, <<>>), stop, FALSE)
        /\ up' = [up EXCEPT !.items[o].open = FALSE]
  BY DEF ChatToolName
<1>3. /\ up \in UpSet /\ Len(up.items) \in Nat /\ up.phase = "talking"
      /\ DOMAIN up.items = 1 .. Len(up.items)
  BY <1>1, Talking
<1>4. up' \in UpSet /\ up'.phase = up.phase /\ Len(up'.items) = Len(up.items)
  BY <1>2, <1>3, UpShut DEF Shut
<1> DEFINE t == o - 1
           w == <<>>
           header == {"name"}
<1>5. /\ t \in Nat /\ header \in SUBSET {"id", "name"} /\ w = <<>>
      /\ Push(ChatToolBlocks(t, header, w), stop, FALSE)
      /\ Len(up'.items) \in Nat /\ Len(up.items) <= Len(up'.items) /\ t < Len(up'.items)
  <2>1. header \in SUBSET {"id", "name"}
    OBVIOUS
  <2>2. /\ Len(up'.items) \in Nat /\ Len(up.items) <= Len(up'.items) /\ t < Len(up'.items)
        /\ t \in Nat
    BY <1>3, <1>4
  <2>3. Push(ChatToolBlocks(t, header, w), stop, FALSE)
    BY <1>2
  <2> QED
    BY <2>1, <2>2, <2>3
<1> HIDE DEF w, t, header
<1> QED
  BY <1>1, <1>3, <1>4, <1>5, ChatToolStep

\* and a part of its arguments.
LEMMA ChatToolArgumentsStep ==
  ASSUME Inv, ChatToolArguments
  PROVE  Inv'
<1>1. Converting("chat", "talking") /\ SameChatBlocks /\ up' = up
  BY DEF ChatToolArguments
<1>2. PICK o \in DOMAIN up.items, json \in BOOLEAN :
        /\ Say(<<"tool", o - 1>>)
        /\ Push(ChatToolBlocks(o - 1, {}, <<PieceOf(json)>>), stop, FALSE)
  BY DEF ChatToolArguments
<1>3. /\ up \in UpSet /\ Len(up.items) \in Nat /\ up.phase = "talking"
      /\ DOMAIN up.items = 1 .. Len(up.items)
  BY <1>1, Talking
<1> DEFINE t == o - 1
           w == <<PieceOf(json)>>
           header == {}
<1>4. w = <<Piece>> \/ w = <<- Piece>>
  BY DEF PieceOf
<1>5. /\ t \in Nat /\ header \in SUBSET {"id", "name"} /\ Say(<<"tool", t>>)
      /\ Push(ChatToolBlocks(t, header, w), stop, FALSE)
      /\ up' \in UpSet /\ up'.phase = "talking"
      /\ Len(up'.items) \in Nat /\ Len(up.items) <= Len(up'.items) /\ t < Len(up'.items)
  <2>1. header \in SUBSET {"id", "name"}
    OBVIOUS
  <2>2. t \in Nat /\ t < Len(up.items) /\ Len(up.items) <= Len(up.items)
    BY <1>3
  <2>3. Say(<<"tool", t>>) /\ Push(ChatToolBlocks(t, header, w), stop, FALSE)
    BY <1>2
  <2> QED
    BY <1>1, <1>3, <2>1, <2>2, <2>3
<1> HIDE DEF w, t, header
<1> QED
  BY <1>1, <1>4, <1>5, ChatToolStep

\* The blocks with the header and the fallback of one of them set.
LEMMA HeadSetIs ==
  ASSUME NEW bs \in Seq(Block), NEW k \in DOMAIN bs, NEW h \in SUBSET {"id", "name"},
         bs[k].header \subseteq h, bs[k].fallback = <<>>, NEW w \in Seq(Int)
  PROVE  Heads(bs, k, w, [bs EXCEPT ![k].header = h, ![k].fallback = w])
<1> DEFINE b == [bs[k] EXCEPT !.header = h, !.fallback = w]
           cs == [bs EXCEPT ![k] = b]
<1>1. bs[k] \in Block /\ k \in 1 .. Len(bs)
  BY LenProperties
<1>2. [bs EXCEPT ![k].header = h, ![k].fallback = w] = cs
  OBVIOUS
<1>3. /\ b \in Block /\ b.text = bs[k].text /\ b.key = bs[k].key /\ b.kind = bs[k].kind
      /\ b.header = h /\ b.fallback = w /\ b.done = bs[k].done
      /\ b.started = bs[k].started /\ b.ended = bs[k].ended /\ b.sent = bs[k].sent
  BY <1>1 DEF Block
<1> HIDE DEF b
<1>4. cs \in Seq(Block) /\ DOMAIN cs = DOMAIN bs /\ cs[k] = b /\ \A i \in DOMAIN bs : i # k => cs[i] = bs[i]
  BY <1>1, <1>3, ExceptSeq
<1> HIDE DEF cs
<1>5. Heads(bs, k, w, cs)
  BY <1>3, <1>4 DEF Heads
<1> QED
  BY <1>2, <1>5

\* Keys of Anthropic blocks are keys,
LEMMA BlockKey == \A n \in Nat : Key(n) \in Keys
BY DEF Key, Keys

\* and differ.
LEMMA BlockKeys ==
  ASSUME NEW m, NEW n, Key(m) = Key(n)
  PROVE  m = n
BY DEF Key

\* The blocks of an Anthropic answer, seen from the last of them.
LEMMA AnthropicFacts ==
  ASSUME NEW u, NEW ct, NEW ck, NEW bs, Following("anthropic", u, ct, ck, bs),
         Len(u.items) \in Nat, NEW i \in DOMAIN bs
  PROVE  /\ AnthropicBlock(bs[i], u)
         /\ \E n \in 0 .. Len(u.items) - 1 :
              /\ bs[i].key = Key(n)
              /\ bs[i].kind = IF u.items[n+1].kind = "whole" THEN "tool" ELSE u.items[n+1].kind
         /\ bs[i].key # Key(Len(u.items))
<1>1. AnthropicBlock(bs[i], u)
  BY DEF Following
<1>2. PICK n \in 0 .. Len(u.items) - 1 :
        /\ bs[i].key = Key(n)
        /\ bs[i].kind = IF u.items[n+1].kind = "whole" THEN "tool" ELSE u.items[n+1].kind
  BY <1>1 DEF AnthropicBlock, Key
<1>3. n # Len(u.items)
  OBVIOUS
<1>4. bs[i].key # Key(Len(u.items))
  BY <1>2, <1>3, BlockKeys
<1> QED
  BY <1>1, <1>2, <1>4

\* The start of an Anthropic block preserves the invariant,
LEMMA BlockStartStep ==
  ASSUME Inv, BlockStart
  PROVE  Inv'
<1>1. Converting("anthropic", "talking") /\ ~ IsOpen /\ SameChatBlocks
  BY DEF BlockStart
<1>2. /\ outcome = "open" /\ from # to /\ from = "anthropic"
      /\ Good(from, said, client, "open", blocks)
      /\ Following(from, up, chatText, chatThinking, blocks)
      /\ stop \in Reasons /\ chatText \in Nat /\ chatThinking \in Nat /\ up \in UpSet
      /\ said \in Seq(Keys) /\ blocks \in Seq(Block)
      /\ Len(up.items) \in Nat /\ DOMAIN up.items = 1 .. Len(up.items)
  BY <1>1, Talking
<1> DEFINE n == Len(up.items)
           key == Key(n)
<1>3. PICK kind \in {"text", "thinking", "tool"}, whole \in BOOLEAN, json \in BOOLEAN :
       LET bs == With(blocks, key, kind)
       IN  /\ whole => kind = "tool"
           /\ json \/ whole
           /\ IF whole THEN Say(key) ELSE UNCHANGED said
           /\ Push([bs EXCEPT ![At(bs, key)].header =
                                   IF kind = "tool" THEN {"id", "name"} ELSE {},
                              ![At(bs, key)].fallback =
                                   IF whole THEN <<PieceOf(json)>> ELSE <<>>],
                   stop, FALSE)
           /\ up' = [up EXCEPT !.items = Append(@, Item(IF whole THEN "whole" ELSE kind))]
  BY DEF BlockStart, Count
<1> DEFINE bs == With(blocks, key, kind)
           k == At(bs, key)
           h == IF kind = "tool" THEN {"id", "name"} ELSE {}
           w == IF whole THEN <<PieceOf(json)>> ELSE <<>>
           cs == [bs EXCEPT ![k].header = h, ![k].fallback = w]
           it == Item(IF whole THEN "whole" ELSE kind)
<1>4. /\ Push(cs, stop, FALSE)
      /\ up' = [up EXCEPT !.items = Append(@, it)]
      /\ whole => kind = "tool"
      /\ IF whole THEN Say(key) ELSE said' = said
  BY <1>3
<1>5. /\ it \in ItemSet /\ it.kind = (IF whole THEN "whole" ELSE kind) /\ it.open
      /\ kind \in Kinds /\ h \in SUBSET {"id", "name"}
  BY DEF Item, ItemSet, Kinds
<1>6. /\ whole = TRUE => w = <<PieceOf(json)>> /\ Say(key) /\ kind = "tool" /\ it.kind = "whole"
      /\ whole = FALSE => w = <<>> /\ said' = said /\ it.kind = kind
  BY <1>4, <1>5
<1>7. PieceOf(json) = Piece \/ PieceOf(json) = - Piece
  BY DEF PieceOf
<1> HIDE DEF bs, k, h, w, cs, it, key
<1>8. key \in Keys /\ key = SlotOf(from, NewBlock(key, kind))
  BY <1>2, BlockKey DEF key, SlotOf, NewBlock
<1>9. \A i \in DOMAIN blocks : blocks[i].key # key
  <2>1. Following("anthropic", up, chatText, chatThinking, blocks)
    BY <1>2
  <2> QED
    BY <1>2, <2>1, AnthropicFacts DEF key
<1>10. CanTake(from, blocks, key, kind)
  BY <1>2, <1>8, <1>9 DEF CanTake, SlotOf
<1>11. Widened(blocks, key, kind, bs) /\ bs \in Seq(Block) /\ Has(bs, key)
  BY <1>2, <1>5, <1>8, WithIs DEF bs
<1>12. /\ Good(from, said, client, "open", bs)
       /\ DOMAIN blocks \subseteq DOMAIN bs
       /\ \A i \in DOMAIN blocks : bs[i] = blocks[i]
       /\ \A i \in DOMAIN bs \ DOMAIN blocks :
            /\ bs[i].key = key /\ bs[i].kind = kind /\ bs[i].fallback = <<>> /\ ~ bs[i].done
            /\ bs[i].text = <<>> /\ bs[i].header = {}
  BY <1>2, <1>10, <1>11, WidenGood
<1>13. k \in DOMAIN bs /\ bs[k].key = key
  BY <1>11, AtIs DEF k
<1>14. k \notin DOMAIN blocks
  BY <1>9, <1>12, <1>13
<1>15. SlotOf(from, bs[k]) = key
  BY <1>2, <1>13 DEF SlotOf
<1>16. Newest(said', key, w) /\ SaidNext /\ w \in Seq(Int)
       /\ \/ w = <<>> /\ Good(from, said', client, "open", bs)
          \/ w # <<>> /\ Good(from, said', client, "failed", bs) /\ Pending(bs[k])
  <2>1. CASE whole = TRUE
    <3>1. w = <<PieceOf(json)>> /\ Say(key) /\ kind = "tool"
      BY <1>6, <2>1
    <3>2. /\ Good(from, said', client, "failed", bs) /\ SaidNext
          /\ Newest(said', key, <<Piece>>) /\ Newest(said', key, <<- Piece>>)
      BY <1>8, <1>12, <3>1, Saying
    <3>3. Newest(said', key, w)
      BY <1>7, <3>1, <3>2
    <3>4. Pending(bs[k])
      BY <1>12, <1>13, <1>14, <3>1 DEF Pending
    <3>5. w # <<>>
      BY <3>1
    <3> QED
      BY <3>2, <3>3, <3>4, <3>5 DEF Newest
  <2>2. CASE whole = FALSE
    <3>1. w = <<>> /\ said' = said
      BY <1>6, <2>2
    <3>2. Newest(said, key, <<>>)
      BY <1>2, NoneNewest
    <3>3. SaidNext
      BY <3>1 DEF SaidNext
    <3> QED
      BY <1>12, <3>1, <3>2, <3>3 DEF Newest
  <2> QED
    BY <2>1, <2>2
<1>17. Heads(bs, k, w, cs)
  <2>1. bs[k].header \subseteq h /\ bs[k].fallback = <<>>
    BY <1>12, <1>13, <1>14
  <2> QED
    BY <1>5, <1>11, <1>13, <1>16, <2>1, HeadSetIs DEF cs
<1>18. Good(from, said', client, "open", cs)
  <2> DEFINE p == "open"
             o == IF w = <<>> THEN p ELSE "failed"
  <2>1. Good(from, said', client, o, bs) /\ (p = o \/ (p = "open" /\ w # <<>> /\ Pending(bs[k])))
    BY <1>16
  <2>2. Newest(said', SlotOf(from, bs[k]), w)
    BY <1>15, <1>16
  <2> HIDE DEF p, o
  <2>3. Good(from, said', client, p, cs)
    BY <1>17, <2>1, <2>2, HeadGood
  <2> QED
    BY <2>3 DEF p
<1>19. /\ up' \in UpSet /\ up'.phase = up.phase /\ Len(up'.items) = n + 1
       /\ \A o \in 1 .. n : up'.items[o] = up.items[o]
       /\ up'.items[n + 1] = it
  BY <1>2, <1>4, <1>5, UpAdded
<1>20. /\ chatText' = chatText /\ chatThinking' = chatThinking
  BY <1>1 DEF SameChatBlocks
<1>21. Following(from, up', chatText', chatThinking', cs)
  <2> SUFFICES ASSUME NEW i \in DOMAIN cs PROVE AnthropicBlock(cs[i], up')
    BY <1>2 DEF Following
  <2>1. LastOpen(up'.items) /\ Len(up'.items) - 1 = n
    BY <1>2, <1>5, <1>19 DEF LastOpen
  <2>2. DOMAIN cs = DOMAIN bs /\ \A j \in DOMAIN bs : j # k => cs[j] = bs[j]
    BY <1>17 DEF Heads
  <2>3. CASE i \in DOMAIN blocks
    <3>1. cs[i] = blocks[i]
      BY <1>12, <1>14, <2>2, <2>3
    <3>2. Following("anthropic", up, chatText, chatThinking, blocks)
      BY <1>2
    <3>3. AnthropicBlock(blocks[i], up) /\ blocks[i].key # key
      BY <1>2, <1>9, <2>3, <3>2, AnthropicFacts
    <3>4. PICK m \in 0 .. n - 1 :
            /\ blocks[i].key = Key(m)
            /\ blocks[i].kind = IF up.items[m+1].kind = "whole" THEN "tool" ELSE up.items[m+1].kind
      BY <1>2, <2>3, <3>2, AnthropicFacts
    <3>5. m \in 0 .. Len(up'.items) - 1 /\ up'.items[m+1] = up.items[m+1]
      BY <1>2, <1>19, <3>4
    <3>6. blocks[i].done \/ blocks[i].fallback = <<>>
      BY <1>1, <3>3 DEF AnthropicBlock, IsOpen, LastOpen, Count
    <3> QED
      BY <2>1, <3>1, <3>3, <3>4, <3>5, <3>6 DEF AnthropicBlock, Key, key
  <2>4. CASE i \notin DOMAIN blocks
    <3>1. i = k
      <4>1. bs[i].key = key
        BY <1>12, <2>2, <2>4
      <4>2. OneKey(bs)
        BY <1>12 DEF Good, Stage, Core, Texts
      <4> QED
        BY <1>13, <2>2, <4>1, <4>2 DEF OneKey
    <3>2. /\ cs[i].key = key /\ cs[i].kind = kind /\ ~ cs[i].done /\ cs[i].text = <<>>
          /\ cs[i].fallback = w
      BY <1>12, <1>13, <1>14, <1>17, <3>1 DEF Heads
    <3>3. n \in 0 .. Len(up'.items) - 1
      BY <1>2, <1>19
    <3>4. cs[i].kind = IF up'.items[n+1].kind = "whole" THEN "tool" ELSE up'.items[n+1].kind
      <4>1. CASE whole = TRUE
        BY <1>6, <1>19, <3>2, <4>1
      <4>2. CASE whole = FALSE
        BY <1>5, <1>6, <1>19, <3>2, <4>2
      <4> QED
        BY <4>1, <4>2
    <3>5. w # <<>> => up'.items[n+1].kind = "whole"
      <4>1. CASE whole = TRUE
        BY <1>6, <1>19, <4>1
      <4>2. CASE whole = FALSE
        BY <1>6, <4>2
      <4> QED
        BY <4>1, <4>2
    <3> QED
      BY <1>19, <2>1, <3>2, <3>3, <3>4, <3>5 DEF AnthropicBlock, Key, key
  <2> QED
    BY <2>3, <2>4
<1>22. Steady
  BY <1>2, <1>19, <1>20 DEF Steady
<1> QED
  BY <1>2, <1>4, <1>16, <1>18, <1>21, <1>22, OpenStep

\* a piece of its text does,
LEMMA BlockDeltaStep ==
  ASSUME Inv, BlockDelta
  PROVE  Inv'
<1> DEFINE n == Len(up.items)
           key == Key(n - 1)
           kind == up.items[n].kind
<1>1. /\ Converting("anthropic", "talking") /\ SameChatBlocks /\ up' = up
      /\ IsOpen /\ kind # "whole" /\ Say(key)
  BY DEF BlockDelta, Count
<1>2. /\ outcome = "open" /\ from # to /\ from = "anthropic"
      /\ Good(from, said, client, "open", blocks)
      /\ Following(from, up, chatText, chatThinking, blocks)
      /\ stop \in Reasons /\ chatText \in Nat /\ chatThinking \in Nat /\ up \in UpSet
      /\ Len(up.items) \in Nat /\ DOMAIN up.items = 1 .. Len(up.items)
      /\ \A o \in DOMAIN up.items : up.items[o].kind \in Kinds \cup {"whole"}
  BY <1>1, Talking
<1>3. PICK json \in BOOLEAN : Push(Extend(blocks, key, kind, <<PieceOf(json)>>), stop, FALSE)
  BY DEF BlockDelta, Count
<1>4. n \in Nat /\ n > 0 /\ n - 1 \in Nat /\ LastOpen(up.items)
  BY <1>1, <1>2 DEF IsOpen, Count, LastOpen
<1>5. kind \in Kinds
  BY <1>1, <1>2, <1>4
<1>6. key \in Keys /\ key = SlotOf(from, NewBlock(key, kind))
  BY <1>2, <1>4, BlockKey DEF SlotOf, NewBlock
<1> DEFINE w == <<PieceOf(json)>>
           bs == Extend(blocks, key, kind, w)
<1>7. w = <<Piece>> \/ w = <<- Piece>>
  BY DEF PieceOf
<1>8. Push(bs, stop, FALSE)
  BY <1>3
<1> HIDE DEF w, key
<1>9. \A i \in DOMAIN blocks : AnthropicBlock(blocks[i], up)
  BY <1>2 DEF Following
<1>10. ASSUME NEW i \in DOMAIN blocks, blocks[i].key = key
       PROVE  ~ blocks[i].done /\ blocks[i].kind = kind /\ blocks[i].fallback = <<>>
  <2>1. AnthropicBlock(blocks[i], up) /\ blocks[i].key = <<"block", n - 1>>
    BY <1>9, <1>10 DEF key, Key
  <2>2. ~ blocks[i].done
    BY <1>4, <2>1 DEF AnthropicBlock
  <2>3. blocks[i].fallback = <<>>
    BY <1>1, <2>1, <2>2 DEF AnthropicBlock
  <2>4. PICK m \in 0 .. n - 1 :
          /\ blocks[i].key = <<"block", m>>
          /\ blocks[i].kind = IF up.items[m+1].kind = "whole" THEN "tool" ELSE up.items[m+1].kind
    BY <2>1 DEF AnthropicBlock
  <2>5. m = n - 1
    BY <2>1, <2>4
  <2>6. m + 1 = n
    BY <1>4, <2>5
  <2>7. blocks[i].kind = kind
    BY <1>1, <2>4, <2>6
  <2> QED
    BY <2>2, <2>3, <2>7
<1> HIDE DEF kind
<1>11. CanTake(from, blocks, key, kind)
  <2>1. ~ Has(blocks, key) => \A i \in DOMAIN blocks :
          SlotOf(from, blocks[i]) # SlotOf(from, NewBlock(key, kind))
    BY <1>2, <1>6 DEF Has, SlotOf
  <2> QED
    BY <1>2, <1>10, <2>1 DEF CanTake
<1>12. Good(from, said', client, "open", bs) /\ Takes(blocks, key, kind, bs) /\ SaidNext
  BY <1>1, <1>2, <1>5, <1>6, <1>7, <1>11, SayGood
<1> HIDE DEF bs
<1>13. chatText' = chatText /\ chatThinking' = chatThinking
  BY <1>1 DEF SameChatBlocks
<1>14. Following(from, up', chatText', chatThinking', bs)
  <2> SUFFICES ASSUME NEW i \in DOMAIN bs PROVE AnthropicBlock(bs[i], up)
    BY <1>1, <1>2 DEF Following
  <2>1. CASE i \in DOMAIN blocks
    <3>1. AnthropicBlock(blocks[i], up)
      BY <1>9, <2>1
    <3>2. /\ bs[i].key = blocks[i].key /\ bs[i].kind = blocks[i].kind
          /\ bs[i].fallback = blocks[i].fallback /\ bs[i].done = blocks[i].done
      BY <1>12, <2>1 DEF Takes
    <3> QED
      BY <1>1, <3>1, <3>2 DEF AnthropicBlock, kind
  <2>2. CASE i \notin DOMAIN blocks
    <3>1. bs[i].key = <<"block", n - 1>> /\ bs[i].kind = kind /\ bs[i].fallback = <<>> /\ ~ bs[i].done
      BY <1>12, <2>2 DEF Takes, key, Key
    <3>2. n - 1 \in 0 .. n - 1 /\ (n - 1) + 1 = n
      BY <1>4
    <3> QED
      BY <1>1, <3>1, <3>2 DEF AnthropicBlock, kind
  <2> QED
    BY <2>1, <2>2
<1>15. Steady
  BY <1>1, <1>2, <1>13 DEF Steady
<1> QED
  BY <1>2, <1>8, <1>12, <1>14, <1>15, OpenStep

\* its end,
LEMMA BlockStopStep ==
  ASSUME Inv, BlockStop
  PROVE  Inv'
<1> DEFINE n == Len(up.items)
           key == Key(n - 1)
           cs == CloseThose(blocks, LAMBDA b : b.key = key)
<1>1. /\ Converting("anthropic", "talking") /\ SameChatBlocks /\ said' = said
      /\ IsOpen /\ Push(cs, stop, FALSE) /\ up' = [up EXCEPT !.items[n].open = FALSE]
  BY DEF BlockStop, Count
<1>2. /\ outcome = "open" /\ from # to /\ from = "anthropic"
      /\ Good(from, said, client, "open", blocks) /\ blocks \in Seq(Block)
      /\ Following(from, up, chatText, chatThinking, blocks)
      /\ stop \in Reasons /\ chatText \in Nat /\ chatThinking \in Nat /\ up \in UpSet
      /\ Len(up.items) \in Nat /\ DOMAIN up.items = 1 .. Len(up.items)
  BY <1>1, Talking
<1>3. n \in Nat /\ n > 0 /\ n \in DOMAIN up.items /\ LastOpen(up.items)
  BY <1>1, <1>2 DEF IsOpen, Count, LastOpen
<1>4. /\ up' \in UpSet /\ up'.phase = up.phase /\ Len(up'.items) = n
      /\ \A o \in DOMAIN up.items : up'.items[o].kind = up.items[o].kind
      /\ up'.items[n].open = FALSE
  <2>1. Shut(up, n, [up EXCEPT !.items[n].open = FALSE])
    BY <1>2, <1>3, UpShut
  <2>2. Shut(up, n, up')
    BY <1>1, <2>1
  <2> QED
    BY <2>2 DEF Shut
<1>5. CloseSome(blocks, cs)
      /\ \A i \in DOMAIN blocks : IF blocks[i].key = key THEN cs[i].done ELSE cs[i] = blocks[i]
  <2>1. cs = ClosedAt(blocks, key)
    BY DEF CloseThose, ClosedAt
  <2> HIDE DEF cs, key
  <2> QED
    BY <1>2, <2>1, CloseKeyIs
<1> HIDE DEF cs
<1>6. Good(from, said', client, "open", cs) /\ SaidNext
  BY <1>1, <1>2, <1>5, CloseGood DEF SaidNext
<1>7. chatText' = chatText /\ chatThinking' = chatThinking
  BY <1>1 DEF SameChatBlocks
<1>8. Following(from, up', chatText', chatThinking', cs)
  <2> SUFFICES ASSUME NEW i \in DOMAIN blocks PROVE AnthropicBlock(cs[i], up')
    BY <1>2, <1>5 DEF Following, CloseSome
  <2>1. AnthropicBlock(blocks[i], up)
    BY <1>2 DEF Following
  <2>2. cs[i].key = blocks[i].key /\ cs[i].kind = blocks[i].kind /\ cs[i].fallback = blocks[i].fallback
    BY <1>5, ClosedText
  <2>3. ~ LastOpen(up'.items)
    BY <1>4 DEF LastOpen
  <2>4. cs[i].done \/ cs[i].fallback = <<>>
    <3>1. CASE blocks[i].key = key
      BY <1>5, <3>1
    <3>2. CASE blocks[i].key # key
      <4>1. cs[i] = blocks[i]
        BY <1>5, <3>2
      <4> QED
        BY <2>1, <3>2, <4>1 DEF AnthropicBlock, Key
    <3> QED
      BY <3>1, <3>2
  <2>5. \E m \in 0 .. Len(up'.items) - 1 :
          /\ cs[i].key = <<"block", m>>
          /\ cs[i].kind = IF up'.items[m+1].kind = "whole" THEN "tool" ELSE up'.items[m+1].kind
    <3>1. PICK m \in 0 .. n - 1 :
            /\ blocks[i].key = <<"block", m>>
            /\ blocks[i].kind = IF up.items[m+1].kind = "whole" THEN "tool" ELSE up.items[m+1].kind
      BY <2>1 DEF AnthropicBlock
    <3>2. m \in 0 .. Len(up'.items) - 1 /\ m + 1 \in DOMAIN up.items
      BY <1>2, <1>3, <1>4, <3>1
    <3>3. up'.items[m+1].kind = up.items[m+1].kind
      BY <1>4, <3>2
    <3> QED
      BY <2>2, <3>1, <3>2, <3>3
  <2> QED
    BY <2>3, <2>4, <2>5 DEF AnthropicBlock
<1>9. Steady
  BY <1>2, <1>4, <1>7 DEF Steady
<1> QED
  BY <1>1, <1>2, <1>6, <1>8, <1>9, OpenStep

\* the stop reason
LEMMA MessageDeltaStep ==
  ASSUME Inv, MessageDelta
  PROVE  Inv'
<1>1. /\ Converting("anthropic", "talking") /\ SameChatBlocks /\ said' = said
      /\ up' = [up EXCEPT !.phase = "stopped"]
  BY DEF MessageDelta
<1>2. PICK reason \in {"stop", "length"} : Push(blocks, reason, FALSE)
  BY DEF MessageDelta
<1>3. /\ outcome = "open" /\ from # to /\ from = "anthropic"
      /\ Good(from, said, client, "open", blocks)
      /\ Following(from, up, chatText, chatThinking, blocks)
      /\ chatText \in Nat /\ chatThinking \in Nat /\ up \in UpSet
  BY <1>1, Talking
<1>4. up' \in UpSet /\ up'.items = up.items
  BY <1>1, <1>3, UpPhase
<1>5. reason \in Reasons
  BY DEF Reasons
<1>6. chatText' = chatText /\ chatThinking' = chatThinking
  BY <1>1 DEF SameChatBlocks
<1>7. SaidNext /\ Steady
  BY <1>1, <1>3, <1>4, <1>6 DEF SaidNext, Steady
<1>8. Following(from, up', chatText', chatThinking', blocks)
  BY <1>3, <1>4, <1>6 DEF Following, AnthropicBlock
<1> QED
  BY <1>1, <1>2, <1>3, <1>5, <1>7, <1>8, OpenStep

\* and the end of the message.
LEMMA MessageStopStep ==
  ASSUME Inv, MessageStop
  PROVE  Inv'
<1>1. /\ Converting("anthropic", "stopped") /\ SameChatBlocks /\ said' = said
      /\ up' = [up EXCEPT !.phase = "ended"] /\ Push(closeAll(blocks), stop, TRUE)
  BY DEF MessageStop
<1>2. /\ outcome = "open" /\ from # to /\ Good(from, said, client, "open", blocks)
      /\ stop \in Reasons /\ chatText \in Nat /\ chatThinking \in Nat /\ up \in UpSet
  BY <1>1, Talking
<1>3. up' \in UpSet /\ up'.phase = "ended"
  BY <1>1, <1>2, UpPhase
<1>4. chatText' = chatText /\ chatThinking' = chatThinking
  BY <1>1 DEF SameChatBlocks
<1>5. SaidNext /\ Steady /\ EndsRight(TRUE)
  BY <1>1, <1>2, <1>3, <1>4 DEF SaidNext, Steady, EndsRight
<1> QED
  BY <1>1, <1>2, <1>5, FinalStep

\* Keys of items are keys,
LEMMA ItemKeyType ==
  ASSUME NEW items, NEW o \in Nat \ {0}, items[o].kind \in Kinds
  PROVE  ItemsKey(items, o) \in Keys
<1>1. o - 1 \in Nat
  OBVIOUS
<1> QED
  BY <1>1 DEF ItemsKey, Keys

\* and differ.
LEMMA ItemKeysApart ==
  ASSUME NEW items, NEW o \in Nat, NEW p \in Nat, ItemsKey(items, o) = ItemsKey(items, p)
  PROVE  o = p
<1> DEFINE a == o - 1
           b == p - 1
           k == items[o].kind
           l == items[p].kind
<1>1. a \in Int /\ b \in Int /\ (a = b => o = p)
  OBVIOUS
<1>2. (IF k = "tool" THEN <<a>> ELSE <<a, k>>) = (IF l = "tool" THEN <<b>> ELSE <<b, l>>)
  BY DEF ItemsKey
<1> HIDE DEF a, b, k, l
<1>3. /\ \A z, y : <<z>>[1] = z /\ <<z, y>>[1] = z
      /\ \A z, y, x : <<z>> # <<y, x>>
  <2>1. \A z, y, x : Len(<<z>>) = 1 /\ Len(<<y, x>>) = 2
    OBVIOUS
  <2> QED
    BY <2>1
<1>4. a = b
  BY <1>2, <1>3
<1> QED
  BY <1>1, <1>4

\* A Responses answer.
LEMMA ResponsesFacts ==
  ASSUME Inv, Converting("responses", "talking")
  PROVE  /\ outcome = "open" /\ from # to /\ from = "responses"
         /\ Good(from, said, client, "open", blocks) /\ blocks \in Seq(Block) /\ said \in Seq(Keys)
         /\ Following("responses", up, chatText, chatThinking, blocks)
         /\ stop \in Reasons /\ chatText \in Nat /\ chatThinking \in Nat /\ up \in UpSet
         /\ Len(up.items) \in Nat /\ DOMAIN up.items = 1 .. Len(up.items)
         /\ \A o \in DOMAIN up.items :
              /\ up.items[o].kind \in Kinds /\ ItemKey(o) \in Keys
              /\ ItemKey(o) = ItemsKey(up.items, o)
              /\ \A p \in DOMAIN up.items : ItemKey(o) = ItemKey(p) => o = p
         /\ \A i \in DOMAIN blocks : ResponsesBlock(blocks[i], up)
<1>1. /\ outcome = "open" /\ from # to /\ from = "responses"
      /\ Good(from, said, client, "open", blocks) /\ blocks \in Seq(Block) /\ said \in Seq(Keys)
      /\ Following(from, up, chatText, chatThinking, blocks)
      /\ stop \in Reasons /\ chatText \in Nat /\ chatThinking \in Nat /\ up \in UpSet
      /\ Len(up.items) \in Nat /\ DOMAIN up.items = 1 .. Len(up.items)
  BY Talking
<1>2. Following("responses", up, chatText, chatThinking, blocks)
  BY <1>1
<1>3. /\ \A o \in DOMAIN up.items : up.items[o].kind \in Kinds
      /\ \A i \in DOMAIN blocks : ResponsesBlock(blocks[i], up)
  BY <1>2 DEF Following
<1>4. \A o \in DOMAIN up.items : o \in Nat \ {0} /\ ItemKey(o) = ItemsKey(up.items, o)
  BY <1>1 DEF ItemKey, ItemsKey
<1>5. \A o \in DOMAIN up.items : ItemKey(o) \in Keys
  BY <1>3, <1>4, ItemKeyType
<1>6. \A o \in DOMAIN up.items : \A p \in DOMAIN up.items : ItemKey(o) = ItemKey(p) => o = p
  BY <1>4, ItemKeysApart
<1> QED
  BY <1>1, <1>2, <1>3, <1>4, <1>5, <1>6

\* Text of an item that is open.
LEMMA ItemGood ==
  ASSUME Inv, Converting("responses", "talking"), NEW o \in DOMAIN up.items, up.items[o].open,
         Say(ItemKey(o)), NEW w, w = <<Piece>> \/ w = <<- Piece>>
  PROVE  /\ Good(from, said', client, "open", Extend(blocks, ItemKey(o), up.items[o].kind, w))
         /\ Takes(blocks, ItemKey(o), up.items[o].kind,
                  Extend(blocks, ItemKey(o), up.items[o].kind, w))
         /\ SaidNext
<1> DEFINE key == ItemKey(o)
           kind == up.items[o].kind
<1>1. /\ from = "responses" /\ Good(from, said, client, "open", blocks)
      /\ key \in Keys /\ kind \in Kinds
      /\ \A p \in DOMAIN up.items : ItemKey(p) = ItemsKey(up.items, p) /\ (key = ItemKey(p) => o = p)
      /\ \A i \in DOMAIN blocks : ResponsesBlock(blocks[i], up)
  BY ResponsesFacts
<1>2. ASSUME NEW i \in DOMAIN blocks, blocks[i].key = key
      PROVE  ~ blocks[i].done /\ blocks[i].kind = kind /\ blocks[i].fallback = <<>>
  <2>1. ResponsesBlock(blocks[i], up)
    BY <1>1
  <2>2. PICK p \in DOMAIN up.items :
          /\ blocks[i].key = ItemsKey(up.items, p) /\ blocks[i].kind = up.items[p].kind
          /\ up.items[p].open => ~ blocks[i].done
    BY <2>1 DEF ResponsesBlock
  <2>3. key = ItemKey(p)
    BY <1>1, <1>2, <2>2
  <2>4. p = o
    BY <1>1, <2>3
  <2> QED
    BY <2>1, <2>2, <2>4 DEF ResponsesBlock
<1>3. Say(key)
  OBVIOUS
<1>4. up.items[o].open
  OBVIOUS
<1> HIDE DEF key, kind
<1>5. key = SlotOf(from, NewBlock(key, kind))
  BY <1>1 DEF SlotOf, NewBlock
<1>6. CanTake(from, blocks, key, kind)
  <2>1. ~ Has(blocks, key) => \A i \in DOMAIN blocks :
          SlotOf(from, blocks[i]) # SlotOf(from, NewBlock(key, kind))
    BY <1>1, <1>5 DEF Has, SlotOf
  <2> QED
    BY <1>1, <1>2, <2>1 DEF CanTake
<1>7. /\ Good(from, said', client, "open", Extend(blocks, key, kind, w))
      /\ Takes(blocks, key, kind, Extend(blocks, key, kind, w)) /\ SaidNext
  BY <1>1, <1>3, <1>5, <1>6, SayGood
<1> QED
  BY <1>7 DEF key, kind

\* A piece of the text of a Responses item preserves the invariant,
LEMMA ItemDeltaStep ==
  ASSUME Inv, ItemDelta
  PROVE  Inv'
<1>1. Converting("responses", "talking") /\ SameChatBlocks /\ up' = up
  BY DEF ItemDelta
<1>2. PICK o \in DOMAIN up.items, json \in BOOLEAN :
        /\ up.items[o].open /\ Say(ItemKey(o))
        /\ Push(Extend(blocks, ItemKey(o), up.items[o].kind, <<PieceOf(json)>>), stop, FALSE)
  BY DEF ItemDelta
<1>3. /\ outcome = "open" /\ from # to /\ from = "responses"
      /\ Following("responses", up, chatText, chatThinking, blocks)
      /\ stop \in Reasons /\ chatText \in Nat /\ chatThinking \in Nat /\ up \in UpSet
      /\ ItemKey(o) = ItemsKey(up.items, o)
      /\ \A i \in DOMAIN blocks : ResponsesBlock(blocks[i], up)
  BY <1>1, ResponsesFacts
<1> DEFINE w == <<PieceOf(json)>>
           key == ItemKey(o)
           kind == up.items[o].kind
           bs == Extend(blocks, key, kind, w)
<1>4. w = <<Piece>> \/ w = <<- Piece>>
  BY DEF PieceOf
<1>5. Push(bs, stop, FALSE)
  BY <1>2
<1>6. Good(from, said', client, "open", bs) /\ Takes(blocks, key, kind, bs) /\ SaidNext
  <2> HIDE DEF w
  <2> QED
    BY <1>1, <1>2, <1>4, ItemGood
<1> HIDE DEF bs, w
<1>7. chatText' = chatText /\ chatThinking' = chatThinking
  BY <1>1 DEF SameChatBlocks
<1>8. Following(from, up', chatText', chatThinking', bs)
  <2>1. ASSUME NEW i \in DOMAIN bs PROVE ResponsesBlock(bs[i], up)
    <3>1. CASE i \in DOMAIN blocks
      <4>1. ResponsesBlock(blocks[i], up)
        BY <1>3, <3>1
      <4>2. /\ bs[i].key = blocks[i].key /\ bs[i].kind = blocks[i].kind
            /\ bs[i].fallback = blocks[i].fallback /\ bs[i].done = blocks[i].done
        BY <1>6, <3>1 DEF Takes
      <4> QED
        BY <4>1, <4>2 DEF ResponsesBlock
    <3>2. CASE i \notin DOMAIN blocks
      <4>1. bs[i].key = key /\ bs[i].kind = kind /\ bs[i].fallback = <<>> /\ ~ bs[i].done
        BY <1>6, <3>2 DEF Takes
      <4> QED
        BY <1>3, <4>1 DEF ResponsesBlock
    <3> QED
      BY <3>1, <3>2
  <2>2. Following("responses", up, chatText, chatThinking, bs)
    BY <1>3, <2>1 DEF Following
  <2> QED
    BY <1>1, <1>3, <1>7, <2>2
<1>9. Steady
  BY <1>1, <1>3, <1>7 DEF Steady
<1> QED
  BY <1>3, <1>5, <1>6, <1>8, <1>9, OpenStep

\* The final text of an item.
LEMMA FinalGood ==
  ASSUME Inv, Converting("responses", "talking"), NEW o \in DOMAIN up.items, up.items[o].open,
         NEW more \in BOOLEAN, IF more THEN Say(ItemKey(o)) ELSE said' = said
  PROVE  /\ Good(from, said', client, "open", WithFinal(blocks, o, more))
         /\ \/ WithFinal(blocks, o, more) = blocks
            \/ Takes(blocks, ItemKey(o), up.items[o].kind, WithFinal(blocks, o, more))
         /\ SaidNext
<1>1. CASE more = TRUE
  <2> DEFINE w == <<Piece>>
  <2>1. Say(ItemKey(o)) /\ (w = <<Piece>> \/ w = <<- Piece>>)
    BY <1>1
  <2>2. WithFinal(blocks, o, more) = Extend(blocks, ItemKey(o), up.items[o].kind, w)
    BY <1>1 DEF WithFinal, Extend
  <2> HIDE DEF w
  <2>3. /\ Good(from, said', client, "open", Extend(blocks, ItemKey(o), up.items[o].kind, w))
        /\ Takes(blocks, ItemKey(o), up.items[o].kind,
                 Extend(blocks, ItemKey(o), up.items[o].kind, w))
        /\ SaidNext
    BY <2>1, ItemGood
  <2> QED
    BY <2>2, <2>3
<1>2. CASE more = FALSE
  <2>1. said' = said /\ WithFinal(blocks, o, more) = blocks
    BY <1>2 DEF WithFinal
  <2>2. Good(from, said, client, "open", blocks)
    BY ResponsesFacts
  <2> QED
    BY <2>1, <2>2 DEF SaidNext
<1> QED
  BY <1>1, <1>2

\* the end of an item does, with a last piece or without,
LEMMA ItemDoneStep ==
  ASSUME Inv, ItemDone
  PROVE  Inv'
<1>1. Converting("responses", "talking") /\ SameChatBlocks
  BY DEF ItemDone
<1>2. PICK o \in DOMAIN up.items, more \in BOOLEAN :
        /\ up.items[o].open
        /\ IF more THEN MayAdd(o) /\ Say(ItemKey(o)) ELSE UNCHANGED said
        /\ Push(CloseThose(WithFinal(blocks, o, more), LAMBDA b : b.key = ItemKey(o)), stop, FALSE)
        /\ up' = [up EXCEPT !.items[o].open = FALSE]
  BY DEF ItemDone
<1>3. /\ outcome = "open" /\ from # to /\ from = "responses"
      /\ Following("responses", up, chatText, chatThinking, blocks)
      /\ stop \in Reasons /\ chatText \in Nat /\ chatThinking \in Nat /\ up \in UpSet
      /\ \A p \in DOMAIN up.items : up.items[p].kind \in Kinds /\ ItemKey(p) = ItemsKey(up.items, p)
      /\ \A i \in DOMAIN blocks : ResponsesBlock(blocks[i], up)
  BY <1>1, ResponsesFacts
<1> DEFINE key == ItemKey(o)
           ws == WithFinal(blocks, o, more)
           cs == ClosedAt(ws, key)
<1>4. Push(cs, stop, FALSE)
  BY <1>2 DEF CloseThose, ClosedAt
<1>5. /\ Good(from, said', client, "open", ws) /\ SaidNext
      /\ ws = blocks \/ Takes(blocks, key, up.items[o].kind, ws)
  <2>1. IF more THEN Say(ItemKey(o)) ELSE said' = said
    BY <1>2
  <2> QED
    BY <1>1, <1>2, <2>1, FinalGood
<1> HIDE DEF ws
<1>6. ws \in Seq(Block)
  BY <1>5 DEF Good, Stage
<1>7. CloseSome(ws, cs) /\ \A i \in DOMAIN ws : IF ws[i].key = key THEN cs[i].done ELSE cs[i] = ws[i]
  BY <1>6, CloseKeyIs
<1> HIDE DEF cs
<1>8. Good(from, said', client, "open", cs)
  BY <1>5, <1>7, CloseGood
<1>9. /\ up' \in UpSet /\ DOMAIN up'.items = DOMAIN up.items
      /\ \A p \in DOMAIN up.items : up'.items[p].kind = up.items[p].kind
      /\ \A p \in DOMAIN up.items : p # o => up'.items[p] = up.items[p]
      /\ up'.items[o].open = FALSE
  <2>1. Shut(up, o, [up EXCEPT !.items[o].open = FALSE])
    BY <1>3, UpShut
  <2>2. Shut(up, o, up')
    BY <1>2, <2>1
  <2> QED
    BY <2>2 DEF Shut
<1>10. \A p \in DOMAIN up.items : ItemsKey(up'.items, p) = ItemsKey(up.items, p)
  BY <1>9 DEF ItemsKey
<1>11. chatText' = chatText /\ chatThinking' = chatThinking
  BY <1>1 DEF SameChatBlocks
<1>12. Following(from, up', chatText', chatThinking', cs)
  <2>1. ASSUME NEW i \in DOMAIN ws PROVE ResponsesBlock(cs[i], up')
    <3>1. cs[i].key = ws[i].key /\ cs[i].kind = ws[i].kind /\ cs[i].fallback = ws[i].fallback
      BY <1>7, ClosedText
    <3>2. CASE i \in DOMAIN blocks
      <4>1. /\ ws[i].key = blocks[i].key /\ ws[i].kind = blocks[i].kind
            /\ ws[i].fallback = blocks[i].fallback /\ ws[i].done = blocks[i].done
        BY <1>5, <3>2 DEF Takes
      <4>2. ResponsesBlock(blocks[i], up)
        BY <1>3, <3>2
      <4>3. PICK p \in DOMAIN up.items :
              /\ blocks[i].key = ItemsKey(up.items, p) /\ blocks[i].kind = up.items[p].kind
              /\ up.items[p].open => ~ blocks[i].done
        BY <4>2 DEF ResponsesBlock
      <4>4. up'.items[p].open => ~ cs[i].done
        <5>1. CASE p = o
          BY <1>9, <5>1
        <5>2. CASE p # o /\ ws[i].key # key
          BY <1>7, <1>9, <4>1, <4>3, <5>2
        <5>3. CASE p # o /\ ws[i].key = key
          <6>1. ItemKey(o) = ItemKey(p)
            BY <1>3, <4>1, <4>3, <5>3
          <6> QED
            BY <1>1, <5>3, <6>1, ResponsesFacts
        <5> QED
          BY <5>1, <5>2, <5>3
      <4>5. /\ cs[i].key = ItemsKey(up'.items, p) /\ cs[i].kind = up'.items[p].kind
            /\ cs[i].fallback = <<>> /\ p \in DOMAIN up'.items
        BY <1>9, <1>10, <3>1, <4>1, <4>2, <4>3 DEF ResponsesBlock
      <4> QED
        BY <4>4, <4>5 DEF ResponsesBlock
    <3>3. CASE i \notin DOMAIN blocks
      <4>1. ws[i].key = key /\ ws[i].kind = up.items[o].kind /\ ws[i].fallback = <<>>
        BY <1>5, <3>3 DEF Takes
      <4>2. key = ItemsKey(up'.items, o)
        BY <1>3, <1>10
      <4> QED
        BY <1>9, <3>1, <4>1, <4>2 DEF ResponsesBlock
    <3> QED
      BY <3>2, <3>3
  <2>2. DOMAIN cs = DOMAIN ws
    BY <1>7 DEF CloseSome
  <2>3. \A p \in DOMAIN up'.items : up'.items[p].kind \in Kinds
    BY <1>3, <1>9
  <2>4. Following("responses", up', chatText, chatThinking, cs)
    BY <2>1, <2>2, <2>3 DEF Following
  <2> QED
    BY <1>3, <1>11, <2>4
<1>13. Steady
  BY <1>3, <1>9, <1>11 DEF Steady
<1> QED
  BY <1>3, <1>4, <1>5, <1>8, <1>12, <1>13, OpenStep

\* the end of the answer, which may hold a text that no event told,
LEMMA CompletedStep ==
  ASSUME Inv, Completed
  PROVE  Inv'
<1>1. /\ Converting("responses", "talking") /\ SameChatBlocks
      /\ up' = [up EXCEPT !.phase = "ended"]
  BY DEF Completed
<1>2. PICK reason \in Reasons :
        \/ Push(closeAll(blocks), reason, TRUE) /\ said' = said
        \/ \E o \in DOMAIN up.items :
             /\ up.items[o].open /\ Say(ItemKey(o))
             /\ Push(closeAll(WithFinal(blocks, o, TRUE)), reason, TRUE)
  BY Zenon DEF Completed, Reasons
<1>3. /\ outcome = "open" /\ from # to /\ Good(from, said, client, "open", blocks)
      /\ chatText \in Nat /\ chatThinking \in Nat /\ up \in UpSet
  BY <1>1, ResponsesFacts
<1>4. up' \in UpSet /\ up'.phase = "ended"
  BY <1>1, <1>3, UpPhase
<1>5. chatText' = chatText /\ chatThinking' = chatThinking
  BY <1>1 DEF SameChatBlocks
<1>6. Steady /\ EndsRight(TRUE)
  BY <1>3, <1>4, <1>5 DEF Steady, EndsRight
<1>7. CASE Push(closeAll(blocks), reason, TRUE) /\ said' = said
  <2>1. Good(from, said', client, "open", blocks) /\ SaidNext
    BY <1>3, <1>7 DEF SaidNext
  <2> QED
    BY <1>3, <1>6, <1>7, <2>1, FinalStep
<1>8. CASE \E o \in DOMAIN up.items :
             /\ up.items[o].open /\ Say(ItemKey(o))
             /\ Push(closeAll(WithFinal(blocks, o, TRUE)), reason, TRUE)
  <2>1. PICK o \in DOMAIN up.items :
             /\ up.items[o].open /\ Say(ItemKey(o))
             /\ Push(closeAll(WithFinal(blocks, o, TRUE)), reason, TRUE)
    BY <1>8
  <2> DEFINE more == TRUE
             ws == WithFinal(blocks, o, more)
  <2>2. more \in BOOLEAN /\ (IF more THEN Say(ItemKey(o)) ELSE said' = said)
    BY <2>1
  <2>3. Push(closeAll(ws), reason, TRUE)
    BY <2>1
  <2> HIDE DEF more
  <2>4. Good(from, said', client, "open", ws) /\ SaidNext
    BY <1>1, <2>1, <2>2, FinalGood
  <2> HIDE DEF ws
  <2> QED
    BY <1>3, <1>6, <2>3, <2>4, FinalStep
<1> QED
  BY <1>2, <1>7, <1>8

\* and the beginning of an item.
LEMMA ItemAddedStep ==
  ASSUME Inv, ItemAdded
  PROVE  Inv'
<1> DEFINE n == Len(up.items)
           key == <<n>>
           bs == With(blocks, key, "tool")
           k == At(bs, key)
           h == {"id", "name"}
           cs == [bs EXCEPT ![k].header = h]
<1>1. /\ Converting("responses", "talking") /\ SameChatBlocks /\ said' = said
  BY DEF ItemAdded
<1>2. PICK kind \in {"text", "refusal", "thinking", "tool"} :
        /\ Push(IF kind = "tool" THEN cs ELSE blocks, stop, FALSE)
        /\ up' = [up EXCEPT !.items = Append(@, Item(kind))]
  BY DEF ItemAdded, Count
<1>3. /\ outcome = "open" /\ from # to /\ from = "responses"
      /\ Good(from, said, client, "open", blocks) /\ blocks \in Seq(Block) /\ said \in Seq(Keys)
      /\ Following("responses", up, chatText, chatThinking, blocks)
      /\ stop \in Reasons /\ chatText \in Nat /\ chatThinking \in Nat /\ up \in UpSet
      /\ Len(up.items) \in Nat /\ DOMAIN up.items = 1 .. Len(up.items)
      /\ \A p \in DOMAIN up.items : up.items[p].kind \in Kinds
      /\ \A i \in DOMAIN blocks : ResponsesBlock(blocks[i], up)
  BY <1>1, ResponsesFacts
<1> DEFINE it == Item(kind)
<1>4. it \in ItemSet /\ it.kind = kind /\ it.open /\ kind \in Kinds
  BY DEF Item, ItemSet, Kinds
<1>5. up' = [up EXCEPT !.items = Append(@, it)]
  BY <1>2
<1> HIDE DEF it
<1>6. /\ up' \in UpSet /\ Len(up'.items) = n + 1
      /\ DOMAIN up'.items = 1 .. n + 1
      /\ \A o \in 1 .. n : up'.items[o] = up.items[o]
      /\ up'.items[n + 1] = it
  BY <1>3, <1>4, <1>5, UpAdded, SMTT(30)
<1>7. chatText' = chatText /\ chatThinking' = chatThinking
  BY <1>1 DEF SameChatBlocks
<1>8. Steady /\ SaidNext
  BY <1>1, <1>3, <1>6, <1>7 DEF Steady, SaidNext
<1>9. \A p \in DOMAIN up'.items : up'.items[p].kind \in Kinds
  <2>1. \A p \in 1 .. n + 1 : p \in 1 .. n \/ p = n + 1
    BY <1>3
  <2> QED
    BY <1>3, <1>4, <1>6, <2>1
<1>10. \A i \in DOMAIN blocks : ResponsesBlock(blocks[i], up')
  <2> TAKE i \in DOMAIN blocks
  <2>1. ResponsesBlock(blocks[i], up)
    BY <1>3
  <2>2. PICK p \in DOMAIN up.items :
          /\ blocks[i].key = ItemsKey(up.items, p) /\ blocks[i].kind = up.items[p].kind
          /\ up.items[p].open => ~ blocks[i].done
    BY <2>1 DEF ResponsesBlock
  <2>3. p \in DOMAIN up'.items /\ up'.items[p] = up.items[p]
    BY <1>3, <1>6
  <2>4. ItemsKey(up'.items, p) = ItemsKey(up.items, p)
    BY <2>3 DEF ItemsKey
  <2> QED
    BY <2>1, <2>2, <2>3, <2>4 DEF ResponsesBlock
<1>11. CASE kind # "tool"
  <2>1. Push(blocks, stop, FALSE)
    BY <1>2, <1>11
  <2>2. Following("responses", up', chatText, chatThinking, blocks)
    BY <1>9, <1>10 DEF Following
  <2>3. Following(from, up', chatText', chatThinking', blocks) /\ Good(from, said', client, "open", blocks)
    BY <1>1, <1>3, <1>7, <2>2
  <2> QED
    BY <1>3, <1>8, <2>1, <2>3, OpenStep
<1>12. CASE kind = "tool"
  <2>1. Push(cs, stop, FALSE)
    BY <1>2, <1>12
  <2> HIDE DEF bs, k, cs, h
  <2>2. key \in Keys /\ "tool" \in Kinds
    BY <1>3 DEF Keys, Kinds
  <2>3. \A i \in DOMAIN blocks : blocks[i].key # key
    <3> SUFFICES ASSUME NEW i \in DOMAIN blocks, blocks[i].key = key PROVE FALSE
      OBVIOUS
    <3>1. PICK p \in DOMAIN up.items : blocks[i].key = ItemsKey(up.items, p)
      BY <1>3 DEF ResponsesBlock
    <3>2. p \in Nat /\ p - 1 < n /\ p - 1 \in Int
      BY <1>3
    <3>3. /\ \A z, y : <<z>>[1] = z /\ <<z, y>>[1] = z
          /\ \A z, y, x : <<z>> # <<y, x>>
      <4>1. \A z, y, x : Len(<<z>>) = 1 /\ Len(<<y, x>>) = 2
        OBVIOUS
      <4> QED
        BY <4>1
    <3> DEFINE m == p - 1
    <3>4. m < n
      BY <3>2
    <3>5. <<n>> = <<m>> \/ <<n>> = <<m, up.items[p].kind>>
      BY <3>1 DEF ItemsKey
    <3> HIDE DEF m
    <3>6. n = m
      BY <3>3, <3>5
    <3> QED
      BY <1>3, <3>4, <3>6
  <2> HIDE DEF key
  <2>4. CanTake(from, blocks, key, "tool")
    BY <1>3, <2>3 DEF CanTake, SlotOf, NewBlock
  <2>5. Widened(blocks, key, "tool", bs) /\ bs \in Seq(Block) /\ Has(bs, key)
    BY <1>3, <2>2, WithIs DEF bs
  <2>6. /\ Good(from, said, client, "open", bs)
        /\ DOMAIN blocks \subseteq DOMAIN bs
        /\ \A i \in DOMAIN blocks : bs[i] = blocks[i]
        /\ \A i \in DOMAIN bs \ DOMAIN blocks :
             /\ bs[i].key = key /\ bs[i].kind = "tool" /\ bs[i].fallback = <<>> /\ ~ bs[i].done
             /\ bs[i].header = {}
    BY <1>3, <2>4, <2>5, WidenGood
  <2>7. k \in DOMAIN bs /\ bs[k].key = key
    BY <2>5, AtIs DEF k
  <2>8. k \notin DOMAIN blocks
    BY <2>3, <2>6, <2>7
  <2>9. Heads(bs, k, <<>>, cs)
    <3>1. bs[k].fallback = <<>> /\ bs[k].header = {}
      BY <2>6, <2>7, <2>8
    <3>2. cs = [bs EXCEPT ![k].header = @ \cup h]
      <4>1. bs[k].header \cup h = h
        BY <3>1
      <4> QED
        BY <4>1 DEF cs
    <3>3. h \in SUBSET {"id", "name"}
      BY DEF h
    <3> QED
      BY <2>5, <2>7, <3>1, <3>2, <3>3, HeaderIs
  <2>10. Good(from, said', client, "open", cs)
    <3> DEFINE p == "open"
               e == <<>>
    <3>1. Newest(said, SlotOf(from, bs[k]), e)
      BY <1>3, NoneNewest
    <3>2. Good(from, said, client, p, bs) /\ Heads(bs, k, e, cs) /\ p = p
      BY <2>6, <2>9
    <3> HIDE DEF p, e
    <3>3. Good(from, said, client, p, cs)
      BY <3>1, <3>2, HeadGood
    <3> QED
      BY <1>1, <3>3 DEF p
  <2>11. ASSUME NEW i \in DOMAIN cs PROVE ResponsesBlock(cs[i], up')
    <3>1. DOMAIN cs = DOMAIN bs /\ \A j \in DOMAIN bs : j # k => cs[j] = bs[j]
      BY <2>9 DEF Heads
    <3>2. CASE i \in DOMAIN blocks
      BY <1>10, <2>6, <2>8, <3>1, <3>2
    <3>3. CASE i \notin DOMAIN blocks
      <4>1. /\ cs[i].key = key /\ cs[i].kind = "tool" /\ cs[i].fallback = <<>> /\ ~ cs[i].done
        BY <2>6, <2>9, <3>1, <3>3 DEF Heads
      <4>2. n + 1 \in DOMAIN up'.items /\ (n + 1) - 1 = n
        BY <1>3, <1>6
      <4>3. up'.items[n + 1].kind = "tool"
        BY <1>4, <1>6, <1>12
      <4>4. key = ItemsKey(up'.items, n + 1)
        BY <4>2, <4>3 DEF ItemsKey, key
      <4> QED
        BY <4>1, <4>2, <4>3, <4>4 DEF ResponsesBlock
    <3> QED
      BY <3>2, <3>3
  <2>12. Following("responses", up', chatText, chatThinking, cs)
    BY <1>9, <2>11 DEF Following
  <2>13. Following(from, up', chatText', chatThinking', cs)
    BY <1>3, <1>7, <2>12
  <2> QED
    BY <1>3, <1>8, <2>1, <2>10, <2>13, OpenStep
<1> QED
  BY <1>11, <1>12

\* The end of the bytes, and errors.
LEMMA FailStep ==
  ASSUME Inv, outcome = "open", Fail, SameChatBlocks,
         UNCHANGED <<from, to, stop, said, up>>
  PROVE  Inv'
<1>1. /\ outcome' = "failed" /\ blocks' = blocks /\ started' = started /\ client' = client
      /\ chatText' = chatText /\ chatThinking' = chatThinking
      /\ from' = from /\ to' = to /\ stop' = stop /\ said' = said /\ up' = up
  BY DEF Fail, SameChatBlocks
<1>2. TypeOK'
  BY <1>1 DEF Inv, TypeOK
<1>3. Core(from', to', said', client', blocks')
  BY <1>1 DEF Inv
<1>4. AllPlaced("failed", said, blocks)
  BY PlacedAnyway DEF Inv
<1>5. AllPlaced(outcome', said', blocks')
  BY <1>1, <1>4
<1>6. Ends'
  BY <1>1 DEF Inv, Ends
<1>7. Due'
  BY <1>1 DEF Due
<1>8. from' = to' => blocks' = <<>> /\ said' = <<>>
  BY <1>1 DEF Inv
<1> QED
  BY <1>1, <1>2, <1>3, <1>5, <1>6, <1>7, <1>8 DEF Inv

\* An error of the upstream preserves the invariant.
LEMMA UpstreamErrorStep ==
  ASSUME Inv, UpstreamError
  PROVE  Inv'
BY FailStep DEF UpstreamError

\* Between equal protocols there are no blocks.
LEMMA Relaying ==
  ASSUME Inv, outcome = "open", from = to
  PROVE  /\ blocks = <<>> /\ said = <<>> /\ AllDone(blocks) /\ NoFinish(client)
         /\ Stage(from, said, client, blocks) /\ client \in Seq(EventSet)
<1>1. blocks = <<>> /\ said = <<>>
  BY DEF Inv
<1>2. DOMAIN blocks = {}
  BY <1>1
<1>3. AllDone(blocks)
  BY <1>2 DEF AllDone
<1>4. NoFinish(client)
  BY DEF Inv, Ends, NoFinish
<1>5. Stage(from, said, client, blocks) /\ client \in Seq(EventSet)
  BY DEF Inv, TypeOK, Stage
<1> QED
  BY <1>1, <1>3, <1>4, <1>5

\* An event that is passed on.
LEMMA PassStep ==
  ASSUME Inv, outcome = "open", from = to, NEW type \in {"relay", "finish"}, Pass(type),
         outcome' = IF type = "finish" THEN "finished" ELSE "open",
         UNCHANGED <<from, to, blocks, chatText, chatThinking, started, said>>,
         stop' \in Reasons, up' \in UpSet, up'.items = up.items,
         type = "relay" => up' = up,
         EndsRight(type = "finish")
  PROVE  Inv'
<1> DEFINE e == [type |-> type]
           d == client \o <<e>>
<1>1. /\ blocks = <<>> /\ said = <<>> /\ AllDone(blocks) /\ NoFinish(client)
      /\ Stage(from, said, client, blocks) /\ client \in Seq(EventSet)
  BY Relaying
<1>2. e \in EventSet /\ ~ IsOfBlock(e) /\ e.type = type
  BY DEF EventSet, IsOfBlock
<1>3. client' = Append(client, e)
  BY DEF Pass
<1> HIDE DEF e
<1>4. Append(client, e) = d /\ More(client, e, d)
  BY <1>1, <1>2, OneEvent, OneMore DEF More
<1> HIDE DEF d
<1>5. client' = d
  BY <1>3, <1>4
<1>6. Stage(from, said, d, blocks)
  BY <1>1, <1>2, PlainStage, FinishStage DEF d
<1>7. /\ d \in Seq(EventSet) /\ Len(d) = Len(client) + 1 /\ Len(client) \in Nat
      /\ DOMAIN client = 1 .. Len(client) /\ DOMAIN d = 1 .. Len(client) + 1
      /\ \A k \in 1 .. Len(client) : d[k] = client[k]
      /\ d[Len(client) + 1] = e
  BY <1>4 DEF More
<1>8. TypeOK'
  BY <1>5, <1>7 DEF Inv, TypeOK
<1>9. Core(from', to', said', client', blocks')
  BY <1>5, <1>6 DEF Stage
<1>10. AllPlaced(outcome', said', blocks')
  BY <1>1 DEF AllPlaced
<1>11. outcome' = "open" => Following(from', up', chatText', chatThinking', blocks')
  BY <1>2 DEF Inv
<1>12. \A k \in DOMAIN d : d[k].type = "finish" => k = Len(d) /\ type = "finish"
  BY <1>1, <1>2, <1>7 DEF NoFinish
<1>13. d # <<>> /\ Len(d) \in DOMAIN d /\ d[Len(d)] = e
  BY <1>7
<1>14. Ends'
  <2>1. outcome' = "finished" <=> type = "finish"
    OBVIOUS
  <2>2. outcome' = "finished" => EndsRight(TRUE)
    BY <2>1
  <2>3. outcome' = "finished" => up'.phase = "ended" \/ (from' = "chat" /\ stop' # "")
    BY Zenon, <2>2 DEF EndsRight
  <2>4. from' = to'
    OBVIOUS
  <2>5. /\ \A k \in DOMAIN client' :
             client'[k].type = "finish" => k = Len(client') /\ outcome' = "finished"
        /\ outcome' = "finished" => client' # <<>> /\ client'[Len(client')].type = "finish"
    BY <1>2, <1>5, <1>12, <1>13, <2>1
  <2> QED
    BY Zenon, <2>3, <2>4, <2>5 DEF Ends
<1>15. Due'
  BY <1>1 DEF Due
<1>16. from' = to' => blocks' = <<>> /\ said' = <<>>
  BY <1>1
<1> QED
  BY <1>8, <1>9, <1>10, <1>11, <1>14, <1>15, <1>16 DEF Inv

\* Passing on an event preserves the invariant,
LEMMA RelayStep ==
  ASSUME Inv, Relay
  PROVE  Inv'
<1>1. /\ outcome = "open" /\ from = to /\ Pass("relay")
      /\ UNCHANGED <<from, to, blocks, chatText, chatThinking, started, outcome, said, up>>
  BY DEF Relay, Passing
<1>2. stop \in Reasons /\ up \in UpSet
  BY DEF Inv, TypeOK
<1>3. stop' \in Reasons
  <2>1. "stop" \in Reasons
    BY Zenon DEF Reasons
  <2>2. stop' \in {stop} \cup {"stop"}
    BY DEF Relay
  <2> QED
    BY <1>2, <2>1, <2>2
<1> DEFINE type == "relay"
<1>4. type \in {"relay", "finish"} /\ Pass(type) /\ type # "finish"
  BY <1>1
<1> HIDE DEF type
<1>5. EndsRight(type = "finish")
  BY <1>4 DEF EndsRight
<1>6. outcome' = IF type = "finish" THEN "finished" ELSE "open"
  BY <1>1, <1>4
<1> QED
  BY <1>1, <1>2, <1>3, <1>4, <1>5, <1>6, PassStep

\* and passing on the last one.
LEMMA RelayEndingStep ==
  ASSUME Inv, RelayEnding
  PROVE  Inv'
<1>1. /\ outcome = "open" /\ from = to /\ Pass("finish") /\ outcome' = "finished"
      /\ up' = [up EXCEPT !.phase = "ended"]
      /\ UNCHANGED <<from, to, blocks, chatText, chatThinking, stop, started, said>>
  BY DEF RelayEnding, Passing
<1>2. stop \in Reasons /\ up \in UpSet
  BY DEF Inv, TypeOK
<1>3. up' \in UpSet /\ up'.phase = "ended" /\ up'.items = up.items
  BY <1>1, <1>2, UpPhase
<1> DEFINE type == "finish"
<1>4. type \in {"relay", "finish"} /\ Pass(type) /\ type # "relay" /\ type = "finish"
  BY <1>1
<1> HIDE DEF type
<1>5. EndsRight(type = "finish")
  BY <1>3 DEF EndsRight
<1>6. outcome' = IF type = "finish" THEN "finished" ELSE "open"
  BY <1>1, <1>4
<1> QED
  BY <1>1, <1>2, <1>3, <1>4, <1>5, <1>6, PassStep

\* The end of the bytes preserves the invariant: the answer is finished, or it
\* failed.
LEMMA EndStep ==
  ASSUME Inv, End
  PROVE  Inv'
<1>1. outcome = "open" /\ SameChatBlocks /\ UNCHANGED <<said, up>>
  BY DEF End
<1>2. /\ stop \in Reasons /\ up \in UpSet /\ chatText \in Nat /\ chatThinking \in Nat
      /\ blocks \in Seq(Block) /\ said \in Seq(Keys) /\ client \in Seq(EventSet)
  BY DEF Inv, TypeOK
<1>3. chatText' = chatText /\ chatThinking' = chatThinking
  BY <1>1 DEF SameChatBlocks
<1>4. CASE ~ EndIsWhole
  <2>1. Fail /\ UNCHANGED <<stop, from, to>>
    BY <1>4 DEF End
  <2> QED
    BY <1>1, <2>1, FailStep
<1>5. CASE EndIsWhole /\ from = to
  <2>1. /\ Pass("finish") /\ outcome' = "finished"
        /\ UNCHANGED <<blocks, started, stop, from, to>>
    BY <1>5 DEF End
  <2>2. EndsRight(TRUE)
    <3>1. up'.phase = "ended" \/ (from = "chat" /\ stop' # "")
      BY Zenon, <1>5, <2>1 DEF EndIsWhole
    <3> QED
      BY <3>1, Zenon DEF EndsRight
  <2> DEFINE type == "finish"
  <2>4. type \in {"relay", "finish"} /\ Pass(type) /\ type # "relay" /\ type = "finish"
    BY <2>1
  <2> HIDE DEF type
  <2>5. EndsRight(type = "finish")
    BY <2>2, <2>4
  <2>6. outcome' = IF type = "finish" THEN "finished" ELSE "open"
    BY <2>1, <2>4
  <2> QED
    BY <1>1, <1>2, <1>3, <1>5, <2>1, <2>4, <2>5, <2>6, PassStep
<1>6. CASE EndIsWhole /\ from # to
  <2>1. Push(closeAll(blocks), stop, TRUE)
    BY <1>6 DEF End
  <2>2. EndsRight(TRUE)
    <3>1. stop' = stop
      BY <2>1 DEF Push
    <3>2. up'.phase = "ended" \/ (from = "chat" /\ stop' # "")
      BY Zenon, <1>6, <3>1 DEF EndIsWhole
    <3> QED
      BY <3>2, Zenon DEF EndsRight
  <2>3. Good(from, said', client, "open", blocks)
    BY <1>1, <1>2 DEF Inv, Good, Stage
  <2>4. SaidNext /\ Steady
    BY <1>1, <1>2, <1>3 DEF SaidNext, Steady
  <2> QED
    BY <1>1, <1>2, <1>6, <2>1, <2>2, <2>3, <2>4, FinalStep
<1> QED
  BY <1>4, <1>5, <1>6

\* No event, no text.
LEMMA NothingStreamed == \A c, i : StreamedIn(c, 0, i) = <<>>
<1> TAKE c, i
<1> DEFINE part(k) == IF c[k].type = "delta" /\ c[k].index = i THEN c[k].text ELSE <<>>
           ss == [k \in 1 .. 0 |-> part(k)]
<1>1. ss = <<>>
  <2> HIDE DEF part
  <2>1. 1 .. 0 = {}
    OBVIOUS
  <2> QED
    BY <2>1
<1>2. StreamedIn(c, 0, i) = FlattenSeq(ss)
  BY DEF StreamedIn
<1> QED
  BY <1>1, <1>2, FlattenEmpty

\* The invariant holds before the first event,
LEMMA Starts ==
  ASSUME Init
  PROVE  Inv
<1>1. /\ blocks = <<>> /\ chatText = 0 /\ chatThinking = 0 /\ started = FALSE
      /\ outcome = "open" /\ client = <<>> /\ said = <<>>
      /\ up = [phase |-> "talking", items |-> <<>>]
  BY DEF Init
<1>2. stop \in Reasons
  BY Zenon DEF Init, Reasons
<1>3. from \in Protocols /\ to \in Protocols
  <2>1. PICK p \in Pairs : from = p[1] /\ to = p[2]
    BY DEF Init
  <2>2. p \in Protocols \X Protocols
    BY StreamAssumption
  <2> QED
    BY <2>1, <2>2
<1>4. DOMAIN blocks = {} /\ DOMAIN client = {} /\ DOMAIN said = {} /\ DOMAIN up.items = {}
  BY <1>1
<1>5. /\ blocks \in Seq(Block) /\ client \in Seq(EventSet) /\ said \in Seq(Keys)
      /\ up \in UpSet
  BY <1>1 DEF UpSet
<1>6. TypeOK
  BY <1>1, <1>2, <1>3, <1>5 DEF TypeOK
<1>7. Texts(from, said, blocks)
  BY <1>4 DEF Texts, OneKey, KeyOfKind, Filled, OfSlot, Successive
<1>8. Sound(from, to, blocks)
  BY <1>4 DEF Sound, InTurn
<1>9. Tied(to, client, blocks)
  <2>1. /\ Owned(to, client, blocks) /\ Opened(to, client, blocks)
        /\ Closed(to, client, blocks) /\ AllHeard(client, blocks)
    BY <1>4 DEF Owned, Opened, Closed, AllHeard
  <2>2. AllStreamed(to, client, blocks)
    <3>1. Len(client) = 0
      BY <1>1
    <3>2. \A n \in Nat : StreamedIn(client, Len(client), n) = <<>>
      BY <3>1, NothingStreamed
    <3> QED
      BY <1>4, <3>2 DEF AllStreamed
  <2> QED
    BY <2>1, <2>2 DEF Tied
<1>10. Proper(from, to, said, client)
  BY <1>4 DEF Proper, Orderly, Used, Retold, InOrder
<1>11. AllPlaced(outcome, said, blocks)
  BY <1>4 DEF AllPlaced
<1>12. Following(from, up, chatText, chatThinking, blocks)
  BY <1>4 DEF Following
<1>13. Ends
  BY <1>1, <1>4 DEF Ends
<1>14. Due
  BY <1>1, <1>4 DEF Due
<1> QED
  BY <1>1, <1>6, <1>7, <1>8, <1>9, <1>10, <1>11, <1>12, <1>13, <1>14 DEF Inv, Core

\* and every step preserves it.
LEMMA Steps ==
  ASSUME Inv, [Next]_vars
  PROVE  Inv'
<1>1. CASE UNCHANGED vars
  <2>1. UNCHANGED <<from, to, blocks, chatText, chatThinking, stop, started, outcome, client,
                    said, up>>
    BY <1>1 DEF vars, streamVars
  <2>2. /\ TypeOK' <=> TypeOK
        /\ Ends' <=> Ends
        /\ Due' <=> Due
    BY Zenon, <2>1 DEF TypeOK, Ends, Due
  <2> QED
    BY Zenon, <2>1, <2>2 DEF Inv
<1>2. CASE FromChat
  BY <1>2, ChatContentStep, ChatReasoningStep, ChatRefusalStep, ChatToolStartStep,
     ChatToolNameStep, ChatToolArgumentsStep, ChatFinishStep, ChatDoneStep DEF FromChat
<1>3. CASE FromAnthropic
  BY <1>3, BlockStartStep, BlockDeltaStep, BlockStopStep, MessageDeltaStep, MessageStopStep
     DEF FromAnthropic
<1>4. CASE FromResponses
  BY <1>4, ItemAddedStep, ItemDeltaStep, ItemDoneStep, CompletedStep DEF FromResponses
<1>5. CASE Silence \/ Relay \/ RelayEnding \/ End \/ UpstreamError
  BY <1>5, SilenceStep, RelayStep, RelayEndingStep, EndStep, UpstreamErrorStep
<1> QED
  BY <1>1, <1>2, <1>3, <1>4, <1>5 DEF Next

\* What the client heard, in terms of the invariant.
LEMMA HeardIs ==
  ASSUME Inv
  PROVE  \A n : n \in Heard <=> IsHeard(client, n)
<1>1. client \in Seq(EventSet) /\ DOMAIN client = 1 .. Len(client)
  BY LenProperties DEF Inv, TypeOK
<1>2. \A k \in DOMAIN client : client[k].type = "delta" => client[k].text \in Seq(Int)
  BY <1>1, EventText, LenProperties
<1>3. \A k \in DOMAIN client : client[k].type = "delta" =>
        \A x \in DOMAIN client[k].text :
          /\ client[k].text[x] \in Int
          /\ (Abs(client[k].text[x]) # EmptyInput) <=> (client[k].text[x] # EmptyInput)
  <2> TAKE k \in DOMAIN client
  <2> HAVE client[k].type = "delta"
  <2> TAKE x \in DOMAIN client[k].text
  <2> DEFINE z == client[k].text[x]
  <2>1. z \in Int
    BY <1>2, LenProperties
  <2> HIDE DEF z
  <2>2. (Abs(z) # EmptyInput) <=> (z # EmptyInput)
    BY <2>1 DEF Abs, EmptyInput
  <2> QED
    BY <2>1, <2>2 DEF z
<1>4. ASSUME NEW n, n \in Heard PROVE IsHeard(client, n)
  <2>1. PICK p \in Places : n = PieceAt(p)
    BY <1>4 DEF Heard
  <2>2. PICK k \in Deltas : p \in {k} \X DOMAIN client[k].text /\ PieceAt(p) # EmptyInput
    BY <2>1 DEF Places
  <2>3. p[1] = k /\ p[2] \in DOMAIN client[k].text
    BY <2>2
  <2>4. n = Abs(client[k].text[p[2]])
    BY <2>1, <2>3 DEF PieceAt
  <2>5. k \in DOMAIN client /\ client[k].type = "delta"
    BY <2>2 DEF Deltas
  <2> QED
    BY <1>3, <2>1, <2>2, <2>3, <2>4, <2>5 DEF IsHeard, Holds
<1>5. ASSUME NEW n, IsHeard(client, n) PROVE n \in Heard
  <2>1. PICK k \in DOMAIN client : client[k].type = "delta" /\ Holds(client[k].text, n)
    BY <1>5 DEF IsHeard
  <2>2. PICK x \in DOMAIN client[k].text :
          client[k].text[x] # EmptyInput /\ Abs(client[k].text[x]) = n
    BY <2>1 DEF Holds
  <2> DEFINE p == <<k, x>>
  <2>3. p \in {k} \X DOMAIN client[k].text /\ PieceAt(p) = n /\ k \in Deltas
    BY <2>1, <2>2 DEF PieceAt, Deltas
  <2> HIDE DEF p
  <2>4. n # EmptyInput
    BY <1>3, <2>1, <2>2
  <2>5. p \in Places
    BY <2>3, <2>4 DEF Places
  <2> QED
    BY <2>3, <2>5 DEF Heard
<1> QED
  BY <1>4, <1>5

\* A piece the client heard is text of a block, already sent.
InBlock(p, i, y) ==
  /\ Tells(to, client[p[1]], blocks, i)
  /\ y \in 1 .. blocks[i].sent /\ y \in DOMAIN blocks[i].text
  /\ blocks[i].text[y] # EmptyInput /\ Abs(blocks[i].text[y]) = PieceAt(p)
  /\ PieceAt(p) \in DOMAIN said /\ said[PieceAt(p)] = SlotOf(from, blocks[i])

\* Types of the parts of a block.
LEMMA BlockFacts ==
  ASSUME Inv, NEW i \in DOMAIN blocks
  PROVE  /\ blocks[i].text \in Seq(Int) /\ Len(blocks[i].text) \in Nat
         /\ DOMAIN blocks[i].text = 1 .. Len(blocks[i].text)
         /\ blocks[i].sent \in Nat /\ blocks[i].sent <= Len(blocks[i].text)
         /\ blocks[i].sent > 0 => blocks[i].started
         /\ i \in Nat \ {0} /\ blocks[i] \in Block
<1>1. blocks \in Seq(Block) /\ Progress(blocks[i])
  BY DEF Inv, TypeOK, Core, Sound
<1>2. blocks[i] \in Block /\ i \in Nat \ {0}
  BY <1>1, LenProperties
<1>3. blocks[i].text \in Seq(Int) /\ blocks[i].sent \in Nat
  BY <1>2 DEF Block
<1>4. Len(blocks[i].text) \in Nat /\ DOMAIN blocks[i].text = 1 .. Len(blocks[i].text)
  BY <1>3, LenProperties
<1> QED
  BY <1>1, <1>2, <1>3, <1>4 DEF Progress

\* Every piece the client heard is text of a block that was sent.
LEMMA PlaceFacts ==
  ASSUME Inv, NEW p \in Places
  PROVE  /\ p[1] \in DOMAIN client /\ client[p[1]].type = "delta"
         /\ p[2] \in DOMAIN client[p[1]].text /\ client[p[1]].text[p[2]] # EmptyInput
         /\ \E i \in DOMAIN blocks : \E y : InBlock(p, i, y)
<1>1. PICK k \in Deltas : p \in {k} \X DOMAIN client[k].text /\ PieceAt(p) # EmptyInput
  BY DEF Places
<1>2. p[1] = k /\ p[2] \in DOMAIN client[k].text
  BY <1>1
<1>3. k \in DOMAIN client /\ client[k].type = "delta"
  BY <1>1 DEF Deltas
<1>4. PieceAt(p) = Abs(client[k].text[p[2]])
  BY <1>2 DEF PieceAt
<1>5. client[k].text[p[2]] # EmptyInput
  BY <1>1, <1>4 DEF Abs, EmptyInput
<1>6. PICK i \in DOMAIN blocks : Tells(to, client[k], blocks, i)
  BY <1>3 DEF Inv, Core, Tied, Owned, IsOfBlock
<1>7. PICK y \in 1 .. blocks[i].sent : client[k].text[p[2]] = blocks[i].text[y]
  BY <1>2, <1>3, <1>6 DEF Tells
<1>8. y \in DOMAIN blocks[i].text
  BY <1>7, BlockFacts
<1>9. SaidThere(said, SlotOf(from, blocks[i]), blocks[i].text)
  BY DEF Inv, Core, Texts, OfSlot
<1>10. PieceAt(p) \in DOMAIN said /\ said[PieceAt(p)] = SlotOf(from, blocks[i])
  BY <1>4, <1>5, <1>7, <1>8, <1>9 DEF SaidThere
<1>11. InBlock(p, i, y)
  BY <1>2, <1>4, <1>5, <1>6, <1>7, <1>8, <1>10 DEF InBlock
<1> QED
  BY <1>2, <1>3, <1>5, <1>11

\* A tool has its slot for itself.
LEMMA ToolAlone ==
  ASSUME Inv, NEW i \in DOMAIN blocks, NEW j \in DOMAIN blocks, blocks[j].kind = "tool",
         SlotOf(from, blocks[i]) = SlotOf(from, blocks[j])
  PROVE  i = j
<1>1. SlotOf(from, blocks[j]) = blocks[j].key
  BY DEF SlotOf
<1>2. OneKey(blocks) /\ KeyOfKind(from, blocks)
  BY DEF Inv, Core, Texts
<1>3. CASE from = "chat" /\ blocks[i].kind # "tool"
  <2>1. <<blocks[i].kind, 0>> = <<blocks[j].kind, blocks[j].key[2]>>
    BY <1>1, <1>2, <1>3 DEF SlotOf, KeyOfKind
  <2>2. blocks[i].kind = blocks[j].kind
    BY <2>1
  <2> QED
    BY <1>3, <2>2
<1>4. CASE ~ (from = "chat" /\ blocks[i].kind # "tool")
  <2>1. blocks[i].key = blocks[j].key
    BY <1>1, <1>4 DEF SlotOf
  <2> QED
    BY <1>2, <2>1 DEF OneKey
<1> QED
  BY <1>3, <1>4

\* All text of a block that was sent was heard.
LEMMA SentHeard ==
  ASSUME Inv, NEW i \in DOMAIN blocks, blocks[i].sent = Len(blocks[i].text),
         NEW n, Holds(blocks[i].text, n)
  PROVE  IsHeard(client, n)
<1>1. PICK x \in DOMAIN blocks[i].text :
        blocks[i].text[x] # EmptyInput /\ Abs(blocks[i].text[x]) = n
  BY DEF Holds
<1>2. x \in 1 .. blocks[i].sent
  BY BlockFacts
<1> QED
  BY <1>1, <1>2 DEF Inv, Core, Tied, AllHeard

\* What the upstream said in a slot before a piece the client heard was heard
\* too: it is earlier in the same block, or in a block that was sent before.
LEMMA NoGap ==
  ASSUME Inv, NEW p \in Places, NEW m \in 1 .. PieceAt(p) - 1, said[m] = said[PieceAt(p)]
  PROVE  IsHeard(client, m)
<1> DEFINE n == PieceAt(p)
<1>1. PICK i \in DOMAIN blocks : \E y : InBlock(p, i, y)
  BY PlaceFacts
<1>2. PICK y : InBlock(p, i, y)
  BY <1>1
<1>3. /\ y \in 1 .. blocks[i].sent /\ y \in DOMAIN blocks[i].text
      /\ blocks[i].text[y] # EmptyInput /\ Abs(blocks[i].text[y]) = n
      /\ n \in DOMAIN said /\ said[n] = SlotOf(from, blocks[i])
  BY <1>2 DEF InBlock
<1>4. said[m] = said[n] /\ m \in 1 .. n - 1
  OBVIOUS
<1> HIDE DEF n
<1>5. said \in Seq(Keys) /\ DOMAIN said = 1 .. Len(said) /\ Len(said) \in Nat
  BY LenProperties DEF Inv, TypeOK
<1>6. m \in DOMAIN said /\ m # Len(said) /\ m < n /\ n \in Int /\ m \in Int
  BY <1>3, <1>4, <1>5
<1>7. Placed(said, blocks, m)
  BY <1>6 DEF Inv, AllPlaced
<1>8. PICK j \in DOMAIN blocks :
        Holds(blocks[j].text, m) \/ (Pending(blocks[j]) /\ Holds(blocks[j].fallback, m))
  BY <1>7 DEF Placed
<1>9. SlotOf(from, blocks[j]) = SlotOf(from, blocks[i])
  <2>1. /\ SaidThere(said, SlotOf(from, blocks[j]), blocks[j].text)
        /\ SaidThere(said, SlotOf(from, blocks[j]), blocks[j].fallback)
    BY DEF Inv, Core, Texts, OfSlot
  <2>2. said[m] = SlotOf(from, blocks[j])
    BY <1>8, <2>1 DEF SaidThere, Holds
  <2> QED
    BY <1>3, <1>4, <2>2
<1>10. Holds(blocks[j].text, m)
  <2> SUFFICES ASSUME Pending(blocks[j]) PROVE FALSE
    BY <1>8
  <2>1. i = j
    BY <1>9, ToolAlone DEF Pending
  <2>2. blocks[i].text = <<>>
    BY <2>1 DEF Pending
  <2>3. DOMAIN blocks[i].text = {}
    BY <2>2
  <2> QED
    BY <1>3, <2>3
<1>11. PICK x \in DOMAIN blocks[j].text :
         blocks[j].text[x] # EmptyInput /\ Abs(blocks[j].text[x]) = m
  BY <1>10 DEF Holds
<1>12. CASE j = i
  <2>1. Ascending(blocks[i].text)
    BY DEF Inv, Core, Texts, OfSlot
  <2>2. ~ (y < x)
    BY <1>3, <1>6, <1>11, <1>12, <2>1 DEF Ascending
  <2>3. x \in 1 .. blocks[i].sent
    BY <1>3, <1>11, <1>12, <2>2, BlockFacts
  <2> QED
    BY <1>11, <1>12, <2>3 DEF Inv, Core, Tied, AllHeard
<1>13. CASE j < i
  <2>1. blocks[i].started
    BY <1>3, BlockFacts
  <2>2. blocks[j].sent = Len(blocks[j].text)
    BY <1>9, <1>13, <2>1 DEF Inv, Core, Sound, InTurn
  <2> QED
    BY <1>10, <2>2, SentHeard
<1>14. CASE i < j
  <2>1. Abs(blocks[i].text[y]) < Abs(blocks[j].text[x])
    BY <1>3, <1>9, <1>11, <1>14 DEF Inv, Core, Texts, Successive
  <2> QED
    BY <1>3, <1>6, <1>11, <2>1
<1> QED
  BY <1>12, <1>13, <1>14, BlockFacts

\* The invariant implies that nothing is lost,
LEMMA Lossless ==
  ASSUME Inv
  PROVE  NothingLost
<1>1. Heard \subseteq DOMAIN said
  <2> SUFFICES ASSUME NEW p \in Places PROVE PieceAt(p) \in DOMAIN said
    BY DEF Heard
  <2> QED
    BY PlaceFacts DEF InBlock
<1>2. ASSUME NEW p \in Places, NEW q \in Places,
             said[PieceAt(p)] = said[PieceAt(q)], Earlier(p, q)
      PROVE  PieceAt(p) < PieceAt(q)
  BY <1>2, PlaceFacts DEF Inv, Core, Proper, InOrder, Earlier, PieceAt
<1>3. ASSUME NEW n \in Heard, NEW m \in 1 .. n - 1, said[m] = said[n]
      PROVE  m \in Heard
  <2>1. PICK p \in Places : n = PieceAt(p)
    BY DEF Heard
  <2>2. IsHeard(client, m)
    BY <1>3, <2>1, NoGap
  <2> QED
    BY <2>2, HeardIs
<1>4. ASSUME outcome = "finished", NEW n \in DOMAIN said
      PROVE  n \in Heard
  <2>1. Placed(said, blocks, n)
    BY <1>4 DEF Inv, AllPlaced
  <2>2. \A i \in DOMAIN blocks : ~ Pending(blocks[i]) /\ blocks[i].sent = Len(blocks[i].text)
    BY <1>4 DEF Inv, Due
  <2>3. PICK i \in DOMAIN blocks : Holds(blocks[i].text, n)
    BY <2>1, <2>2 DEF Placed
  <2>4. IsHeard(client, n)
    BY <2>2, <2>3, SentHeard
  <2> QED
    BY <2>4, HeardIs
<1> QED
  BY <1>1, <1>2, <1>3, <1>4 DEF NothingLost

\* that numbered blocks are not mixed,
LEMMA Apart ==
  ASSUME Inv
  PROVE  BlocksApart
<1> SUFFICES ASSUME NEW p \in Places, NEW q \in Places,
                    client[p[1]].index = client[q[1]].index, client[p[1]].index # -1
             PROVE  said[PieceAt(p)] = said[PieceAt(q)]
  BY DEF BlocksApart
<1>1. PICK i \in DOMAIN blocks : \E y : InBlock(p, i, y)
  BY PlaceFacts
<1>2. PICK j \in DOMAIN blocks : \E y : InBlock(q, j, y)
  BY PlaceFacts
<1>3. /\ client[p[1]].index = Number(to, blocks, i) /\ said[PieceAt(p)] = SlotOf(from, blocks[i])
      /\ client[q[1]].index = Number(to, blocks, j) /\ said[PieceAt(q)] = SlotOf(from, blocks[j])
  BY <1>1, <1>2 DEF InBlock, Tells
<1>4. i \in Nat \ {0} /\ j \in Nat \ {0}
  BY BlockFacts
<1>5. i = j
  BY <1>3, <1>4, NumberApart
<1> QED
  BY <1>3, <1>5

\* that the events are in order and the ends repeat what was told,
LEMMA InGoodOrder ==
  ASSUME Inv
  PROVE  WellOrdered /\ DoneTellsAll
<1>1. Orderly(to, client) /\ Used(client) /\ Retold(from, to, client)
  BY DEF Inv, Core, Proper
<1>2. \A k, type, i : Before(k, type, i) <=> BeforeIn(client, k, type, i)
  BY DEF Before, BeforeIn
<1>3. \A n, i : Streamed(n, i) = StreamedIn(client, n, i)
  BY DEF Streamed, StreamedIn
<1>4. OneBlockAtATime
  BY <1>1, <1>2 DEF OneBlockAtATime, Orderly
<1>5. OpenedBeforeUse
  BY <1>1, <1>2 DEF OpenedBeforeUse, Used, OfBlock, IsOfBlock
<1>6. DoneTellsAll
  BY <1>1, <1>2, <1>3 DEF DoneTellsAll, Retold
<1> QED
  BY <1>4, <1>5, <1>6 DEF WellOrdered

\* that what may be seen is seen at once,
LEMMA AtOnce ==
  ASSUME Inv
  PROVE  Prompt
<1> SUFFICES ASSUME outcome = "open", from # to, to # "anthropic", NEW n \in DOMAIN said \ Heard
             PROVE  \/ \E i \in DOMAIN blocks : blocks[i].key = said[n] /\ IsHidden(blocks[i])
                    \/ IsOpen /\ up.items[Count].kind = "whole" /\ said[n] = Key(Count - 1)
  BY DEF Prompt
<1>1. ~ IsHeard(client, n)
  BY HeardIs
<1>2. Placed(said, blocks, n)
  BY DEF Inv, AllPlaced
<1>3. PICK i \in DOMAIN blocks :
        Holds(blocks[i].text, n) \/ (Pending(blocks[i]) /\ Holds(blocks[i].fallback, n))
  BY <1>2 DEF Placed
<1>4. said[n] = SlotOf(from, blocks[i])
  <2>1. /\ SaidThere(said, SlotOf(from, blocks[i]), blocks[i].text)
        /\ SaidThere(said, SlotOf(from, blocks[i]), blocks[i].fallback)
    BY DEF Inv, Core, Texts, OfSlot
  <2> QED
    BY <1>3, <2>1 DEF SaidThere, Holds
<1>5. CASE Holds(blocks[i].text, n)
  <2>1. IsHidden(blocks[i])
    BY <1>1, <1>5, SentHeard DEF Inv, Due
  <2>2. SlotOf(from, blocks[i]) = blocks[i].key
    BY <2>1 DEF IsHidden, SlotOf
  <2> QED
    BY <1>4, <2>1, <2>2
<1>6. CASE Pending(blocks[i]) /\ Holds(blocks[i].fallback, n)
  <2>1. blocks[i].fallback # <<>>
    BY <1>6 DEF Holds
  <2>2. ~ blocks[i].done /\ SlotOf(from, blocks[i]) = blocks[i].key
    BY <1>6 DEF Pending, SlotOf
  <2>3. Following(from, up, chatText, chatThinking, blocks) /\ from \in Protocols
    BY DEF Inv, TypeOK
  <2>4. from = "anthropic"
    BY <2>1, <2>3 DEF Following, ChatBlock, ResponsesBlock, Protocols
  <2>5. AnthropicBlock(blocks[i], up)
    BY <2>3, <2>4 DEF Following
  <2> QED
    BY <1>4, <2>1, <2>2, <2>5 DEF AnthropicBlock, LastOpen, IsOpen, Count, Key
<1> QED
  BY <1>3, <1>5, <1>6

\* and that the client's ending is the upstream's.
LEMMA Ended ==
  ASSUME Inv
  PROVE  EndsWithUpstream
<1>1. client \in Seq(EventSet) /\ Ends
  BY DEF Inv, TypeOK
<1>2. client # <<>> => Len(client) \in DOMAIN client
  BY <1>1, LenProperties, EmptySeq
<1> QED
  BY Zenon, <1>1, <1>2 DEF Ends, EndsWithUpstream

\* Every state of a translated stream satisfies the inductive invariant, whatever
\* the protocols and however long the answer.
THEOREM Invariance == Spec => []Inv
<1> QED
  BY Starts, Steps, PTL DEF Spec

\* The variables keep their types.
THEOREM TypeCorrect == Spec => []TypeOK
BY Invariance, PTL DEF Inv

\* The client hears of each text, reasoning and tool call what the upstream said
\* of it, in order, nothing twice, nothing left out before what it hears, and all
\* of it by the end of a finished answer (stream.go:628).
THEOREM NothingIsLost == Spec => []NothingLost
BY Invariance, Lossless, PTL

\* A numbered block of the client never holds the text of two of the upstream's
\* (stream.go:602).
THEOREM BlocksStayApart == Spec => []BlocksApart
BY Invariance, Apart, PTL

\* The client's events come in an order its protocol allows: blocks are opened
\* once, before their text, and an Anthropic client gets one after the other
\* (stream.go:599).
THEOREM EventsWellOrdered == Spec => []WellOrdered
BY Invariance, InGoodOrder, PTL

\* What a Responses client is told at the end of an item, and at the end of the
\* answer, is what it got in deltas (stream.go:569, 650).
THEOREM DoneRepeats == Spec => []DoneTellsAll
BY Invariance, InGoodOrder, PTL

\* What a client other than Anthropic's may see it sees at once.
THEOREM ShownAtOnce == Spec => []Prompt
BY Invariance, AtOnce, PTL

\* The client's stream ends at most once, says that the answer is whole only if
\* the upstream did, and tells a limit that was hit (stream.go:185).
THEOREM EndingTellsTruth == Spec => []EndsWithUpstream
BY Invariance, Ended, PTL
===============================================================================
