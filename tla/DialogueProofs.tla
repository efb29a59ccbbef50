---------------------------- MODULE DialogueProofs ----------------------------
(***************************************************************************)
(* Proofs about Dialogue: what is asked for is kept, requests are refused  *)
(* only for cause, and the client hears all of every answer, for every     *)
(* answer of providers, every setting and conversations of any length.     *)
(*                                                                         *)
(* Readers and writers make something of each member of a sequence and put *)
(* it together: the facts about that come first, by induction over finite  *)
(* sets (nothing else is at hand).  Map takes what is made of a member as  *)
(* a function.  The rest follows an answer from its shape through reading, *)
(* parts and writing to what the client keeps.                             *)
(*                                                                         *)
(* At the end stands what one message tells when it is read and written    *)
(* again, which the theorems of DialogueToldProofs rest on.                *)
(***************************************************************************)
EXTENDS Dialogue, SequenceTheorems, FiniteSetTheorems, TLAPS

\* A set of numbers that is not empty has a least member: the finite sets are
\* well founded.
LEMMA LeastOf ==
  ASSUME NEW S \in SUBSET Nat, S # {}
  PROVE  \E m \in S : \A k \in S : m <= k
<1> DEFINE T == {1 .. n : n \in S}
<1>1. T \subseteq FiniteSubsetsOf(Nat) /\ T # {}
  <2>1. \A n \in S : 1 .. n \in SUBSET Nat /\ IsFiniteSet(1 .. n)
    BY FS_Interval
  <2> QED
    BY <2>1 DEF FiniteSubsetsOf
<1>2. PICK x \in T : \A y \in T : ~ (<<y, x>> \in StrictSubsetOrdering(Nat))
  <2> HIDE DEF T
  <2> QED
    BY <1>1, FS_StrictSubsetOrderingWellFounded, WFMin
<1>3. PICK m \in S : x = 1 .. m
  OBVIOUS
<1>4. ASSUME NEW k \in S, k < m PROVE FALSE
  <2>1. 1 .. k \in T
    OBVIOUS
  <2>2. 1 .. k \subseteq 1 .. m /\ 1 .. k # 1 .. m /\ 1 .. k \in SUBSET Nat /\ 1 .. m \in SUBSET Nat
    BY <1>4
  <2> QED
    BY <1>2, <1>3, <2>1, <2>2 DEF StrictSubsetOrdering
<1> QED
  BY <1>4

(* Induction, from the well-foundedness of finite sets. *)

\* A set of numbers that holds 0 and with each number the next holds all.
LEMMA Induction ==
  ASSUME NEW S, 0 \in S, \A n \in Nat : n \in S => n + 1 \in S
  PROVE  Nat \subseteq S
<1> SUFFICES ASSUME Nat \ S # {} PROVE FALSE
  OBVIOUS
<1>1. PICK m \in Nat \ S : \A k \in Nat \ S : m <= k
  BY LeastOf
<1>2. m # 0 /\ m - 1 \in Nat
  BY <1>1, SMT
<1>3. m - 1 \in S
  BY <1>1, <1>2, SMT
<1> QED
  BY <1>1, <1>2, <1>3, SMT

(* The function that FlattenSeq builds up: the concatenation of the first i. *)
Builds(g, ss, n) ==
  /\ DOMAIN g = 1 .. n
  /\ \A i \in 1 .. n : g[i] = IF i = 1 THEN ss[i] ELSE g[i-1] \o ss[i]

\* The recursive function that concatenates the first n sequences exists.
LEMMA BuildsExists ==
  ASSUME NEW ss
  PROVE  \A n \in Nat : \E g : g = [i \in 1 .. n |-> IF i = 1 THEN ss[i] ELSE g[i-1] \o ss[i]]
<1> DEFINE Is(g, n) == g = [i \in 1 .. n |-> IF i = 1 THEN ss[i] ELSE g[i-1] \o ss[i]]
           Works == {n \in Nat : \E g : Is(g, n)}
<1>1. 0 \in Works
  <2> DEFINE g == [i \in 1 .. 0 |-> ss[i]]
  <2>1. Is(g, 0)
    BY SMT
  <2> QED
    BY <2>1
<1>2. ASSUME NEW n \in Nat, NEW g, Is(g, n) PROVE \E h : Is(h, n + 1)
  <2> DEFINE h == [i \in 1 .. n + 1 |->
                    IF i <= n THEN g[i] ELSE IF i = 1 THEN ss[i] ELSE g[i-1] \o ss[i]]
  <2>1. ASSUME NEW i \in 1 .. n + 1
        PROVE  h[i] = IF i = 1 THEN ss[i] ELSE h[i-1] \o ss[i]
    <3>1. CASE i <= n
      <4>1. i \in 1 .. n /\ (i # 1 => i - 1 \in 1 .. n /\ i - 1 \in 1 .. n + 1 /\ i - 1 <= n)
        BY <3>1
      <4>2. h[i] = g[i] /\ (i # 1 => h[i-1] = g[i-1])
        BY <3>1, <4>1
      <4>3. g[i] = IF i = 1 THEN ss[i] ELSE g[i-1] \o ss[i]
        BY <1>2, <4>1
      <4> QED
        BY <4>2, <4>3
    <3>2. CASE ~ (i <= n)
      <4>1. i # 1 => i - 1 \in 1 .. n + 1 /\ i - 1 <= n
        BY <3>2
      <4> QED
        BY <3>2, <4>1
    <3> QED
      BY <3>1, <3>2
  <2>2. h = [i \in 1 .. n + 1 |-> h[i]]
    OBVIOUS
  <2>3. Is(h, n + 1)
    <3> HIDE DEF h
    <3> QED
      BY <2>1, <2>2
  <2> HIDE DEF h, Is
  <2> QED
    BY <2>3
<1>3. \A n \in Nat : n \in Works => n + 1 \in Works
  <2> HIDE DEF Is
  <2> QED
    BY <1>2
<1>4. Nat \subseteq Works
  <2> HIDE DEF Works
  <2> QED
    BY <1>1, <1>3, Induction
<1> QED
  BY <1>4

\* FlattenSeq is the last value of that function.
LEMMA FlattenBuilds ==
  ASSUME NEW ss, Len(ss) \in Nat \ {0}
  PROVE  \E g : Builds(g, ss, Len(ss)) /\ FlattenSeq(ss) = g[Len(ss)]
<1> DEFINE f == CHOOSE g : g = [i \in 1 .. Len(ss) |-> IF i = 1 THEN ss[i] ELSE g[i-1] \o ss[i]]
<1>1. f = [i \in 1 .. Len(ss) |-> IF i = 1 THEN ss[i] ELSE f[i-1] \o ss[i]]
  BY BuildsExists
<1>2. FlattenSeq(ss) = f[Len(ss)]
  BY DEF FlattenSeq
<1>3. Builds(f, ss, Len(ss))
  <2> HIDE DEF f
  <2> QED
    BY <1>1 DEF Builds
<1> HIDE DEF f
<1> QED
  BY <1>2, <1>3

\* It depends on the sequences it concatenates and on nothing else.
LEMMA BuildsSame ==
  ASSUME NEW ss, NEW tt, NEW n \in Nat, NEW m \in Nat, n <= m, NEW g, NEW h,
         Builds(g, ss, n), Builds(h, tt, m), \A i \in 1 .. n : ss[i] = tt[i]
  PROVE  \A i \in 1 .. n : g[i] = h[i]
<1> DEFINE Agree == {i \in Nat : i \in 1 .. n => g[i] = h[i]}
<1>1. 0 \in Agree
  OBVIOUS
<1>2. ASSUME NEW i \in Nat, i \in Agree PROVE i + 1 \in Agree
  <2> SUFFICES ASSUME i + 1 \in 1 .. n PROVE g[i+1] = h[i+1]
    OBVIOUS
  <2>1. i + 1 \in 1 .. m
    OBVIOUS
  <2>2. /\ g[i+1] = IF i + 1 = 1 THEN ss[i+1] ELSE g[i] \o ss[i+1]
        /\ h[i+1] = IF i + 1 = 1 THEN tt[i+1] ELSE h[i] \o tt[i+1]
    <3>1. (i + 1) - 1 = i
      OBVIOUS
    <3> QED
      BY <2>1, <3>1 DEF Builds
  <2>3. i # 0 => i \in 1 .. n
    OBVIOUS
  <2>4. i # 0 => g[i] = h[i]
    BY <1>2, <2>3
  <2>5. i + 1 = 1 <=> i = 0
    OBVIOUS
  <2> QED
    BY <2>2, <2>4, <2>5
<1>3. Nat \subseteq Agree
  <2> HIDE DEF Agree
  <2> QED
    BY <1>1, <1>2, Induction
<1> QED
  BY <1>3

(* Concatenation of sequences. *)

\* Three sequences after another, put together in one order or the other.
Associates(a, b, c) == (a \o b) \o c = a \o (b \o c)

\* Concatenation is associative, for two sequences
LEMMA ConcatTwo ==
  ASSUME NEW S, NEW a \in Seq(S), NEW b \in Seq(S), NEW c \in Seq(S)
  PROVE  Associates(a, b, c)
BY ConcatAssociative DEF Associates

\* No sequence, no members.
LEMMA FlattenEmpty == FlattenSeq(<<>>) = <<>>
BY DEF FlattenSeq

\* One sequence more adds its members at the end.
LEMMA FlattenAppend ==
  ASSUME NEW S, NEW ss \in Seq(Seq(S)), NEW s \in Seq(S)
  PROVE  FlattenSeq(Append(ss, s)) = FlattenSeq(ss) \o s
<1> DEFINE tt == Append(ss, s)
           n == Len(ss)
<1>1. /\ n \in Nat /\ Len(tt) = n + 1 /\ Len(tt) \in Nat \ {0}
      /\ tt[n + 1] = s /\ \A i \in 1 .. n : tt[i] = ss[i]
  BY AppendProperties
<1>2. PICK h : Builds(h, tt, n + 1) /\ FlattenSeq(tt) = h[n + 1]
  <2> HIDE DEF tt
  <2> QED
    BY <1>1, FlattenBuilds
<1>3. CASE n = 0
  <2>1. ss = <<>>
    BY <1>3, EmptySeq
  <2>2. h[1] = s
    BY <1>1, <1>2, <1>3 DEF Builds
  <2> QED
    BY <1>2, <1>3, <2>1, <2>2, FlattenEmpty
<1>4. CASE n # 0
  <2>1. PICK g : Builds(g, ss, n) /\ FlattenSeq(ss) = g[n]
    BY <1>1, <1>4, FlattenBuilds
  <2>2. g[n] = h[n]
    <3> HIDE DEF tt, n
    <3>1. \A i \in 1 .. n : g[i] = h[i]
      BY <1>1, <1>2, <2>1, BuildsSame, SMTT(30)
    <3> QED
      BY <1>1, <1>4, <3>1
  <2>3. h[n + 1] = h[n] \o s
    <3>1. n + 1 \in 1 .. n + 1 /\ n + 1 # 1 /\ (n + 1) - 1 = n
      BY <1>1, <1>4
    <3> QED
      BY <1>1, <1>2, <3>1 DEF Builds
  <2> QED
    BY <1>2, <2>1, <2>2, <2>3
<1> QED
  BY <1>3, <1>4

\* A set that holds the empty sequence and with each sequence those with one
\* member more holds all sequences.
LEMMA SeqInduction ==
  ASSUME NEW S, NEW P, <<>> \in P,
         \A s \in Seq(S), e \in S : s \in P => Append(s, e) \in P
  PROVE  Seq(S) \subseteq P
<1> DEFINE N == {n \in Nat : \A s \in Seq(S) : Len(s) = n => s \in P}
<1>1. 0 \in N
  BY EmptySeq
<1>2. ASSUME NEW n \in Nat, n \in N PROVE n + 1 \in N
  <2> SUFFICES ASSUME NEW s \in Seq(S), Len(s) = n + 1 PROVE s \in P
    OBVIOUS
  <2>1. s # <<>>
    BY EmptySeq
  <2>2. PICK t \in Seq(S), e \in S : s = Append(t, e)
    BY <2>1, SequenceEmptyOrAppend
  <2>3. Len(t) \in Nat /\ Len(t) = n
    BY <2>2, AppendProperties, LenProperties
  <2> QED
    BY <1>2, <2>2, <2>3
<1>3. Nat \subseteq N
  <2> HIDE DEF N
  <2> QED
    BY <1>1, <1>2, Induction
<1> QED
  BY <1>3, LenProperties

\* Members of a larger set.
LEMMA SeqOfMore ==
  ASSUME NEW V, NEW W, V \subseteq W, NEW s \in Seq(V)
  PROVE  s \in Seq(W)
BY LenProperties, ElementOfSeq

\* The members of a sequence are in its set.
LEMMA MembersIn == ASSUME NEW S, NEW s \in Seq(S) PROVE \A i \in DOMAIN s : s[i] \in S
BY LenProperties, ElementOfSeq

\* What the function h makes of each member.
Map(h, s) == [i \in DOMAIN s |-> h[s[i]]]

\* h makes a member of T of each of S.
Gives(h, S, T) == \A x \in S : h[x] \in T

\* What a map is at each place, of what it has its members, and of what else.

\* Of each member, in its place,
LEMMA MapAt ==
  ASSUME NEW S, NEW h, NEW s \in Seq(S)
  PROVE  /\ Len(Map(h, s)) = Len(s) /\ DOMAIN Map(h, s) = 1 .. Len(s)
         /\ \A i \in 1 .. Len(s) : Map(h, s)[i] = h[s[i]]
<1>1. Len(s) \in Nat /\ DOMAIN s = 1 .. Len(s)
  BY LenProperties
<1> QED
  BY <1>1 DEF Map

\* a sequence of what it makes,
LEMMA MapIn ==
  ASSUME NEW S, NEW h, NEW s \in Seq(S)
  PROVE  Map(h, s) \in Seq({h[x] : x \in S})
<1>1. Len(s) \in Nat /\ DOMAIN s = 1 .. Len(s) /\ \A i \in 1 .. Len(s) : s[i] \in S
  BY LenProperties, ElementOfSeq
<1> QED
  BY <1>1 DEF Map

\* of whatever type that is.
LEMMA MapType ==
  ASSUME NEW S, NEW T, NEW h, Gives(h, S, T), NEW s \in Seq(S)
  PROVE  Map(h, s) \in Seq(T)
<1> DEFINE V == {h[x] : x \in S}
<1>1. Map(h, s) \in Seq(V)
  BY MapIn
<1>2. V \subseteq T
  BY DEF Gives
<1> HIDE DEF V
<1> QED
  BY <1>1, <1>2, SeqOfMore

\* The map of no member, of one, and of one more.
LEMMA MapEmpty == ASSUME NEW h PROVE Map(h, <<>>) = <<>>
BY DEF Map

\* One member makes one.
LEMMA MapOne == ASSUME NEW h, NEW x PROVE Map(h, <<x>>) = <<h[x]>>
BY DEF Map

\* One more makes one more.
LEMMA MapAppend ==
  ASSUME NEW S, NEW h, NEW s \in Seq(S), NEW e \in S
  PROVE  Map(h, Append(s, e)) = Append(Map(h, s), h[e])
<1> DEFINE T == {h[x] : x \in S}
<1>1. /\ Append(s, e) \in Seq(S) /\ Len(Append(s, e)) = Len(s) + 1 /\ Append(s, e)[Len(s) + 1] = e
      /\ \A i \in 1 .. Len(s) : Append(s, e)[i] = s[i]
  BY AppendProperties
<1>2. Len(s) \in Nat /\ DOMAIN s = 1 .. Len(s) /\ \A i \in 1 .. Len(s) : s[i] \in S
  BY LenProperties, ElementOfSeq
<1>3. DOMAIN Append(s, e) = 1 .. Len(s) + 1
  BY <1>1, LenProperties
<1>4. Map(h, s) = [i \in 1 .. Len(s) |-> h[s[i]]]
  BY <1>2 DEF Map
<1>5. Map(h, Append(s, e)) = [i \in 1 .. Len(s) + 1 |-> h[Append(s, e)[i]]]
  BY <1>3 DEF Map
<1> DEFINE m == Map(h, s)
           a == Map(h, Append(s, e))
<1>6. m \in Seq(T) /\ Len(m) = Len(s) /\ \A i \in 1 .. Len(s) : m[i] = h[s[i]]
  BY <1>2, <1>4
<1>7. a \in Seq(T) /\ Len(a) = Len(s) + 1 /\ \A i \in 1 .. Len(s) + 1 : a[i] = h[Append(s, e)[i]]
  <2>1. \A i \in 1 .. Len(s) + 1 : h[Append(s, e)[i]] \in T
    BY <1>1, <1>2
  <2> QED
    BY <1>2, <1>5, <2>1
<1>8. h[e] \in T
  OBVIOUS
<1> HIDE DEF m, a, T
<1>9. /\ Append(m, h[e]) \in Seq(T) /\ Len(Append(m, h[e])) = Len(s) + 1
      /\ Append(m, h[e])[Len(s) + 1] = h[e] /\ \A i \in 1 .. Len(s) : Append(m, h[e])[i] = m[i]
  BY <1>6, <1>8, AppendProperties
<1>10. \A i \in 1 .. Len(s) + 1 : a[i] = Append(m, h[e])[i]
  BY <1>1, <1>2, <1>6, <1>7, <1>9
<1>11. a = Append(m, h[e])
  BY <1>7, <1>9, <1>10, SeqEqual
<1> QED
  BY <1>11 DEF m, a

\* Two sequences, mapped apart.
LEMMA MapConcat ==
  ASSUME NEW S, NEW h, NEW a \in Seq(S), NEW b \in Seq(S)
  PROVE  Map(h, a \o b) = Map(h, a) \o Map(h, b)
<1> DEFINE T == {h[x] : x \in S}
           ab == a \o b
           ma == Map(h, a)
           mb == Map(h, b)
           mc == Map(h, ab)
<1>1. ab \in Seq(S) /\ Len(ab) = Len(a) + Len(b) /\ Len(a) \in Nat /\ Len(b) \in Nat
  BY ConcatProperties, LenProperties
<1>2. \A i \in 1 .. Len(a) + Len(b) : ab[i] = IF i <= Len(a) THEN a[i] ELSE b[i - Len(a)]
  BY ConcatProperties
<1> HIDE DEF ab
<1>3. Len(ma) = Len(a) /\ \A i \in 1 .. Len(a) : ma[i] = h[a[i]]
  BY MapAt
<1>4. Len(mb) = Len(b) /\ \A i \in 1 .. Len(b) : mb[i] = h[b[i]]
  BY MapAt
<1>5. Len(mc) = Len(ab) /\ \A i \in 1 .. Len(ab) : mc[i] = h[ab[i]]
  BY <1>1, MapAt
<1>6. ma \in Seq(T) /\ mb \in Seq(T) /\ mc \in Seq(T)
  BY <1>1, MapIn
<1> HIDE DEF ma, mb, mc, T
<1> DEFINE mm == ma \o mb
<1>7. /\ mm \in Seq(T) /\ Len(mm) = Len(ma) + Len(mb)
      /\ \A i \in 1 .. Len(ma) + Len(mb) : mm[i] = IF i <= Len(ma) THEN ma[i] ELSE mb[i - Len(ma)]
  BY <1>6, ConcatProperties
<1> HIDE DEF mm
<1>8. \A i \in 1 .. Len(a) + Len(b) : mc[i] = mm[i]
  <2> TAKE i \in 1 .. Len(a) + Len(b)
  <2>1. CASE i <= Len(a)
    <3>1. i \in 1 .. Len(a)
      BY <1>1, <2>1
    <3>2. ab[i] = a[i] /\ mm[i] = ma[i]
      BY <1>2, <1>3, <1>4, <1>7, <3>1
    <3> QED
      BY <1>1, <1>3, <1>5, <3>1, <3>2
  <2>2. CASE i > Len(a)
    <3>1. i - Len(a) \in 1 .. Len(b) /\ ~ (i <= Len(a))
      BY <1>1, <2>2
    <3>2. ab[i] = b[i - Len(a)] /\ mm[i] = mb[i - Len(a)]
      BY <1>2, <1>3, <1>4, <1>7, <3>1
    <3> QED
      BY <1>1, <1>4, <1>5, <3>1, <3>2
  <2> QED
    BY <1>1, <2>1, <2>2
<1>9. mc = mm
  BY <1>1, <1>3, <1>4, <1>5, <1>6, <1>7, <1>8, SeqEqual
<1> QED
  BY <1>9 DEF ab, ma, mb, mc, mm

\* What is made of what is made of each.
After(h, g, f, S) == \A x \in S : h[x] = g[f[x]]

\* One function after another is the function that does both.
LEMMA MapMap ==
  ASSUME NEW S, NEW g, NEW f, NEW h, After(h, g, f, S), NEW s \in Seq(S)
  PROVE  Map(g, Map(f, s)) = Map(h, s)
<1>1. DOMAIN s = 1 .. Len(s) /\ \A i \in 1 .. Len(s) : s[i] \in S
  BY LenProperties, ElementOfSeq
<1> QED
  BY <1>1 DEF Map, After

\* Sequences of sequences of S, put together, have members of S
LEMMA FlattenType ==
  ASSUME NEW S, NEW ss \in Seq(Seq(S))
  PROVE  FlattenSeq(ss) \in Seq(S)
<1> DEFINE P == {s \in Seq(Seq(S)) : FlattenSeq(s) \in Seq(S)}
<1>1. <<>> \in P
  BY FlattenEmpty, EmptySeq
<1>2. ASSUME NEW s \in Seq(Seq(S)), NEW e \in Seq(S), s \in P PROVE Append(s, e) \in P
  <2>1. Append(s, e) \in Seq(Seq(S)) /\ FlattenSeq(Append(s, e)) = FlattenSeq(s) \o e
    BY AppendProperties, FlattenAppend
  <2> QED
    BY <1>2, <2>1, ConcatProperties
<1> HIDE DEF P
<1>3. Seq(Seq(S)) \subseteq P
  BY <1>1, <1>2, SeqInduction
<1> QED
  BY <1>3 DEF P

\* and these are members of the sequences.
LEMMA FlattenMember ==
  ASSUME NEW S, NEW ss \in Seq(Seq(S)), NEW x \in DOMAIN FlattenSeq(ss)
  PROVE  \E i \in DOMAIN ss : \E j \in DOMAIN ss[i] : FlattenSeq(ss)[x] = ss[i][j]
<1> DEFINE R == {ss[p[1]][p[2]] : p \in {p \in (DOMAIN ss) \X Nat : p[2] \in DOMAIN ss[p[1]]}}
<1>1. \A i \in DOMAIN ss : ss[i] \in Seq(S) /\ Len(ss[i]) \in Nat /\ DOMAIN ss[i] = 1 .. Len(ss[i])
  BY LenProperties, ElementOfSeq
<1>2. \A i \in DOMAIN ss : \A j \in DOMAIN ss[i] : ss[i][j] \in R
  <2> TAKE i \in DOMAIN ss
  <2> TAKE j \in DOMAIN ss[i]
  <2>1. j \in Nat
    BY <1>1
  <2> DEFINE p == <<i, j>>
  <2>2. p[1] = i /\ p[2] = j /\ p \in (DOMAIN ss) \X Nat
    BY <2>1
  <2> QED
    BY <2>2
<1>3. \A r \in R : \E i \in DOMAIN ss : \E j \in DOMAIN ss[i] : r = ss[i][j]
  OBVIOUS
<1> HIDE DEF R
<1>4. \A i \in DOMAIN ss : ss[i] \in Seq(R)
  <2> TAKE i \in DOMAIN ss
  <2>1. ss[i] = [j \in 1 .. Len(ss[i]) |-> ss[i][j]]
    BY <1>1, LenProperties
  <2> QED
    BY <1>1, <1>2, <2>1
<1>5. ss \in Seq(Seq(R))
  <2>1. Len(ss) \in Nat /\ DOMAIN ss = 1 .. Len(ss) /\ ss = [i \in 1 .. Len(ss) |-> ss[i]]
    BY LenProperties
  <2>2. [i \in 1 .. Len(ss) |-> ss[i]] \in Seq(Seq(R))
    BY <1>4, <2>1
  <2> QED
    BY <2>1, <2>2
<1>6. FlattenSeq(ss) \in Seq(R)
  BY <1>5, FlattenType
<1>7. FlattenSeq(ss)[x] \in R
  BY <1>6, LenProperties, ElementOfSeq
<1> QED
  BY <1>3, <1>7

\* The parts of a concatenation can be put together apart.
LEMMA FlattenConcat ==
  ASSUME NEW S, NEW a \in Seq(Seq(S)), NEW b \in Seq(Seq(S))
  PROVE  FlattenSeq(a \o b) = FlattenSeq(a) \o FlattenSeq(b)
<1> DEFINE P == {s \in Seq(Seq(S)) : FlattenSeq(a \o s) = FlattenSeq(a) \o FlattenSeq(s)}
<1>1. <<>> \in P
  <2>1. a \o <<>> = a /\ FlattenSeq(a) \o <<>> = FlattenSeq(a) /\ <<>> \in Seq(Seq(S))
    BY ConcatEmptySeq, FlattenType, EmptySeq
  <2> QED
    BY <2>1, FlattenEmpty
<1>2. ASSUME NEW s \in Seq(Seq(S)), NEW e \in Seq(S), s \in P PROVE Append(s, e) \in P
  <2> DEFINE fa == FlattenSeq(a)
             fs == FlattenSeq(s)
             as == a \o s
  <2>1. a \o Append(s, e) = Append(as, e)
    <3>1. Append(s, e) = s \o <<e>> /\ as \in Seq(Seq(S)) /\ <<e>> \in Seq(Seq(S))
      BY AppendIsConcat, ConcatProperties
    <3>2. Append(as, e) = as \o <<e>>
      BY <3>1, AppendIsConcat
    <3>3. as \o <<e>> = a \o (s \o <<e>>)
      <4> DEFINE l == <<e>>
      <4>1. a \in Seq(Seq(S)) /\ s \in Seq(Seq(S)) /\ l \in Seq(Seq(S))
        BY <3>1
      <4> HIDE DEF l
      <4>2. Associates(a, s, l)
        BY <4>1, ConcatTwo
      <4> QED
        BY <4>2 DEF Associates, l
    <3> QED
      BY <3>1, <3>2, <3>3
  <2>2. as \in Seq(Seq(S)) /\ fa \in Seq(S) /\ fs \in Seq(S)
    BY ConcatProperties, FlattenType
  <2>3. FlattenSeq(as) = fa \o fs
    BY <1>2
  <2> HIDE DEF as, fa, fs
  <2>4. FlattenSeq(Append(as, e)) = (fa \o fs) \o e
    BY <2>2, <2>3, FlattenAppend
  <2>5. (fa \o fs) \o e = fa \o (fs \o e)
    <3>1. Associates(fa, fs, e)
      BY <2>2, ConcatTwo
    <3> QED
      BY <3>1 DEF Associates
  <2>6. FlattenSeq(Append(s, e)) = fs \o e
    BY FlattenAppend DEF fs
  <2>7. FlattenSeq(a \o Append(s, e)) = fa \o FlattenSeq(Append(s, e))
    BY <2>1, <2>4, <2>5, <2>6
  <2> QED
    BY <2>7, AppendProperties DEF fa
<1> HIDE DEF P
<1>3. Seq(Seq(S)) \subseteq P
  BY <1>1, <1>2, SeqInduction
<1> QED
  BY <1>3 DEF P

\* One sequence alone.
LEMMA FlattenOne ==
  ASSUME NEW S, NEW s \in Seq(S)
  PROVE  FlattenSeq(<<s>>) = s
<1>1. <<s>> = Append(<<>>, s) /\ <<>> \in Seq(Seq(S)) /\ <<>> \o s = s
  BY EmptySeq, ConcatEmptySeq
<1> QED
  BY <1>1, FlattenAppend, FlattenEmpty

\* What each member gives, put together.
LEMMA FlattenMapType ==
  ASSUME NEW S, NEW T, NEW h, Gives(h, S, Seq(T)), NEW s \in Seq(S)
  PROVE  FlattenSeq(Map(h, s)) \in Seq(T)
<1>1. Map(h, s) \in Seq(Seq(T))
  BY MapType
<1> QED
  BY <1>1, FlattenType

\* One sequence more to flatten.
LEMMA FlattenMapAppend ==
  ASSUME NEW S, NEW T, NEW h, Gives(h, S, Seq(T)), NEW s \in Seq(S), NEW e \in S
  PROVE  FlattenSeq(Map(h, Append(s, e))) = FlattenSeq(Map(h, s)) \o h[e]
<1>1. Map(h, Append(s, e)) = Append(Map(h, s), h[e])
  BY MapAppend
<1>2. Map(h, s) \in Seq(Seq(T)) /\ h[e] \in Seq(T)
  BY MapType DEF Gives
<1> QED
  BY <1>1, <1>2, FlattenAppend

\* h makes of each member of S what g makes of each of those that f gives, put
\* together; and so it is for a sequence.
Chained(h, f, g, S) == \A x \in S : h[x] = FlattenSeq(Map(g, f[x]))

\* Lists made of each member, and lists made of each of those: as if at once.
LEMMA FlattenTwice ==
  ASSUME NEW S, NEW T, NEW U, NEW f, NEW g, NEW h,
         Gives(f, S, Seq(T)), Gives(g, T, Seq(U)), Chained(h, f, g, S), NEW s \in Seq(S)
  PROVE  FlattenSeq(Map(g, FlattenSeq(Map(f, s)))) = FlattenSeq(Map(h, s))
<1> DEFINE P == {q \in Seq(S) : FlattenSeq(Map(g, FlattenSeq(Map(f, q)))) = FlattenSeq(Map(h, q))}
<1>1. <<>> \in P
  <2>1. \A k : Map(k, <<>>) = <<>>
    BY MapEmpty
  <2> QED
    BY <2>1, FlattenEmpty, EmptySeq
<1>2. Gives(h, S, Seq(U))
  <2> SUFFICES ASSUME NEW x \in S PROVE h[x] \in Seq(U)
    BY DEF Gives
  <2>1. f[x] \in Seq(T)
    BY DEF Gives
  <2>2. FlattenSeq(Map(g, f[x])) \in Seq(U)
    BY <2>1, FlattenMapType
  <2> QED
    BY <2>2 DEF Chained
<1>3. ASSUME NEW q \in Seq(S), NEW e \in S, q \in P PROVE Append(q, e) \in P
  <2>1. FlattenSeq(Map(f, Append(q, e))) = FlattenSeq(Map(f, q)) \o f[e]
    BY FlattenMapAppend
  <2>2. FlattenSeq(Map(h, Append(q, e))) = FlattenSeq(Map(h, q)) \o h[e]
    BY <1>2, FlattenMapAppend
  <2> DEFINE fq == FlattenSeq(Map(f, q))
             fe == f[e]
             mq == Map(g, fq)
             me == Map(g, fe)
  <2>3. fq \in Seq(T) /\ fe \in Seq(T)
    <3>1. fq \in Seq(T)
      BY FlattenMapType
    <3> QED
      BY <3>1 DEF Gives
  <2>4. h[e] = FlattenSeq(me) /\ FlattenSeq(Map(h, q)) = FlattenSeq(mq)
    BY <1>3 DEF Chained
  <2> HIDE DEF fq, fe
  <2>5. Map(g, fq \o fe) = mq \o me
    BY <2>3, MapConcat
  <2>6. mq \in Seq(Seq(U)) /\ me \in Seq(Seq(U))
    BY <2>3, MapType
  <2> HIDE DEF mq, me
  <2>7. FlattenSeq(mq \o me) = FlattenSeq(mq) \o FlattenSeq(me)
    BY <2>6, FlattenConcat
  <2>8. FlattenSeq(Map(g, FlattenSeq(Map(f, Append(q, e))))) = FlattenSeq(Map(h, Append(q, e)))
    BY <2>1, <2>2, <2>4, <2>5, <2>7 DEF fq, fe
  <2> QED
    BY <2>8, AppendProperties
<1> HIDE DEF P
<1>4. Seq(S) \subseteq P
  BY <1>1, <1>3, SeqInduction
<1> QED
  BY <1>4 DEF P

\* What each member of what each member gives is.
Listed(h, f, g, S) == \A x \in S : h[x] = Map(g, f[x])

\* What is made of each member of the lists made of each.
LEMMA MapFlatten ==
  ASSUME NEW S, NEW T, NEW f, NEW g, NEW h,
         Gives(f, S, Seq(T)), Listed(h, f, g, S), NEW s \in Seq(S)
  PROVE  Map(g, FlattenSeq(Map(f, s))) = FlattenSeq(Map(h, s))
<1> DEFINE P == {q \in Seq(S) : Map(g, FlattenSeq(Map(f, q))) = FlattenSeq(Map(h, q))}
           U == {g[x] : x \in T}
<1>1. <<>> \in P
  <2>1. \A k : Map(k, <<>>) = <<>>
    BY MapEmpty
  <2> QED
    BY <2>1, FlattenEmpty, EmptySeq
<1>2. Gives(h, S, Seq(U))
  <2> SUFFICES \A x \in S : h[x] \in Seq(U)
    BY DEF Gives
  <2> TAKE x \in S
  <2>1. f[x] \in Seq(T)
    BY DEF Gives
  <2>2. Map(g, f[x]) \in Seq(U)
    BY <2>1, MapIn
  <2> QED
    BY <2>2 DEF Listed
<1> HIDE DEF U
<1>3. ASSUME NEW q \in Seq(S), NEW e \in S, q \in P PROVE Append(q, e) \in P
  <2>2. FlattenSeq(Map(f, Append(q, e))) = FlattenSeq(Map(f, q)) \o f[e]
    BY FlattenMapAppend
  <2>3. FlattenSeq(Map(h, Append(q, e))) = FlattenSeq(Map(h, q)) \o h[e]
    BY <1>2, FlattenMapAppend
  <2> DEFINE fq == FlattenSeq(Map(f, q))
             fe == f[e]
  <2>1. fq \in Seq(T) /\ fe \in Seq(T)
    <3>1. fq \in Seq(T)
      BY FlattenMapType
    <3> QED
      BY <3>1 DEF Gives
  <2>4. h[e] = Map(g, fe) /\ FlattenSeq(Map(h, q)) = Map(g, fq)
    BY <1>3 DEF Listed
  <2> HIDE DEF fq, fe
  <2>5. Map(g, fq \o fe) = Map(g, fq) \o Map(g, fe)
    BY <2>1, MapConcat
  <2>6. Map(g, FlattenSeq(Map(f, Append(q, e)))) = FlattenSeq(Map(h, Append(q, e)))
    BY <2>2, <2>3, <2>4, <2>5 DEF fq, fe
  <2> QED
    BY <2>6, AppendProperties
<1> HIDE DEF P
<1>4. Seq(S) \subseteq P
  BY <1>1, <1>3, SeqInduction
<1> QED
  BY <1>4 DEF P

\* A sequence of sequences of one.
Alone(f, h, S) == \A x \in S : f[x] = <<h[x]>>

\* Lists of one member each.
LEMMA FlattenSingles ==
  ASSUME NEW S, NEW f, NEW h, Alone(f, h, S), NEW s \in Seq(S)
  PROVE  FlattenSeq(Map(f, s)) = Map(h, s)
<1> DEFINE P == {q \in Seq(S) : FlattenSeq(Map(f, q)) = Map(h, q)}
           T == {h[x] : x \in S}
<1>1. <<>> \in P
  BY MapEmpty, FlattenEmpty, EmptySeq
<1>2. Gives(h, S, T)
  BY DEF Gives
<1> HIDE DEF T
<1>3. Gives(f, S, Seq(T))
  <2> SUFFICES ASSUME NEW x \in S PROVE f[x] \in Seq(T)
    BY DEF Gives
  <2>1. h[x] \in T /\ f[x] = <<h[x]>>
    BY <1>2 DEF Gives, Alone
  <2> QED
    BY <2>1
<1>4. ASSUME NEW q \in Seq(S), NEW e \in S, q \in P PROVE Append(q, e) \in P
  <2>1. FlattenSeq(Map(f, Append(q, e))) = FlattenSeq(Map(f, q)) \o f[e]
    BY <1>3, FlattenMapAppend
  <2>2. Map(h, Append(q, e)) = Append(Map(h, q), h[e])
    BY MapAppend
  <2>3. Map(h, q) \in Seq(T) /\ h[e] \in T
    BY <1>2, MapType DEF Gives
  <2>4. Append(Map(h, q), h[e]) = Map(h, q) \o <<h[e]>>
    <3> DEFINE m == Map(h, q)
               x == h[e]
    <3> HIDE DEF m, x
    <3>1. m \in Seq(T) /\ x \in T
      BY <2>3 DEF m, x
    <3>2. Append(m, x) = m \o <<x>>
      BY <3>1, AppendIsConcat
    <3> QED
      BY <3>2 DEF m, x
  <2>5. FlattenSeq(Map(f, Append(q, e))) = Map(h, Append(q, e))
    BY <1>4, <2>1, <2>2, <2>4 DEF Alone
  <2> QED
    BY <2>5, AppendProperties
<1> HIDE DEF P
<1>5. Seq(S) \subseteq P
  BY <1>1, <1>4, SeqInduction
<1> QED
  BY <1>5 DEF P

\* A sequence of empty ones.
Silent(f, S) == \A x \in S : f[x] = <<>>

\* Empty lists make an empty one.
LEMMA FlattenNothing ==
  ASSUME NEW S, NEW f, Silent(f, S), NEW s \in Seq(S)
  PROVE  FlattenSeq(Map(f, s)) = <<>>
<1> DEFINE P == {q \in Seq(S) : FlattenSeq(Map(f, q)) = <<>>}
<1>1. <<>> \in P
  BY MapEmpty, FlattenEmpty, EmptySeq
<1>2. Gives(f, S, Seq({}))
  BY EmptySeq DEF Gives, Silent
<1>3. ASSUME NEW q \in Seq(S), NEW e \in S, q \in P PROVE Append(q, e) \in P
  <2>1. FlattenSeq(Map(f, Append(q, e))) = <<>> \o <<>>
    BY <1>2, <1>3, FlattenMapAppend DEF Silent
  <2> QED
    BY <2>1, AppendProperties, EmptySeq, ConcatEmptySeq
<1> HIDE DEF P
<1>4. Seq(S) \subseteq P
  BY <1>1, <1>3, SeqInduction
<1> QED
  BY <1>4 DEF P

Splits(h, x, y) == FlattenSeq(Map(h, x \o y)) = FlattenSeq(Map(h, x)) \o FlattenSeq(Map(h, y))

\* Of two sequences after another, the lists come after another too,
LEMMA FlattenMapConcat ==
  ASSUME NEW S, NEW T, NEW h, Gives(h, S, Seq(T)), NEW x \in Seq(S), NEW y \in Seq(S)
  PROVE  Splits(h, x, y)
<1> DEFINE mx == Map(h, x)
           my == Map(h, y)
<1>1. Map(h, x \o y) = mx \o my
  BY MapConcat
<1>2. mx \in Seq(Seq(T)) /\ my \in Seq(Seq(T))
  BY MapType
<1> HIDE DEF mx, my
<1>3. FlattenSeq(mx \o my) = FlattenSeq(mx) \o FlattenSeq(my)
  BY <1>2, FlattenConcat
<1> QED
  BY <1>1, <1>3 DEF Splits, mx, my

\* And what four give.
Four(a, b, c, d) == a \o b \o c \o d

\* and of four.
LEMMA FlattenFour ==
  ASSUME NEW S, NEW T, NEW h, Gives(h, S, Seq(T)), NEW a \in Seq(S), NEW b \in Seq(S),
         NEW c \in Seq(S), NEW d \in Seq(S)
  PROVE  FlattenSeq(Map(h, Four(a, b, c, d)))
           = Four(FlattenSeq(Map(h, a)), FlattenSeq(Map(h, b)), FlattenSeq(Map(h, c)),
                  FlattenSeq(Map(h, d)))
<1> DEFINE ab == a \o b
           abc == ab \o c
<1>1. ab \in Seq(S) /\ Splits(h, a, b)
  BY FlattenMapConcat, ConcatProperties
<1> HIDE DEF ab
<1>2. abc \in Seq(S)
  BY <1>1, ConcatProperties
<1>3. Splits(h, ab, c)
  BY <1>1, FlattenMapConcat
<1> HIDE DEF abc
<1>4. Splits(h, abc, d)
  BY <1>2, FlattenMapConcat
<1>5. Four(a, b, c, d) = abc \o d
  BY DEF Four, ab, abc
<1> QED
  BY <1>1, <1>3, <1>4, <1>5 DEF Four, Splits, ab, abc

\* Only empty sequences put together are empty.
LEMMA FlattenNone ==
  ASSUME NEW S, NEW ss \in Seq(Seq(S))
  PROVE  FlattenSeq(ss) = <<>> <=> \A i \in DOMAIN ss : ss[i] = <<>>
<1> DEFINE P == {s \in Seq(Seq(S)) : FlattenSeq(s) = <<>> <=> \A i \in DOMAIN s : s[i] = <<>>}
<1>1. <<>> \in P
  BY FlattenEmpty, EmptySeq
<1>2. ASSUME NEW s \in Seq(Seq(S)), NEW e \in Seq(S), s \in P PROVE Append(s, e) \in P
  <2> DEFINE fs == FlattenSeq(s)
             t == Append(s, e)
  <2>1. FlattenSeq(Append(s, e)) = fs \o e
    BY FlattenAppend
  <2>2. fs \in Seq(S)
    BY FlattenType
  <2>3. /\ t \in Seq(Seq(S)) /\ DOMAIN t = 1 .. Len(s) + 1 /\ t[Len(s) + 1] = e
        /\ \A i \in 1 .. Len(s) : t[i] = s[i]
    BY AppendProperties, LenProperties
  <2>4. Len(s) \in Nat /\ DOMAIN s = 1 .. Len(s)
    BY LenProperties
  <2>5. fs = <<>> <=> \A i \in DOMAIN s : s[i] = <<>>
    BY <1>2
  <2> HIDE DEF fs, t
  <2>6. (fs \o e = <<>>) <=> (fs = <<>> /\ e = <<>>)
    <3>1. Len(fs \o e) = Len(fs) + Len(e) /\ Len(fs) \in Nat /\ Len(e) \in Nat /\ fs \o e \in Seq(S)
      BY <2>2, ConcatProperties, LenProperties
    <3>2. Len(fs) = 0 <=> fs = <<>>
      BY <2>2, EmptySeq
    <3>3. Len(e) = 0 <=> e = <<>>
      BY EmptySeq
    <3>4. Len(fs \o e) = 0 <=> fs \o e = <<>>
      BY <3>1, EmptySeq
    <3> QED
      BY <3>1, <3>2, <3>3, <3>4
  <2>7. (\A i \in DOMAIN t : t[i] = <<>>) <=> ((\A i \in DOMAIN s : s[i] = <<>>) /\ e = <<>>)
    <3>1. ASSUME \A i \in DOMAIN t : t[i] = <<>> PROVE (\A i \in DOMAIN s : s[i] = <<>>) /\ e = <<>>
      <4>1. \A i \in 1 .. Len(s) : i \in DOMAIN t
        BY <2>3, <2>4
      <4>2. Len(s) + 1 \in DOMAIN t
        BY <2>3, <2>4
      <4> QED
        BY <2>3, <2>4, <3>1, <4>1, <4>2
    <3>2. ASSUME \A i \in DOMAIN s : s[i] = <<>>, e = <<>> PROVE \A i \in DOMAIN t : t[i] = <<>>
      <4> TAKE i \in DOMAIN t
      <4>1. i \in 1 .. Len(s) \/ i = Len(s) + 1
        BY <2>3, <2>4
      <4> QED
        BY <2>3, <2>4, <3>2, <4>1
    <3> QED
      BY <3>1, <3>2
  <2>8. FlattenSeq(t) = <<>> <=> \A i \in DOMAIN t : t[i] = <<>>
    BY <2>1, <2>5, <2>6, <2>7 DEF t
  <2> QED
    BY <2>3, <2>8 DEF t
<1> HIDE DEF P
<1>3. Seq(Seq(S)) \subseteq P
  BY <1>1, <1>2, SeqInduction
<1> QED
  BY <1>3 DEF P

-----------------------------------------------------------------------------
\* What the client asks for, and what is sent.

\* What is not there is none of the words of the protocols.
LEMMA NoneApart ==
  None \notin {"low", "medium", "high", "minimal", "xhigh", "none", "auto", "any", "one", "tool",
               "function", "required", "yes", "no", "text", "json_object", "json_schema",
               "functions", "hosted", "enabled", "adaptive", "object", "broken"}
BY Zenon DEF None

\* What a client asks for.
SettingsSet ==
  [limit : Nat, effort : {None, "low", "medium", "high"},
   choice : {None, "auto", "none", "any", "one"}, parallel : {None, "yes", "no"},
   stop : BOOLEAN, format : {None, "text", "json_object", "json_schema"},
   own : BOOLEAN, n : Nat, tools : {"functions", "hosted"}]

Asking ==
  /\ client \in Protocols
  /\ settings \in SettingsSet
  /\ client = "responses" => ~ settings.stop

\* The fields of the request that do not depend on the conversation.
LEMMA BodyFields ==
  ASSUME Asking
  PROVE  /\ Body.messages = history
         /\ Body.n = settings.n /\ Body.own = settings.own
         /\ Body.tools = settings.tools /\ Body.format = settings.format
         /\ Body.stop = settings.stop
         /\ Body.parallel_tool_calls = IF client = "anthropic" THEN None ELSE settings.parallel
         /\ Body.disable_parallel_tool_use =
              IF client = "anthropic" THEN Not(settings.parallel) ELSE None
BY SMT DEF Asking, Body, Blank, SettingsSet

\* The limit is the one the client sets, whichever name it has,
LEMMA BodyLimit ==
  ASSUME Asking
  PROVE  /\ Limit(Body) \in Nat
         /\ settings.limit # 0 => Limit(Body) = settings.limit
         /\ settings.limit = 0 => Limit(Body) \in {0, DefaultMaxTokens}
BY SMTT(30), NoneApart DEF Asking, Body, Blank, SettingsSet, Limit, DefaultMaxTokens

\* the effort the one it asks for, said as a budget or not,
LEMMA BodyEffort ==
  ASSUME Asking
  PROVE  Effort(client, Body) = settings.effort
BY SMTT(30), NoneApart DEF Asking, Body, Blank, SettingsSet, Effort, LeastBudget

\* and so is the choice of tools, in the words of its protocol.
LEMMA BodyChoice ==
  ASSUME Asking
  PROVE  /\ settings.choice = "one" => Mode(Body.tool_choice) = "function"
         /\ settings.choice = "any" => Mode(Body.tool_choice) = "required"
         /\ settings.choice \in {"auto", "none"} => Body.tool_choice = settings.choice
         /\ settings.choice = None => Body.tool_choice \in {None, "auto"}
BY SMTT(30), NoneApart DEF Asking, Body, Blank, SettingsSet, Mode

\* A budget is below the limit.
LEMMA BudgetBelow ==
  ASSUME NEW effort, NEW limit \in Nat
  PROVE  /\ Budget(effort, limit) \in Int /\ Budget(effort, limit) < limit
         /\ limit > LeastBudget => Budget(effort, limit) >= LeastBudget
BY DEF Budget, LeastBudget

Forwarded ==
  /\ phase \in {"waiting", "refused"} => provider \in Protocols
  /\ phase = "waiting" => Convertible(client, provider, Body) /\ sent = Request(client, provider, Body)
  /\ phase = "refused" => ~ Convertible(client, provider, Body)

\* The fields of a converted request.
LEMMA ConvertedFields ==
  ASSUME NEW from, NEW to, NEW body, NEW think, think = MustThink(from, to, body), 
         NEW limit, limit = LimitFor(to, body), NEW r, r = Converted(from, to, body)
  PROVE  /\ r.max_output_tokens = IF to = "responses" THEN limit ELSE 0
         /\ r.max_tokens = IF to = "responses" THEN 0 ELSE limit
         /\ r.tool_choice = IF body.tool_choice = None /\ to = "anthropic" /\ Parallel(from, body) # None
                              THEN "auto" ELSE ToolChoice(to, body.tool_choice)
         /\ r.disable_parallel_tool_use = IF to = "anthropic" THEN Not(Parallel(from, body)) ELSE None
         /\ r.parallel_tool_calls = IF to = "anthropic" THEN None ELSE Parallel(from, body)
         /\ r.stop = body.stop
         /\ r.thinking = IF think THEN "enabled" ELSE None
         /\ r.budget_tokens = IF think THEN Budget(Effort(from, body), limit) ELSE 0
         /\ r.effort = IF to = "anthropic" THEN None ELSE Effort(from, body)
         /\ r.format = Format(from, to, body.format)
BY SMT DEF Converted, Blank

\* What is sent converted asks for what the client asked for (Request, request.go:12).
LEMMA KeepsSettings ==
  ASSUME Asking, Forwarded
  PROVE  SettingsKept
<1> SUFFICES ASSUME phase = "waiting", client # provider PROVE SettingsKept
  BY DEF SettingsKept
<1> DEFINE think == MustThink(client, provider, Body)
           limit == LimitFor(provider, Body)
           b == Body
<1>1. provider \in Protocols /\ sent = Converted(client, provider, b)
  BY DEF Forwarded, Request
<1>2. /\ settings.limit # 0 => limit = settings.limit
      /\ limit \in Nat
      /\ provider = "anthropic" => limit > 0
  BY BodyLimit DEF LimitFor, DefaultMaxTokens
<1>3. Effort(client, b) = settings.effort
  BY BodyEffort
<1>4. think <=> (provider = "anthropic" /\ settings.effort # None)
  BY <1>3, NoneApart DEF MustThink, Asking, SettingsSet
<1>5. think => Budget(settings.effort, limit) \in LeastBudget .. limit - 1
  <2>1. think => Budget(settings.effort, limit) >= LeastBudget
    BY <1>3 DEF Forwarded, Convertible
  <2> QED
    BY <1>2, <2>1, BudgetBelow DEF LeastBudget
<1>6. Parallel(client, b) = settings.parallel
  BY BodyFields, NoneApart, SMT DEF Asking, SettingsSet, Parallel, Not
<1>7. Not(Not(settings.parallel)) = settings.parallel
  BY NoneApart, SMT DEF Asking, SettingsSet, Not
<1> HIDE DEF think, limit, b
<1>8. /\ provider = "responses" => sent.max_output_tokens = limit
      /\ provider # "responses" => sent.max_tokens = limit
      /\ sent.stop = b.stop
      /\ provider = "anthropic" => sent.disable_parallel_tool_use = Not(settings.parallel)
      /\ provider # "anthropic" => sent.parallel_tool_calls = settings.parallel
      /\ think => sent.thinking = "enabled" /\ sent.budget_tokens = Budget(settings.effort, limit)
      /\ ~ think => sent.thinking = None
      /\ sent.effort = IF provider = "anthropic" THEN None ELSE settings.effort
      /\ sent.format = Format(client, provider, b.format)
  BY <1>1, <1>3, <1>6, ConvertedFields DEF think, limit, b
<1>9. sent.tool_choice = IF b.tool_choice = None /\ provider = "anthropic" /\ settings.parallel # None
                           THEN "auto" ELSE ToolChoice(provider, b.tool_choice)
  BY <1>1, <1>6, ConvertedFields
<1> DEFINE word == CASE settings.choice = "one" -> IF provider = "anthropic" THEN "tool" ELSE "function"
                     [] settings.choice = "any" -> IF provider = "anthropic" THEN "any" ELSE "required"
                     [] OTHER -> settings.choice
<1>10. sent.tool_choice = word \/ (settings.choice = None /\ sent.tool_choice = "auto")
  <2>1. /\ settings.choice = "one" => Mode(b.tool_choice) = "function"
        /\ settings.choice = "any" => Mode(b.tool_choice) = "required"
        /\ settings.choice \in {"auto", "none"} => b.tool_choice = settings.choice
        /\ settings.choice = None => b.tool_choice \in {None, "auto"}
    BY BodyChoice DEF b
  <2>2. settings.choice \in {None, "auto", "none", "any", "one"}
    BY DEF Asking, SettingsSet
  <2>3. CASE settings.choice = "one"
    <3>1. b.tool_choice # None
      BY <2>1, <2>3, NoneApart DEF Mode
    <3>2. sent.tool_choice = ToolChoice(provider, b.tool_choice)
      BY <1>9, <3>1
    <3> QED
      BY <2>1, <2>3, <3>2 DEF ToolChoice
  <2>4. CASE settings.choice = "any"
    <3>1. b.tool_choice # None
      BY <2>1, <2>4, NoneApart DEF Mode
    <3>2. sent.tool_choice = ToolChoice(provider, b.tool_choice)
      BY <1>9, <3>1
    <3> QED
      BY <2>1, <2>4, <3>2 DEF ToolChoice
  <2>5. CASE settings.choice \in {"auto", "none"}
    <3>1. b.tool_choice # None /\ b.tool_choice = settings.choice
      BY <2>1, <2>5, NoneApart
    <3>2. sent.tool_choice = ToolChoice(provider, b.tool_choice)
      BY <1>9, <3>1
    <3> QED
      BY <2>5, <3>1, <3>2 DEF ToolChoice, Mode
  <2>6. CASE settings.choice = None
    <3>1. b.tool_choice = "auto" => sent.tool_choice = "auto"
      BY <1>9, NoneApart DEF ToolChoice, Mode
    <3>2. b.tool_choice = None => sent.tool_choice \in {None, "auto"}
      BY <1>9, NoneApart DEF ToolChoice, Mode
    <3>3. word = None
      BY <2>6, NoneApart
    <3> QED
      BY <2>1, <2>6, <3>1, <3>2, <3>3
  <2> QED
    BY <2>2, <2>3, <2>4, <2>5, <2>6
<1>11. b.stop = settings.stop /\ b.format = settings.format
  BY BodyFields DEF b
<1> HIDE DEF word
<1>12. /\ settings.limit # 0 =>
           (IF provider = "responses" THEN sent.max_output_tokens ELSE sent.max_tokens) = settings.limit
       /\ provider = "anthropic" =>
           (IF provider = "responses" THEN sent.max_output_tokens ELSE sent.max_tokens) > 0
       /\ settings.parallel = (IF provider = "anthropic" THEN Not(sent.disable_parallel_tool_use)
                                                         ELSE sent.parallel_tool_calls)
  BY <1>2, <1>7, <1>8
<1>13. IF provider = "anthropic" /\ settings.effort # None
         THEN /\ sent.thinking = "enabled"
              /\ sent.budget_tokens \in LeastBudget .. sent.max_tokens - 1
         ELSE sent.effort = settings.effort /\ sent.thinking = None
  BY <1>4, <1>5, <1>8
<1>14. /\ sent.format = None <=> settings.format \in {None, "text"}
       /\ \/ settings.format = "text" \/ sent.format = settings.format
          \/ client = "anthropic" /\ sent.format = "json_schema"
  BY <1>8, <1>11, NoneApart DEF Format
<1> QED
  BY <1>8, <1>10, <1>11, <1>12, <1>13, <1>14 DEF SettingsKept, word

\* A message that another protocol has words for.
Understood(p, m) ==
  /\ ReadableMessage(p, m)
  /\ p # "anthropic" =>
       \A c \in DOMAIN CallsOf(p, m) : Input(CallsOf(p, m)[c].arguments) = "object"

WellRead == opaque \/ \A i \in DOMAIN history : Understood(client, history[i])

\* What is refused was asked for in words the provider does not have.
LEMMA RefusesForCause ==
  ASSUME Asking, Forwarded, WellRead
  PROVE  RefusedForCause
<1> SUFFICES ASSUME phase = "refused", ~ opaque, ~ settings.own, ~ (settings.n > 1),
                    settings.tools # "hosted",
                    ~ (settings.stop /\ provider = "responses"),
                    ~ (settings.format = "json_object" /\ provider = "anthropic"),
                    ~ (/\ settings.effort # None /\ settings.limit \in 1 .. LeastBudget
                       /\ provider = "anthropic")
             PROVE  Convertible(client, provider, Body)
  BY DEF RefusedForCause, Forwarded
<1> SUFFICES ASSUME client # provider PROVE Convertible(client, provider, Body)
  BY DEF Convertible
<1>1. provider \in Protocols /\ settings \in SettingsSet
  BY DEF Forwarded, Asking
<1>2. ~ Body.own /\ Body.n <= 1 /\ Body.tools # "hosted" /\ ~ (Body.stop /\ provider = "responses")
  BY <1>1, BodyFields DEF SettingsSet
<1>3. \A i \in DOMAIN Body.messages :
        /\ ReadableMessage(client, Body.messages[i])
        /\ provider = "anthropic" =>
             LET made == CallsOf(client, Body.messages[i]) IN
             \A c \in DOMAIN made : Input(made[c].arguments) = "object"
  BY BodyFields DEF WellRead, Understood
<1>4. Mode(Body.tool_choice) \in {None, "auto", "none", "required", "function"}
  <2>1. settings.choice \in {None, "auto", "none", "any", "one"}
    BY <1>1 DEF SettingsSet
  <2>2. /\ settings.choice \in {"auto", "none"} => Mode(Body.tool_choice) = settings.choice
        /\ settings.choice = None => Mode(Body.tool_choice) \in {None, "auto"}
    BY BodyChoice, NoneApart DEF Mode
  <2> QED
    BY <2>1, <2>2, BodyChoice
<1>5. MustThink(client, provider, Body) =>
        Budget(Effort(client, Body), LimitFor(provider, Body)) >= LeastBudget
  <2> SUFFICES ASSUME MustThink(client, provider, Body)
               PROVE  Budget(Effort(client, Body), LimitFor(provider, Body)) >= LeastBudget
    OBVIOUS
  <2>1. provider = "anthropic" /\ settings.effort # None
    BY BodyEffort DEF MustThink
  <2>2. LimitFor(provider, Body) \in Nat /\ LimitFor(provider, Body) > LeastBudget
    <3>1. settings.limit \in Nat /\ ~ settings.limit \in 1 .. LeastBudget
      BY <1>1, <2>1 DEF SettingsSet
    <3> QED
      BY <2>1, <3>1, BodyLimit DEF LimitFor, LeastBudget, DefaultMaxTokens
  <2> QED
    BY <2>2, BudgetBelow
<1>6. provider = "anthropic" => Body.format \in {None, "text", "json_schema"}
  BY <1>1, BodyFields DEF SettingsSet
<1> QED
  BY <1>2, <1>3, <1>4, <1>5, <1>6, Zenon DEF Convertible

-----------------------------------------------------------------------------
\* What an answer says, and what the parts say that it is read as and written from.

WordSeq == Seq(Nat)

Arguments == {None, "object", "broken"}
TextParted == [kind : {"text", "refusal", "thinking"}, text : WordSeq]
ToolParted == [kind : {"tool"}, id : Nat, arguments : Arguments]
AnswerParts == TextParted \cup ToolParted

ThoughtOf(p) == IF p.kind = "thinking" THEN p.text ELSE <<>>
IdOf(p) == IF p.kind = "tool" THEN <<p.id>> ELSE <<>>

SaidText == [p \in AnswerParts |-> TextOf(p)]
Thought == [p \in AnswerParts |-> ThoughtOf(p)]
CallId == [p \in AnswerParts |-> IdOf(p)]

PartsSpoken(parts) ==
  [text |-> FlattenSeq(Map(SaidText, parts)), thinking |-> FlattenSeq(Map(Thought, parts)),
   calls |-> FlattenSeq(Map(CallId, parts))]

\* The words of a Chat answer.
LEMMA SpokenChat ==
  ASSUME NEW body
  PROVE  Spoken("chat", body) =
    [text |-> FlattenSeq([i \in DOMAIN body.content |-> body.content[i].text]) \o body.refusal,
     thinking |-> body.reasoning_content,
     calls |-> [i \in DOMAIN body.tool_calls |-> body.tool_calls[i].id]]
BY DEF Spoken, FlattenEach

OnlyThese(blocks, types) ==
  FlattenSeq([i \in DOMAIN blocks |-> IF blocks[i].type \in types THEN <<blocks[i]>> ELSE <<>>])

\* The blocks of some types.
LEMMA Those ==
  ASSUME NEW blocks, NEW types
  PROVE  BlocksOf(blocks, types) = OnlyThese(blocks, types)
BY DEF BlocksOf, OnlyThese, FlattenEach

\* The words of an Anthropic answer,
LEMMA SpokenAnthropic ==
  ASSUME NEW body, NEW texts, NEW thoughts, NEW uses,
         texts = OnlyThese(body.content, {"text", "redacted_thinking"}),
         thoughts = OnlyThese(body.content, {"thinking"}), uses = OnlyThese(body.content, {"tool_use"})
  PROVE  Spoken("anthropic", body) =
    [text |-> FlattenSeq([i \in DOMAIN texts |-> texts[i].text]),
     thinking |-> FlattenSeq([i \in DOMAIN thoughts |-> thoughts[i].thinking]),
     calls |-> [i \in DOMAIN uses |-> uses[i].id]]
<1>1. /\ texts = BlocksOf(body.content, {"text", "redacted_thinking"})
      /\ thoughts = BlocksOf(body.content, {"thinking"}) /\ uses = BlocksOf(body.content, {"tool_use"})
  BY Those
<1> QED
  BY <1>1 DEF Spoken, FlattenEach

\* and of a Responses answer.
LEMMA SpokenResponses ==
  ASSUME NEW body, NEW thoughts, NEW uses,
         thoughts = OnlyThese(body.output, {"reasoning"}),
         uses = OnlyThese(body.output, {"function_call"})
  PROVE  Spoken("responses", body) =
    [text |-> FlattenSeq([i \in DOMAIN body.output |->
                IF body.output[i].type = "message"
                  THEN FlattenSeq([j \in DOMAIN body.output[i].content |-> body.output[i].content[j].text])
                  ELSE <<>>]),
     thinking |-> FlattenSeq([i \in DOMAIN thoughts |-> FlattenSeq(thoughts[i].summary)]),
     calls |-> [i \in DOMAIN uses |-> uses[i].call_id]]
<1>1. thoughts = BlocksOf(body.output, {"reasoning"}) /\ uses = BlocksOf(body.output, {"function_call"})
  BY Those
<1> QED
  BY <1>1 DEF Spoken, FlattenEach

ToolsIn(parts) == FlattenSeq([i \in DOMAIN parts |-> IF parts[i].kind = "tool" THEN <<parts[i]>> ELSE <<>>])

\* The calls among parts.
LEMMA ToolsOfKind ==
  ASSUME NEW parts
  PROVE  OfKind("tool", parts) = ToolsIn(parts)
BY DEF OfKind, ToolsIn, FlattenEach

TextsIn(parts) == FlattenSeq([i \in DOMAIN parts |-> TextOf(parts[i])])

\* The fields of an answer that is written for a Chat client (encodeCompletion),
LEMMA EncodedChat ==
  ASSUME NEW parts, NEW stop, NEW usage, NEW made, made = ToolsIn(parts), NEW text, text = TextsIn(parts),
         NEW body, body = EncodeCompletion("chat", parts, stop, usage)
  PROVE  /\ body.content = IF made # <<>> /\ text = <<>> THEN <<>> ELSE <<TextBlock("text", text)>>
         /\ body.refusal = <<>>
         /\ body.reasoning_content = FlattenSeq([i \in DOMAIN parts |-> ThoughtOf(parts[i])])
         /\ body.tool_calls = [i \in DOMAIN made |-> Call(made[i].id, made[i].arguments)]
         /\ body.finish_reason = StopReason("chat", stop, made # <<>>)
         /\ body.usage = Usage("chat", usage)
<1>1. OfKind("tool", parts) = made /\ TextParts(parts) = text
  BY ToolsOfKind DEF TextParts, TextsIn, FlattenEach
<1> QED
  BY <1>1 DEF EncodeCompletion, ChatReply, FlattenEach, ThoughtOf

\* for an Anthropic client,
LEMMA EncodedAnthropic ==
  ASSUME NEW parts, NEW stop, NEW usage, NEW made, made = ToolsIn(parts),
         NEW body, body = EncodeCompletion("anthropic", parts, stop, usage)
  PROVE  /\ body.content = [i \in DOMAIN parts |-> AnthropicBlock(parts[i])]
         /\ body.stop_reason = StopReason("anthropic", stop, made # <<>>)
         /\ body.usage = Usage("anthropic", usage)
<1>1. OfKind("tool", parts) = made
  BY ToolsOfKind
<1> QED
  BY <1>1 DEF EncodeCompletion, AnthropicReply

ReasonFor(reason) ==
  CASE reason = "length" -> "max_output_tokens"
    [] reason = "content_filter" -> "content_filter"
    [] OTHER -> None

\* and for a Responses client.
LEMMA EncodedResponses ==
  ASSUME NEW parts, NEW stop, NEW usage, NEW made, made = ToolsIn(parts),
         NEW body, body = EncodeCompletion("responses", parts, stop, usage)
  PROVE  /\ body.output = [i \in DOMAIN parts |-> ResponsesItem(parts[i])]
         /\ body.reason = ReasonFor(StopReason("responses", stop, made # <<>>))
         /\ body.usage = Usage("responses", usage)
<1>1. OfKind("tool", parts) = made
  BY ToolsOfKind
<1> QED
  BY <1>1 DEF EncodeCompletion, ResponsesReply, ReasonFor

ToolOnly == [p \in AnswerParts |-> IF p.kind = "tool" THEN <<p>> ELSE <<>>]
PartId == [p \in ToolParted |-> p.id]

\* Each part has words, thoughts and ids.
LEMMA PartFunctions ==
  /\ SaidText \in [AnswerParts -> WordSeq] /\ Thought \in [AnswerParts -> WordSeq]
  /\ CallId \in [AnswerParts -> WordSeq] /\ ToolOnly \in [AnswerParts -> Seq(ToolParted)]
<1>1. \A p \in AnswerParts : p.kind = "tool" => p \in ToolParted /\ p.id \in Nat
  BY DEF AnswerParts, TextParted, ToolParted
<1>2. \A p \in AnswerParts : p.kind # "tool" => p.text \in WordSeq /\ p.kind \in {"text", "refusal", "thinking"}
  BY DEF AnswerParts, TextParted, ToolParted
<1>3. \A p \in AnswerParts : TextOf(p) \in WordSeq /\ ThoughtOf(p) \in WordSeq
  BY <1>1, <1>2 DEF TextOf, ThoughtOf, WordSeq
<1>4. \A p \in AnswerParts : IdOf(p) \in WordSeq
  BY <1>1 DEF IdOf, WordSeq
<1>5. \A p \in AnswerParts : (IF p.kind = "tool" THEN <<p>> ELSE <<>>) \in Seq(ToolParted)
  BY <1>1
<1> QED
  BY <1>3, <1>4, <1>5 DEF SaidText, Thought, CallId, ToolOnly

\* The words, thoughts and calls of parts are those of each.
LEMMA PartsMapped ==
  ASSUME NEW parts \in Seq(AnswerParts)
  PROVE  /\ TextsIn(parts) = FlattenSeq(Map(SaidText, parts))
         /\ [i \in DOMAIN parts |-> ThoughtOf(parts[i])] = Map(Thought, parts)
         /\ ToolsIn(parts) = FlattenSeq(Map(ToolOnly, parts))
<1>1. \A i \in DOMAIN parts : parts[i] \in AnswerParts
  BY MembersIn
<1>2. [i \in DOMAIN parts |-> TextOf(parts[i])] = Map(SaidText, parts)
  BY <1>1 DEF Map, SaidText
<1>3. [i \in DOMAIN parts |-> ThoughtOf(parts[i])] = Map(Thought, parts)
  BY <1>1 DEF Map, Thought
<1>4. [i \in DOMAIN parts |-> IF parts[i].kind = "tool" THEN <<parts[i]>> ELSE <<>>] = Map(ToolOnly, parts)
  BY <1>1 DEF Map, ToolOnly
<1> QED
  BY <1>2, <1>3, <1>4 DEF TextsIn, ToolsIn

\* The ids of the calls among parts.
LEMMA ToolIds ==
  ASSUME NEW parts \in Seq(AnswerParts), NEW made, made = ToolsIn(parts)
  PROVE  /\ made \in Seq(ToolParted)
         /\ [i \in DOMAIN made |-> made[i].id] = PartsSpoken(parts).calls
<1>1. made = FlattenSeq(Map(ToolOnly, parts))
  BY PartsMapped
<1>2. Gives(ToolOnly, AnswerParts, Seq(ToolParted))
  BY PartFunctions DEF Gives
<1>3. made \in Seq(ToolParted)
  BY <1>1, <1>2, FlattenMapType
<1>4. [i \in DOMAIN made |-> made[i].id] = Map(PartId, made)
  <2>1. \A i \in DOMAIN made : made[i] \in ToolParted
    BY <1>3, MembersIn
  <2> QED
    BY <2>1 DEF Map, PartId
<1>5. \A p \in AnswerParts : CallId[p] = Map(PartId, ToolOnly[p])
  <2> TAKE p \in AnswerParts
  <2>1. CASE p.kind = "tool"
    <3>1. p \in ToolParted
      BY <2>1 DEF AnswerParts, TextParted, ToolParted
    <3>2. ToolOnly[p] = <<p>> /\ CallId[p] = <<p.id>> /\ PartId[p] = p.id
      BY <2>1, <3>1 DEF ToolOnly, CallId, IdOf, PartId
    <3>3. Map(PartId, <<p>>) = <<PartId[p]>>
      BY DEF Map
    <3> QED
      BY <3>2, <3>3
  <2>2. CASE p.kind # "tool"
    BY <2>2, MapEmpty DEF ToolOnly, CallId, IdOf
  <2> QED
    BY <2>1, <2>2
<1>6. Map(PartId, FlattenSeq(Map(ToolOnly, parts))) = FlattenSeq(Map(CallId, parts))
  <2> HIDE DEF ToolOnly, CallId, PartId
  <2>1. Listed(CallId, ToolOnly, PartId, AnswerParts)
    BY <1>5 DEF Listed
  <2> QED
    BY <1>2, <2>1, MapFlatten
<1> QED
  BY <1>1, <1>3, <1>4, <1>6 DEF PartsSpoken

\* What is written for a Chat client says what the parts say.
LEMMA SpokenInChat ==
  ASSUME NEW parts \in Seq(AnswerParts), NEW stop, NEW usage
  PROVE  Spoken("chat", EncodeCompletion("chat", parts, stop, usage)) = PartsSpoken(parts)
<1> DEFINE body == EncodeCompletion("chat", parts, stop, usage)
           made == ToolsIn(parts)
           text == TextsIn(parts)
<1> HIDE DEF body, made, text
<1>1. /\ body.content = IF made # <<>> /\ text = <<>> THEN <<>> ELSE <<TextBlock("text", text)>>
      /\ body.refusal = <<>>
      /\ body.reasoning_content = FlattenSeq([i \in DOMAIN parts |-> ThoughtOf(parts[i])])
      /\ body.tool_calls = [i \in DOMAIN made |-> Call(made[i].id, made[i].arguments)]
  BY EncodedChat DEF body, made, text
<1>2. text = PartsSpoken(parts).text /\ text \in WordSeq
  <2>1. text = FlattenSeq(Map(SaidText, parts))
    BY PartsMapped DEF text
  <2>2. Gives(SaidText, AnswerParts, Seq(Nat))
    BY PartFunctions DEF Gives, WordSeq
  <2> QED
    BY <2>1, <2>2, FlattenMapType DEF PartsSpoken, WordSeq
<1>3. FlattenSeq([i \in DOMAIN body.content |-> body.content[i].text]) = text
  <2>1. CASE made # <<>> /\ text = <<>>
    <3>1. body.content = <<>>
      BY <1>1, <2>1
    <3>2. [i \in DOMAIN <<>> |-> <<>>[i].text] = <<>>
      OBVIOUS
    <3> QED
      BY <2>1, <3>1, <3>2, FlattenEmpty
  <2>2. CASE ~ (made # <<>> /\ text = <<>>)
    <3>1. body.content = <<TextBlock("text", text)>>
      BY <1>1, <2>2
    <3>2. [i \in DOMAIN body.content |-> body.content[i].text] = <<text>>
      BY <3>1 DEF TextBlock
    <3> QED
      BY <1>2, <3>2, FlattenOne DEF WordSeq
  <2> QED
    BY <2>1, <2>2
<1>4. text \o body.refusal = text
  BY <1>1, <1>2, ConcatEmptySeq DEF WordSeq
<1>5. [i \in DOMAIN body.tool_calls |-> body.tool_calls[i].id] = [i \in DOMAIN made |-> made[i].id]
  BY <1>1 DEF Call
<1>6. [i \in DOMAIN made |-> made[i].id] = PartsSpoken(parts).calls
  BY ToolIds DEF made
<1>7. body.reasoning_content = PartsSpoken(parts).thinking
  BY <1>1, PartsMapped DEF PartsSpoken
<1>8. Spoken("chat", body) = [text |-> text, thinking |-> body.reasoning_content,
                              calls |-> [i \in DOMAIN made |-> made[i].id]]
  BY <1>3, <1>4, <1>5, SpokenChat
<1>9. Spoken("chat", body) = [text |-> PartsSpoken(parts).text, thinking |-> PartsSpoken(parts).thinking,
                              calls |-> PartsSpoken(parts).calls]
  BY <1>2, <1>6, <1>7, <1>8
<1> QED
  BY <1>9 DEF PartsSpoken, body

-----------------------------------------------------------------------------
\* Anthropic: content blocks.

TextTyped == [type : {"text"}, text : WordSeq]
ThinkingTyped == [type : {"thinking"}, thinking : WordSeq, signature : {None, "signed"}]
UseTyped == [type : {"tool_use"}, id : Nat, input : Arguments]
AnswerBlocks == TextTyped \cup ThinkingTyped \cup UseTyped

BlocksWith(types) == [b \in AnswerBlocks |-> IF b.type \in types THEN <<b>> ELSE <<>>]
TextField == [b \in TextTyped |-> b.text]
ThinkingField == [b \in ThinkingTyped |-> b.thinking]
IdField == [b \in UseTyped |-> b.id]

BlockText == [b \in AnswerBlocks |-> IF b.type = "text" THEN b.text ELSE <<>>]
BlockThought == [b \in AnswerBlocks |-> IF b.type = "thinking" THEN b.thinking ELSE <<>>]
BlockCall == [b \in AnswerBlocks |-> IF b.type = "tool_use" THEN <<b.id>> ELSE <<>>]

TextTypes == {"text", "redacted_thinking"}

\* The types of blocks that are read have their fields.
LEMMA BlocksApart ==
  ASSUME NEW b \in AnswerBlocks
  PROVE  /\ b.type \in TextTypes => b \in TextTyped /\ b.type = "text" /\ b.text \in WordSeq
         /\ b.type = "thinking" => b \in ThinkingTyped /\ b.thinking \in WordSeq
         /\ b.type = "tool_use" => b \in UseTyped /\ b.id \in Nat
         /\ b.type \in {"text", "thinking", "tool_use"}
BY DEF AnswerBlocks, TextTyped, ThinkingTyped, UseTyped, TextTypes

\* Each block has words, thoughts and ids.
LEMMA BlockFunctions ==
  /\ BlocksWith(TextTypes) \in [AnswerBlocks -> Seq(TextTyped)]
  /\ BlocksWith({"thinking"}) \in [AnswerBlocks -> Seq(ThinkingTyped)]
  /\ BlocksWith({"tool_use"}) \in [AnswerBlocks -> Seq(UseTyped)]
  /\ TextField \in [TextTyped -> Seq(Nat)] /\ ThinkingField \in [ThinkingTyped -> Seq(Nat)]
<1>1. \A b \in AnswerBlocks : (IF b.type \in TextTypes THEN <<b>> ELSE <<>>) \in Seq(TextTyped)
  BY BlocksApart
<1>2. \A b \in AnswerBlocks : (IF b.type \in {"thinking"} THEN <<b>> ELSE <<>>) \in Seq(ThinkingTyped)
  BY BlocksApart
<1>3. \A b \in AnswerBlocks : (IF b.type \in {"tool_use"} THEN <<b>> ELSE <<>>) \in Seq(UseTyped)
  BY BlocksApart
<1>4. TextField \in [TextTyped -> Seq(Nat)] /\ ThinkingField \in [ThinkingTyped -> Seq(Nat)]
  BY DEF TextField, ThinkingField, TextTyped, ThinkingTyped, WordSeq
<1> QED
  BY <1>1, <1>2, <1>3, <1>4 DEF BlocksWith

\* The blocks of some types, from each block.
LEMMA OnlyThem ==
  ASSUME NEW content \in Seq(AnswerBlocks), NEW types
  PROVE  OnlyThese(content, types) = FlattenSeq(Map(BlocksWith(types), content))
<1>1. \A i \in DOMAIN content : content[i] \in AnswerBlocks
  BY MembersIn
<1>2. [i \in DOMAIN content |-> IF content[i].type \in types THEN <<content[i]>> ELSE <<>>]
        = Map(BlocksWith(types), content)
  BY <1>1 DEF Map, BlocksWith
<1> QED
  BY <1>2 DEF OnlyThese

\* The texts of an Anthropic content are those of its blocks,
LEMMA AnthropicTexts ==
  ASSUME NEW content \in Seq(AnswerBlocks), NEW texts, texts = OnlyThese(content, TextTypes)
  PROVE  FlattenSeq([i \in DOMAIN texts |-> texts[i].text]) = FlattenSeq(Map(BlockText, content))
<1> DEFINE only == BlocksWith(TextTypes)
<1>1. texts = FlattenSeq(Map(only, content))
  BY OnlyThem
<1>2. Gives(only, AnswerBlocks, Seq(TextTyped))
  BY BlockFunctions DEF Gives
<1>3. texts \in Seq(TextTyped)
  <2> HIDE DEF only
  <2> QED
    BY <1>1, <1>2, FlattenMapType
<1>4. [i \in DOMAIN texts |-> texts[i].text] = Map(TextField, texts)
  <2>1. \A i \in DOMAIN texts : texts[i] \in TextTyped
    BY <1>3, MembersIn
  <2> QED
    BY <2>1 DEF Map, TextField
<1>5. \A b \in AnswerBlocks : BlockText[b] = FlattenSeq(Map(TextField, only[b]))
  <2> TAKE b \in AnswerBlocks
  <2>1. CASE b.type \in TextTypes
    <3>1. b \in TextTyped /\ b.type = "text" /\ b.text \in Seq(Nat)
      BY <2>1, BlocksApart DEF WordSeq
    <3>2. only[b] = <<b>> /\ BlockText[b] = b.text /\ TextField[b] = b.text
      BY <2>1, <3>1 DEF BlocksWith, BlockText, TextField
    <3> HIDE DEF only
    <3> QED
      BY <3>1, <3>2, MapOne, FlattenOne
  <2>2. CASE b.type \notin TextTypes
    <3>1. only[b] = <<>> /\ BlockText[b] = <<>>
      BY <2>2 DEF BlocksWith, BlockText, TextTypes
    <3> HIDE DEF only
    <3> QED
      BY <3>1, MapEmpty, FlattenEmpty
  <2> QED
    BY <2>1, <2>2
<1>6. Gives(TextField, TextTyped, Seq(Nat))
  BY BlockFunctions DEF Gives
<1>7. FlattenSeq(Map(TextField, FlattenSeq(Map(only, content)))) = FlattenSeq(Map(BlockText, content))
  <2> HIDE DEF only
  <2>1. Chained(BlockText, only, TextField, AnswerBlocks)
    BY <1>5 DEF Chained
  <2> QED
    BY <1>2, <1>6, <2>1, FlattenTwice
<1> QED
  BY <1>1, <1>4, <1>7

\* so are the thoughts,
LEMMA AnthropicThoughts ==
  ASSUME NEW content \in Seq(AnswerBlocks), NEW thoughts, thoughts = OnlyThese(content, {"thinking"})
  PROVE  FlattenSeq([i \in DOMAIN thoughts |-> thoughts[i].thinking])
           = FlattenSeq(Map(BlockThought, content))
<1> DEFINE only == BlocksWith({"thinking"})
<1>1. thoughts = FlattenSeq(Map(only, content))
  BY OnlyThem
<1>2. Gives(only, AnswerBlocks, Seq(ThinkingTyped))
  BY BlockFunctions DEF Gives
<1>3. thoughts \in Seq(ThinkingTyped)
  <2> HIDE DEF only
  <2> QED
    BY <1>1, <1>2, FlattenMapType
<1>4. [i \in DOMAIN thoughts |-> thoughts[i].thinking] = Map(ThinkingField, thoughts)
  <2>1. \A i \in DOMAIN thoughts : thoughts[i] \in ThinkingTyped
    BY <1>3, MembersIn
  <2> QED
    BY <2>1 DEF Map, ThinkingField
<1>5. \A b \in AnswerBlocks : BlockThought[b] = FlattenSeq(Map(ThinkingField, only[b]))
  <2> TAKE b \in AnswerBlocks
  <2>1. CASE b.type = "thinking"
    <3>1. b \in ThinkingTyped /\ b.thinking \in Seq(Nat)
      BY <2>1, BlocksApart DEF WordSeq
    <3>2. only[b] = <<b>> /\ BlockThought[b] = b.thinking /\ ThinkingField[b] = b.thinking
      BY <2>1, <3>1 DEF BlocksWith, BlockThought, ThinkingField
    <3> HIDE DEF only
    <3> QED
      BY <3>1, <3>2, MapOne, FlattenOne
  <2>2. CASE b.type # "thinking"
    <3>1. only[b] = <<>> /\ BlockThought[b] = <<>>
      BY <2>2 DEF BlocksWith, BlockThought
    <3> HIDE DEF only
    <3> QED
      BY <3>1, MapEmpty, FlattenEmpty
  <2> QED
    BY <2>1, <2>2
<1>6. Gives(ThinkingField, ThinkingTyped, Seq(Nat))
  BY BlockFunctions DEF Gives
<1>7. FlattenSeq(Map(ThinkingField, FlattenSeq(Map(only, content)))) = FlattenSeq(Map(BlockThought, content))
  <2> HIDE DEF only
  <2>1. Chained(BlockThought, only, ThinkingField, AnswerBlocks)
    BY <1>5 DEF Chained
  <2> QED
    BY <1>2, <1>6, <2>1, FlattenTwice
<1> QED
  BY <1>1, <1>4, <1>7

\* so are the calls,
LEMMA AnthropicCalls ==
  ASSUME NEW content \in Seq(AnswerBlocks), NEW uses, uses = OnlyThese(content, {"tool_use"})
  PROVE  [i \in DOMAIN uses |-> uses[i].id] = FlattenSeq(Map(BlockCall, content))
<1> DEFINE only == BlocksWith({"tool_use"})
<1>1. uses = FlattenSeq(Map(only, content))
  BY OnlyThem
<1>2. Gives(only, AnswerBlocks, Seq(UseTyped))
  BY BlockFunctions DEF Gives
<1>3. uses \in Seq(UseTyped)
  <2> HIDE DEF only
  <2> QED
    BY <1>1, <1>2, FlattenMapType
<1>4. [i \in DOMAIN uses |-> uses[i].id] = Map(IdField, uses)
  <2>1. \A i \in DOMAIN uses : uses[i] \in UseTyped
    BY <1>3, MembersIn
  <2> QED
    BY <2>1 DEF Map, IdField
<1>5. \A b \in AnswerBlocks : BlockCall[b] = Map(IdField, only[b])
  <2> TAKE b \in AnswerBlocks
  <2>1. CASE b.type = "tool_use"
    <3>1. b \in UseTyped
      BY <2>1, BlocksApart
    <3>2. only[b] = <<b>> /\ BlockCall[b] = <<b.id>> /\ IdField[b] = b.id
      BY <2>1, <3>1 DEF BlocksWith, BlockCall, IdField
    <3> HIDE DEF only
    <3> QED
      BY <3>2, MapOne
  <2>2. CASE b.type # "tool_use"
    <3>1. only[b] = <<>> /\ BlockCall[b] = <<>>
      BY <2>2 DEF BlocksWith, BlockCall
    <3> HIDE DEF only
    <3> QED
      BY <3>1, MapEmpty
  <2> QED
    BY <2>1, <2>2
<1>7. Map(IdField, FlattenSeq(Map(only, content))) = FlattenSeq(Map(BlockCall, content))
  <2> HIDE DEF only
  <2>1. Listed(BlockCall, only, IdField, AnswerBlocks)
    BY <1>5 DEF Listed
  <2> QED
    BY <1>2, <2>1, MapFlatten
<1> QED
  BY <1>1, <1>4, <1>7

\* and so is all that the answer says.
LEMMA AnthropicWords ==
  ASSUME NEW body, body.content \in Seq(AnswerBlocks)
  PROVE  Spoken("anthropic", body) =
    [text |-> FlattenSeq(Map(BlockText, body.content)),
     thinking |-> FlattenSeq(Map(BlockThought, body.content)),
     calls |-> FlattenSeq(Map(BlockCall, body.content))]
<1> DEFINE texts == OnlyThese(body.content, TextTypes)
           thoughts == OnlyThese(body.content, {"thinking"})
           uses == OnlyThese(body.content, {"tool_use"})
<1> HIDE DEF texts, thoughts, uses
<1>1. Spoken("anthropic", body) =
        [text |-> FlattenSeq([i \in DOMAIN texts |-> texts[i].text]),
         thinking |-> FlattenSeq([i \in DOMAIN thoughts |-> thoughts[i].thinking]),
         calls |-> [i \in DOMAIN uses |-> uses[i].id]]
  BY SpokenAnthropic DEF texts, thoughts, uses, TextTypes
<1>2. FlattenSeq([i \in DOMAIN texts |-> texts[i].text]) = FlattenSeq(Map(BlockText, body.content))
  BY AnthropicTexts DEF texts
<1>3. FlattenSeq([i \in DOMAIN thoughts |-> thoughts[i].thinking]) = FlattenSeq(Map(BlockThought, body.content))
  BY AnthropicThoughts DEF thoughts
<1>4. [i \in DOMAIN uses |-> uses[i].id] = FlattenSeq(Map(BlockCall, body.content))
  BY AnthropicCalls DEF uses
<1> QED
  BY <1>1, <1>2, <1>3, <1>4

AsBlock == [p \in AnswerParts |-> AnthropicBlock(p)]
AsPart == [b \in AnswerBlocks |-> Part(b)]

\* The kinds of parts have their fields.
LEMMA PartsApart ==
  ASSUME NEW p \in AnswerParts
  PROVE  /\ p.kind = "tool" => p \in ToolParted /\ p.id \in Nat /\ p.arguments \in Arguments
         /\ p.kind # "tool" => p.text \in WordSeq /\ p.kind \in {"text", "refusal", "thinking"}
BY DEF AnswerParts, TextParted, ToolParted

\* The block that a part is written as says the same.
LEMMA BlockOfPart ==
  ASSUME NEW p \in AnswerParts
  PROVE  /\ AsBlock[p] \in AnswerBlocks
         /\ SaidText[p] = BlockText[AsBlock[p]]
         /\ Thought[p] = BlockThought[AsBlock[p]]
         /\ CallId[p] = BlockCall[AsBlock[p]]
<1> DEFINE b == AnthropicBlock(p)
<1>1. AsBlock[p] = b
  BY DEF AsBlock
<1>2. CASE p.kind = "tool"
  <2>1. p.id \in Nat /\ Input(p.arguments) \in Arguments
    BY <1>2, PartsApart DEF Input, Arguments
  <2>2. b = [type |-> "tool_use", id |-> p.id, input |-> Input(p.arguments)]
    BY <1>2 DEF AnthropicBlock, ToolUse
  <2>3. b \in UseTyped /\ b.type = "tool_use" /\ b.id = p.id
    BY <2>1, <2>2 DEF UseTyped
  <2> HIDE DEF b
  <2>4. b \in AnswerBlocks
    BY <2>3 DEF AnswerBlocks
  <2>5. BlockText[b] = <<>> /\ BlockThought[b] = <<>> /\ BlockCall[b] = <<p.id>>
    BY <2>3, <2>4 DEF BlockText, BlockThought, BlockCall
  <2>6. SaidText[p] = <<>> /\ Thought[p] = <<>> /\ CallId[p] = <<p.id>>
    BY <1>2 DEF SaidText, Thought, CallId, TextOf, ThoughtOf, IdOf
  <2> QED
    BY <1>1, <2>4, <2>5, <2>6
<1>3. CASE p.kind = "thinking"
  <2>1. p.text \in WordSeq
    BY <1>3, PartsApart
  <2>2. b = [type |-> "thinking", thinking |-> p.text, signature |-> None]
    BY <1>3 DEF AnthropicBlock, ThinkingBlock
  <2>3. b \in ThinkingTyped /\ b.type = "thinking" /\ b.thinking = p.text
    BY <2>1, <2>2 DEF ThinkingTyped
  <2> HIDE DEF b
  <2>4. b \in AnswerBlocks
    BY <2>3 DEF AnswerBlocks
  <2>5. BlockText[b] = <<>> /\ BlockThought[b] = p.text /\ BlockCall[b] = <<>>
    BY <2>3, <2>4 DEF BlockText, BlockThought, BlockCall
  <2>6. SaidText[p] = <<>> /\ Thought[p] = p.text /\ CallId[p] = <<>>
    BY <1>3 DEF SaidText, Thought, CallId, TextOf, ThoughtOf, IdOf
  <2> QED
    BY <1>1, <2>4, <2>5, <2>6
<1>4. CASE p.kind \in {"text", "refusal"}
  <2>1. p.text \in WordSeq
    BY <1>4, PartsApart
  <2>2. b = [type |-> "text", text |-> p.text]
    BY <1>4 DEF AnthropicBlock, TextBlock
  <2>3. b \in TextTyped /\ b.type = "text" /\ b.text = p.text
    BY <2>1, <2>2 DEF TextTyped
  <2> HIDE DEF b
  <2>4. b \in AnswerBlocks
    BY <2>3 DEF AnswerBlocks
  <2>5. BlockText[b] = p.text /\ BlockThought[b] = <<>> /\ BlockCall[b] = <<>>
    BY <2>3, <2>4 DEF BlockText, BlockThought, BlockCall
  <2>6. SaidText[p] = p.text /\ Thought[p] = <<>> /\ CallId[p] = <<>>
    BY <1>4 DEF SaidText, Thought, CallId, TextOf, ThoughtOf, IdOf
  <2> QED
    BY <1>1, <2>4, <2>5, <2>6
<1> QED
  BY <1>2, <1>3, <1>4, PartsApart

\* What is written for an Anthropic client says what the parts say.
LEMMA SpokenInAnthropic ==
  ASSUME NEW parts \in Seq(AnswerParts), NEW stop, NEW usage
  PROVE  Spoken("anthropic", EncodeCompletion("anthropic", parts, stop, usage)) = PartsSpoken(parts)
<1> DEFINE body == EncodeCompletion("anthropic", parts, stop, usage)
           content == Map(AsBlock, parts)
<1>1. body.content = content
  <2>1. body.content = [i \in DOMAIN parts |-> AnthropicBlock(parts[i])]
    BY EncodedAnthropic
  <2>2. \A i \in DOMAIN parts : parts[i] \in AnswerParts
    BY MembersIn
  <2> HIDE DEF body
  <2> QED
    BY <2>1, <2>2 DEF Map, AsBlock
<1>2. Gives(AsBlock, AnswerParts, AnswerBlocks)
  BY BlockOfPart DEF Gives
<1>3. content \in Seq(AnswerBlocks)
  BY <1>2, MapType
<1>4. /\ After(SaidText, BlockText, AsBlock, AnswerParts)
      /\ After(Thought, BlockThought, AsBlock, AnswerParts)
      /\ After(CallId, BlockCall, AsBlock, AnswerParts)
  BY BlockOfPart DEF After
<1>5. /\ Map(BlockText, content) = Map(SaidText, parts)
      /\ Map(BlockThought, content) = Map(Thought, parts)
      /\ Map(BlockCall, content) = Map(CallId, parts)
  BY <1>4, MapMap
<1> HIDE DEF body, content
<1>6. Spoken("anthropic", body) =
        [text |-> FlattenSeq(Map(BlockText, content)), thinking |-> FlattenSeq(Map(BlockThought, content)),
         calls |-> FlattenSeq(Map(BlockCall, content))]
  BY <1>1, <1>3, AnthropicWords
<1> QED
  BY <1>5, <1>6 DEF PartsSpoken, body

\* The part that a block is read as says the same.
LEMMA PartOfBlock ==
  ASSUME NEW b \in AnswerBlocks
  PROVE  /\ AsPart[b] \in AnswerParts
         /\ BlockText[b] = SaidText[AsPart[b]]
         /\ BlockThought[b] = Thought[AsPart[b]]
         /\ BlockCall[b] = CallId[AsPart[b]]
<1> DEFINE p == Part(b)
<1>1. AsPart[b] = p
  BY DEF AsPart
<1>2. CASE b.type = "tool_use"
  <2>1. b.id \in Nat /\ b.input \in Arguments
    BY <1>2 DEF AnswerBlocks, TextTyped, ThinkingTyped, UseTyped
  <2>2. p = [kind |-> "tool", id |-> b.id, arguments |-> b.input]
    BY <1>2 DEF Part, Tool
  <2>3. p \in ToolParted /\ p.kind = "tool" /\ p.id = b.id
    BY <2>1, <2>2 DEF ToolParted
  <2> HIDE DEF p
  <2>4. p \in AnswerParts
    BY <2>3 DEF AnswerParts
  <2>5. BlockText[b] = <<>> /\ BlockThought[b] = <<>> /\ BlockCall[b] = <<b.id>>
    BY <1>2 DEF BlockText, BlockThought, BlockCall
  <2>6. SaidText[p] = <<>> /\ Thought[p] = <<>> /\ CallId[p] = <<b.id>>
    BY <2>3, <2>4 DEF SaidText, Thought, CallId, TextOf, ThoughtOf, IdOf
  <2> QED
    BY <1>1, <2>4, <2>5, <2>6
<1>3. CASE b.type = "thinking"
  <2>1. b.thinking \in WordSeq
    BY <1>3, BlocksApart
  <2>2. p = [kind |-> "thinking", text |-> b.thinking]
    BY <1>3 DEF Part, Thinking
  <2>3. p \in TextParted /\ p.kind = "thinking" /\ p.text = b.thinking
    BY <2>1, <2>2 DEF TextParted
  <2> HIDE DEF p
  <2>4. p \in AnswerParts
    BY <2>3 DEF AnswerParts
  <2>5. BlockText[b] = <<>> /\ BlockThought[b] = b.thinking /\ BlockCall[b] = <<>>
    BY <1>3 DEF BlockText, BlockThought, BlockCall
  <2>6. SaidText[p] = <<>> /\ Thought[p] = b.thinking /\ CallId[p] = <<>>
    BY <2>3, <2>4 DEF SaidText, Thought, CallId, TextOf, ThoughtOf, IdOf
  <2> QED
    BY <1>1, <2>4, <2>5, <2>6
<1>4. CASE b.type = "text"
  <2>1. b.text \in WordSeq
    BY <1>4, BlocksApart DEF TextTypes
  <2>2. p = [kind |-> "text", text |-> b.text]
    BY <1>4 DEF Part, PlainPart, Text
  <2>3. p \in TextParted /\ p.kind = "text" /\ p.text = b.text
    BY <2>1, <2>2 DEF TextParted
  <2> HIDE DEF p
  <2>4. p \in AnswerParts
    BY <2>3 DEF AnswerParts
  <2>5. BlockText[b] = b.text /\ BlockThought[b] = <<>> /\ BlockCall[b] = <<>>
    BY <1>4 DEF BlockText, BlockThought, BlockCall
  <2>6. SaidText[p] = b.text /\ Thought[p] = <<>> /\ CallId[p] = <<>>
    BY <2>3, <2>4 DEF SaidText, Thought, CallId, TextOf, ThoughtOf, IdOf
  <2> QED
    BY <1>1, <2>4, <2>5, <2>6
<1> QED
  BY <1>2, <1>3, <1>4, BlocksApart

\* The parts that an Anthropic answer is read as say what it says.
LEMMA ReadFromAnthropic ==
  ASSUME NEW body, body.content \in Seq(AnswerBlocks)
  PROVE  /\ ReplyParts("anthropic", body) \in Seq(AnswerParts)
         /\ PartsSpoken(ReplyParts("anthropic", body)) = Spoken("anthropic", body)
<1> DEFINE content == body.content
           parts == Map(AsPart, content)
<1>1. ReplyParts("anthropic", body) = parts
  <2>1. \A i \in DOMAIN content : content[i] \in AnswerBlocks
    BY MembersIn
  <2> QED
    BY <2>1 DEF ReplyParts, Parts, Map, AsPart
<1>2. Gives(AsPart, AnswerBlocks, AnswerParts)
  BY PartOfBlock DEF Gives
<1>3. parts \in Seq(AnswerParts)
  BY <1>2, MapType
<1>4. /\ After(BlockText, SaidText, AsPart, AnswerBlocks)
      /\ After(BlockThought, Thought, AsPart, AnswerBlocks)
      /\ After(BlockCall, CallId, AsPart, AnswerBlocks)
  BY PartOfBlock DEF After
<1>5. /\ Map(SaidText, parts) = Map(BlockText, content)
      /\ Map(Thought, parts) = Map(BlockThought, content)
      /\ Map(CallId, parts) = Map(BlockCall, content)
  BY <1>4, MapMap
<1> HIDE DEF parts
<1>6. Spoken("anthropic", body) =
        [text |-> FlattenSeq(Map(BlockText, content)), thinking |-> FlattenSeq(Map(BlockThought, content)),
         calls |-> FlattenSeq(Map(BlockCall, content))]
  BY AnthropicWords
<1> QED
  BY <1>1, <1>3, <1>5, <1>6 DEF PartsSpoken

-----------------------------------------------------------------------------
\* Responses: output items.

SaidTyped == [type : {"output_text", "refusal"}, text : WordSeq]
MessageTyped == [type : {"message"}, role : {"assistant"}, content : {<<b>> : b \in SaidTyped}]
CallTyped == [type : {"function_call"}, call_id : Nat, arguments : Arguments]
ReasoningTyped == [type : {"reasoning"}, summary : {<<w>> : w \in WordSeq}]
AnswerItems == MessageTyped \cup CallTyped \cup ReasoningTyped

ItemsWith(types) == [b \in AnswerItems |-> IF b.type \in types THEN <<b>> ELSE <<>>]
SummaryField == [b \in ReasoningTyped |-> b.summary[1]]
CallIdField == [b \in CallTyped |-> b.call_id]

ItemText == [b \in AnswerItems |-> IF b.type = "message" THEN b.content[1].text ELSE <<>>]
ItemThought == [b \in AnswerItems |-> IF b.type = "reasoning" THEN b.summary[1] ELSE <<>>]
ItemCall == [b \in AnswerItems |-> IF b.type = "function_call" THEN <<b.call_id>> ELSE <<>>]

\* The types of items that are read have their fields.
LEMMA ItemsApart ==
  ASSUME NEW b \in AnswerItems
  PROVE  /\ b.type = "message" => b \in MessageTyped
         /\ b.type = "function_call" => b \in CallTyped
         /\ b.type = "reasoning" => b \in ReasoningTyped
         /\ b.type \in {"message", "function_call", "reasoning"}
BY DEF AnswerItems, MessageTyped, CallTyped, ReasoningTyped

\* A message item of an answer has one block,
LEMMA OfMessage ==
  ASSUME NEW b \in MessageTyped
  PROVE  /\ b.content = <<b.content[1]>> /\ b.content[1] \in SaidTyped /\ b.content[1].text \in WordSeq
         /\ FlattenSeq([j \in DOMAIN b.content |-> b.content[j].text]) = b.content[1].text
<1>1. PICK c \in SaidTyped : b.content = <<c>>
  BY DEF MessageTyped
<1>2. b.content[1] = c /\ c.text \in WordSeq
  BY <1>1 DEF SaidTyped
<1>3. [j \in DOMAIN b.content |-> b.content[j].text] = <<c.text>>
  BY <1>1
<1> QED
  BY <1>1, <1>2, <1>3, FlattenOne DEF WordSeq

\* a reasoning item one summary.
LEMMA OfReasoning ==
  ASSUME NEW b \in ReasoningTyped
  PROVE  /\ b.summary = <<b.summary[1]>> /\ b.summary[1] \in WordSeq
         /\ FlattenSeq(b.summary) = b.summary[1]
<1>1. PICK w \in WordSeq : b.summary = <<w>>
  BY DEF ReasoningTyped
<1>2. b.summary[1] = w
  BY <1>1
<1> QED
  BY <1>1, <1>2, FlattenOne DEF WordSeq

\* The items of some types, from each item.
LEMMA OnlyThemItems ==
  ASSUME NEW output \in Seq(AnswerItems), NEW types
  PROVE  OnlyThese(output, types) = FlattenSeq(Map(ItemsWith(types), output))
<1>1. \A i \in DOMAIN output : output[i] \in AnswerItems
  BY MembersIn
<1>2. [i \in DOMAIN output |-> IF output[i].type \in types THEN <<output[i]>> ELSE <<>>]
        = Map(ItemsWith(types), output)
  BY <1>1 DEF Map, ItemsWith
<1> QED
  BY <1>2 DEF OnlyThese

\* The texts of a Responses output are those of its items,
LEMMA ResponsesTexts ==
  ASSUME NEW output \in Seq(AnswerItems)
  PROVE  [i \in DOMAIN output |->
            IF output[i].type = "message"
              THEN FlattenSeq([j \in DOMAIN output[i].content |-> output[i].content[j].text])
              ELSE <<>>] = Map(ItemText, output)
<1>1. \A i \in DOMAIN output : output[i] \in AnswerItems
  BY MembersIn
<1>2. \A b \in AnswerItems :
        ItemText[b] = IF b.type = "message"
                        THEN FlattenSeq([j \in DOMAIN b.content |-> b.content[j].text]) ELSE <<>>
  <2> TAKE b \in AnswerItems
  <2>1. CASE b.type = "message"
    BY <2>1, ItemsApart, OfMessage DEF ItemText
  <2>2. CASE b.type # "message"
    BY <2>2 DEF ItemText
  <2> QED
    BY <2>1, <2>2
<1> HIDE DEF ItemText
<1> QED
  BY <1>1, <1>2 DEF Map

\* so are the thoughts,
LEMMA ResponsesThoughts ==
  ASSUME NEW output \in Seq(AnswerItems), NEW thoughts, thoughts = OnlyThese(output, {"reasoning"})
  PROVE  FlattenSeq([i \in DOMAIN thoughts |-> FlattenSeq(thoughts[i].summary)])
           = FlattenSeq(Map(ItemThought, output))
<1> DEFINE only == ItemsWith({"reasoning"})
<1>1. thoughts = FlattenSeq(Map(only, output))
  BY OnlyThemItems
<1>2. Gives(only, AnswerItems, Seq(ReasoningTyped))
  <2> SUFFICES ASSUME NEW b \in AnswerItems PROVE only[b] \in Seq(ReasoningTyped)
    BY DEF Gives
  <2> QED
    BY ItemsApart DEF ItemsWith
<1>3. thoughts \in Seq(ReasoningTyped)
  <2> HIDE DEF only
  <2> QED
    BY <1>1, <1>2, FlattenMapType
<1>4. [i \in DOMAIN thoughts |-> FlattenSeq(thoughts[i].summary)] = Map(SummaryField, thoughts)
  <2>1. \A i \in DOMAIN thoughts : thoughts[i] \in ReasoningTyped
    BY <1>3, MembersIn
  <2>2. \A b \in ReasoningTyped : FlattenSeq(b.summary) = SummaryField[b]
    BY OfReasoning DEF SummaryField
  <2> QED
    BY <2>1, <2>2 DEF Map
<1>5. \A b \in AnswerItems : ItemThought[b] = FlattenSeq(Map(SummaryField, only[b]))
  <2> TAKE b \in AnswerItems
  <2>1. CASE b.type = "reasoning"
    <3>1. b \in ReasoningTyped /\ b.summary[1] \in Seq(Nat)
      BY <2>1, ItemsApart, OfReasoning DEF WordSeq
    <3>2. only[b] = <<b>> /\ ItemThought[b] = b.summary[1] /\ SummaryField[b] = b.summary[1]
      BY <2>1, <3>1 DEF ItemsWith, ItemThought, SummaryField
    <3> HIDE DEF only
    <3> QED
      BY <3>1, <3>2, MapOne, FlattenOne
  <2>2. CASE b.type # "reasoning"
    <3>1. only[b] = <<>> /\ ItemThought[b] = <<>>
      BY <2>2 DEF ItemsWith, ItemThought
    <3> HIDE DEF only
    <3> QED
      BY <3>1, MapEmpty, FlattenEmpty
  <2> QED
    BY <2>1, <2>2
<1>6. Gives(SummaryField, ReasoningTyped, Seq(Nat))
  BY OfReasoning DEF Gives, SummaryField, WordSeq
<1>7. FlattenSeq(Map(SummaryField, FlattenSeq(Map(only, output)))) = FlattenSeq(Map(ItemThought, output))
  <2> HIDE DEF only
  <2>1. Chained(ItemThought, only, SummaryField, AnswerItems)
    BY <1>5 DEF Chained
  <2> QED
    BY <1>2, <1>6, <2>1, FlattenTwice
<1> QED
  BY <1>1, <1>4, <1>7

\* so are the calls,
LEMMA ResponsesCalls ==
  ASSUME NEW output \in Seq(AnswerItems), NEW uses, uses = OnlyThese(output, {"function_call"})
  PROVE  [i \in DOMAIN uses |-> uses[i].call_id] = FlattenSeq(Map(ItemCall, output))
<1> DEFINE only == ItemsWith({"function_call"})
<1>1. uses = FlattenSeq(Map(only, output))
  BY OnlyThemItems
<1>2. Gives(only, AnswerItems, Seq(CallTyped))
  <2> SUFFICES ASSUME NEW b \in AnswerItems PROVE only[b] \in Seq(CallTyped)
    BY DEF Gives
  <2> QED
    BY ItemsApart DEF ItemsWith
<1>3. uses \in Seq(CallTyped)
  <2> HIDE DEF only
  <2> QED
    BY <1>1, <1>2, FlattenMapType
<1>4. [i \in DOMAIN uses |-> uses[i].call_id] = Map(CallIdField, uses)
  <2>1. \A i \in DOMAIN uses : uses[i] \in CallTyped
    BY <1>3, MembersIn
  <2> QED
    BY <2>1 DEF Map, CallIdField
<1>5. \A b \in AnswerItems : ItemCall[b] = Map(CallIdField, only[b])
  <2> TAKE b \in AnswerItems
  <2>1. CASE b.type = "function_call"
    <3>1. b \in CallTyped
      BY <2>1, ItemsApart
    <3>2. only[b] = <<b>> /\ ItemCall[b] = <<b.call_id>> /\ CallIdField[b] = b.call_id
      BY <2>1, <3>1 DEF ItemsWith, ItemCall, CallIdField
    <3> HIDE DEF only
    <3> QED
      BY <3>2, MapOne
  <2>2. CASE b.type # "function_call"
    <3>1. only[b] = <<>> /\ ItemCall[b] = <<>>
      BY <2>2 DEF ItemsWith, ItemCall
    <3> HIDE DEF only
    <3> QED
      BY <3>1, MapEmpty
  <2> QED
    BY <2>1, <2>2
<1>6. Map(CallIdField, FlattenSeq(Map(only, output))) = FlattenSeq(Map(ItemCall, output))
  <2> HIDE DEF only
  <2>1. Listed(ItemCall, only, CallIdField, AnswerItems)
    BY <1>5 DEF Listed
  <2> QED
    BY <1>2, <2>1, MapFlatten
<1> QED
  BY <1>1, <1>4, <1>6

\* and so is all that the answer says.
LEMMA ResponsesWords ==
  ASSUME NEW body, body.output \in Seq(AnswerItems)
  PROVE  Spoken("responses", body) =
    [text |-> FlattenSeq(Map(ItemText, body.output)),
     thinking |-> FlattenSeq(Map(ItemThought, body.output)),
     calls |-> FlattenSeq(Map(ItemCall, body.output))]
<1> DEFINE output == body.output
           thoughts == OnlyThese(body.output, {"reasoning"})
           uses == OnlyThese(body.output, {"function_call"})
           texts == [i \in DOMAIN body.output |->
                IF body.output[i].type = "message"
                  THEN FlattenSeq([j \in DOMAIN body.output[i].content |-> body.output[i].content[j].text])
                  ELSE <<>>]
<1> HIDE DEF thoughts, uses
<1>1. Spoken("responses", body) =
        [text |-> FlattenSeq(texts),
         thinking |-> FlattenSeq([i \in DOMAIN thoughts |-> FlattenSeq(thoughts[i].summary)]),
         calls |-> [i \in DOMAIN uses |-> uses[i].call_id]]
  BY SpokenResponses DEF thoughts, uses
<1>2. texts = Map(ItemText, body.output)
  BY ResponsesTexts
<1>3. FlattenSeq([i \in DOMAIN thoughts |-> FlattenSeq(thoughts[i].summary)])
        = FlattenSeq(Map(ItemThought, body.output))
  BY ResponsesThoughts DEF thoughts
<1>4. [i \in DOMAIN uses |-> uses[i].call_id] = FlattenSeq(Map(ItemCall, body.output))
  BY ResponsesCalls DEF uses
<1> HIDE DEF texts
<1> QED
  BY <1>1, <1>2, <1>3, <1>4

AsItem == [p \in AnswerParts |-> ResponsesItem(p)]

\* The item that a part is written as says the same.
LEMMA ItemOfPart ==
  ASSUME NEW p \in AnswerParts
  PROVE  /\ AsItem[p] \in AnswerItems
         /\ SaidText[p] = ItemText[AsItem[p]]
         /\ Thought[p] = ItemThought[AsItem[p]]
         /\ CallId[p] = ItemCall[AsItem[p]]
<1> DEFINE b == ResponsesItem(p)
<1>1. AsItem[p] = b
  BY DEF AsItem
<1>2. CASE p.kind = "tool"
  <2>1. p.id \in Nat /\ p.arguments \in Arguments
    BY <1>2, PartsApart
  <2>2. b = [type |-> "function_call", call_id |-> p.id, arguments |-> p.arguments]
    BY <1>2 DEF ResponsesItem, CallItem
  <2>3. b \in CallTyped /\ b.type = "function_call" /\ b.call_id = p.id
    BY <2>1, <2>2 DEF CallTyped
  <2> HIDE DEF b
  <2>4. b \in AnswerItems
    BY <2>3 DEF AnswerItems
  <2>5. ItemText[b] = <<>> /\ ItemThought[b] = <<>> /\ ItemCall[b] = <<p.id>>
    BY <2>3, <2>4 DEF ItemText, ItemThought, ItemCall
  <2>6. SaidText[p] = <<>> /\ Thought[p] = <<>> /\ CallId[p] = <<p.id>>
    BY <1>2 DEF SaidText, Thought, CallId, TextOf, ThoughtOf, IdOf
  <2> QED
    BY <1>1, <2>4, <2>5, <2>6
<1>3. CASE p.kind = "thinking"
  <2>1. p.text \in WordSeq
    BY <1>3, PartsApart
  <2>2. b = [type |-> "reasoning", summary |-> <<p.text>>]
    BY <1>3 DEF ResponsesItem, ReasoningItem
  <2>3. b \in ReasoningTyped /\ b.type = "reasoning" /\ b.summary[1] = p.text
    BY <2>1, <2>2 DEF ReasoningTyped
  <2> HIDE DEF b
  <2>4. b \in AnswerItems
    BY <2>3 DEF AnswerItems
  <2>5. ItemText[b] = <<>> /\ ItemThought[b] = p.text /\ ItemCall[b] = <<>>
    BY <2>3, <2>4 DEF ItemText, ItemThought, ItemCall
  <2>6. SaidText[p] = <<>> /\ Thought[p] = p.text /\ CallId[p] = <<>>
    BY <1>3 DEF SaidText, Thought, CallId, TextOf, ThoughtOf, IdOf
  <2> QED
    BY <1>1, <2>4, <2>5, <2>6
<1>4. CASE p.kind \in {"text", "refusal"}
  <2>1. p.text \in WordSeq
    BY <1>4, PartsApart
  <2> DEFINE c == TextBlock(IF p.kind = "refusal" THEN "refusal" ELSE "output_text", p.text)
  <2>2. b = [type |-> "message", role |-> "assistant", content |-> <<c>>]
    BY <1>4 DEF ResponsesItem, MessageItem
  <2>3. c \in SaidTyped /\ c.text = p.text
    BY <2>1 DEF SaidTyped, TextBlock
  <2> HIDE DEF c
  <2>4. b \in MessageTyped /\ b.type = "message" /\ b.content[1].text = p.text
    BY <2>2, <2>3 DEF MessageTyped
  <2> HIDE DEF b
  <2>5. b \in AnswerItems
    BY <2>4 DEF AnswerItems
  <2>6. ItemText[b] = p.text /\ ItemThought[b] = <<>> /\ ItemCall[b] = <<>>
    BY <2>4, <2>5 DEF ItemText, ItemThought, ItemCall
  <2>7. SaidText[p] = p.text /\ Thought[p] = <<>> /\ CallId[p] = <<>>
    BY <1>4 DEF SaidText, Thought, CallId, TextOf, ThoughtOf, IdOf
  <2> QED
    BY <1>1, <2>5, <2>6, <2>7
<1> QED
  BY <1>2, <1>3, <1>4, PartsApart

\* What is written for a Responses client says what the parts say.
LEMMA SpokenInResponses ==
  ASSUME NEW parts \in Seq(AnswerParts), NEW stop, NEW usage
  PROVE  Spoken("responses", EncodeCompletion("responses", parts, stop, usage)) = PartsSpoken(parts)
<1> DEFINE body == EncodeCompletion("responses", parts, stop, usage)
           output == Map(AsItem, parts)
<1>1. body.output = output
  <2>1. body.output = [i \in DOMAIN parts |-> ResponsesItem(parts[i])]
    BY EncodedResponses
  <2>2. \A i \in DOMAIN parts : parts[i] \in AnswerParts
    BY MembersIn
  <2> HIDE DEF body
  <2> QED
    BY <2>1, <2>2 DEF Map, AsItem
<1>2. Gives(AsItem, AnswerParts, AnswerItems)
  BY ItemOfPart DEF Gives
<1>3. output \in Seq(AnswerItems)
  BY <1>2, MapType
<1>4. /\ After(SaidText, ItemText, AsItem, AnswerParts)
      /\ After(Thought, ItemThought, AsItem, AnswerParts)
      /\ After(CallId, ItemCall, AsItem, AnswerParts)
  BY ItemOfPart DEF After
<1>5. /\ Map(ItemText, output) = Map(SaidText, parts)
      /\ Map(ItemThought, output) = Map(Thought, parts)
      /\ Map(ItemCall, output) = Map(CallId, parts)
  BY <1>4, MapMap
<1> HIDE DEF body, output
<1>6. Spoken("responses", body) =
        [text |-> FlattenSeq(Map(ItemText, output)), thinking |-> FlattenSeq(Map(ItemThought, output)),
         calls |-> FlattenSeq(Map(ItemCall, output))]
  BY <1>1, <1>3, ResponsesWords
<1> QED
  BY <1>5, <1>6 DEF PartsSpoken, body

ItemPart == [b \in AnswerItems |-> OutputParts(b)[1]]

\* The part that an item is read as says the same.
LEMMA PartOfItem ==
  ASSUME NEW b \in AnswerItems
  PROVE  /\ ItemPart[b] \in AnswerParts
         /\ OutputParts(b) = <<ItemPart[b]>>
         /\ ItemText[b] = SaidText[ItemPart[b]]
         /\ ItemThought[b] = Thought[ItemPart[b]]
         /\ ItemCall[b] = CallId[ItemPart[b]]
<1> DEFINE p == OutputParts(b)[1]
<1>1. ItemPart[b] = p
  BY DEF ItemPart
<1>2. CASE b.type = "function_call"
  <2>1. b.call_id \in Nat /\ b.arguments \in Arguments
    BY <1>2, ItemsApart DEF CallTyped
  <2>2. OutputParts(b) = <<[kind |-> "tool", id |-> b.call_id, arguments |-> b.arguments]>>
    BY <1>2 DEF OutputParts, Tool
  <2>3. p \in ToolParted /\ p.kind = "tool" /\ p.id = b.call_id /\ OutputParts(b) = <<p>>
    BY <2>1, <2>2 DEF ToolParted
  <2> HIDE DEF p
  <2>4. p \in AnswerParts
    BY <2>3 DEF AnswerParts
  <2>5. ItemText[b] = <<>> /\ ItemThought[b] = <<>> /\ ItemCall[b] = <<b.call_id>>
    BY <1>2 DEF ItemText, ItemThought, ItemCall
  <2>6. SaidText[p] = <<>> /\ Thought[p] = <<>> /\ CallId[p] = <<b.call_id>>
    BY <2>3, <2>4 DEF SaidText, Thought, CallId, TextOf, ThoughtOf, IdOf
  <2> QED
    BY <1>1, <2>3, <2>4, <2>5, <2>6
<1>3. CASE b.type = "reasoning"
  <2> DEFINE w == b.summary[1]
  <2>1. b.summary = <<w>> /\ w \in WordSeq
    BY <1>3, ItemsApart, OfReasoning
  <2> HIDE DEF w
  <2>2. OutputParts(b) = <<[kind |-> "thinking", text |-> w]>>
    BY <1>3, <2>1 DEF OutputParts, Summaries, Thinking
  <2>3. p \in TextParted /\ p.kind = "thinking" /\ p.text = w /\ OutputParts(b) = <<p>>
    BY <2>1, <2>2 DEF TextParted
  <2> HIDE DEF p
  <2>4. p \in AnswerParts
    BY <2>3 DEF AnswerParts
  <2>5. ItemText[b] = <<>> /\ ItemThought[b] = w /\ ItemCall[b] = <<>>
    BY <1>3 DEF ItemText, ItemThought, ItemCall, w
  <2>6. SaidText[p] = <<>> /\ Thought[p] = w /\ CallId[p] = <<>>
    BY <2>3, <2>4 DEF SaidText, Thought, CallId, TextOf, ThoughtOf, IdOf
  <2> QED
    BY <1>1, <2>3, <2>4, <2>5, <2>6
<1>4. CASE b.type = "message"
  <2> DEFINE c == b.content[1]
  <2>1. b.content = <<c>> /\ c \in SaidTyped
    BY <1>4, ItemsApart, OfMessage
  <2> HIDE DEF c
  <2>2. c.text \in WordSeq /\ c.type \in {"output_text", "refusal"}
    BY <2>1 DEF SaidTyped
  <2> DEFINE q == Part(c)
  <2>3. q = [kind |-> IF c.type = "refusal" THEN "refusal" ELSE "text", text |-> c.text]
    BY <2>2 DEF Part, PlainPart, Text, Refusal
  <2>4. q \in TextParted /\ q.kind \in {"text", "refusal"} /\ q.text = c.text
    BY <2>2, <2>3 DEF TextParted
  <2>5. OutputParts(b) = <<q>>
    BY <1>4, <2>1 DEF OutputParts, Parts
  <2>6. p = q
    BY <2>5
  <2> HIDE DEF p, q
  <2>7. q \in AnswerParts
    BY <2>4 DEF AnswerParts
  <2>8. ItemText[b] = c.text /\ ItemThought[b] = <<>> /\ ItemCall[b] = <<>>
    BY <1>4 DEF ItemText, ItemThought, ItemCall, c
  <2>9. SaidText[q] = c.text /\ Thought[q] = <<>> /\ CallId[q] = <<>>
    BY <2>4, <2>7 DEF SaidText, Thought, CallId, TextOf, ThoughtOf, IdOf
  <2> QED
    BY <1>1, <2>5, <2>6, <2>7, <2>8, <2>9
<1> QED
  BY <1>2, <1>3, <1>4, ItemsApart

\* The parts that a Responses answer is read as say what it says.
LEMMA ReadFromResponses ==
  ASSUME NEW body, body.output \in Seq(AnswerItems), body.output = <<>> => body.output_text = <<>>
  PROVE  /\ ReplyParts("responses", body) \in Seq(AnswerParts)
         /\ PartsSpoken(ReplyParts("responses", body)) = Spoken("responses", body)
<1> DEFINE output == body.output
           parts == Map(ItemPart, output)
           each == [b \in AnswerItems |-> OutputParts(b)]
<1>1. Gives(ItemPart, AnswerItems, AnswerParts)
  BY PartOfItem DEF Gives
<1>2. parts \in Seq(AnswerParts)
  BY <1>1, MapType
<1>3. FlattenEach(OutputParts, output) = parts
  <2>1. \A i \in DOMAIN output : output[i] \in AnswerItems
    BY MembersIn
  <2>2. [i \in DOMAIN output |-> OutputParts(output[i])] = Map(each, output)
    BY <2>1 DEF Map
  <2>3. Alone(each, ItemPart, AnswerItems)
    BY PartOfItem DEF Alone
  <2> HIDE DEF each
  <2>4. FlattenSeq(Map(each, output)) = parts
    BY <2>3, FlattenSingles
  <2> HIDE DEF parts
  <2> QED
    BY <2>2, <2>4 DEF FlattenEach
<1>4. parts = <<>> => body.output_text = <<>>
  <2>1. Len(parts) = Len(output)
    BY MapAt
  <2> HIDE DEF parts
  <2>2. parts = <<>> => Len(output) = 0
    BY <2>1
  <2> QED
    BY <2>2, EmptySeq
<1> HIDE DEF each
<1>5. ReplyParts("responses", body) = parts
  <2> HIDE DEF parts
  <2> QED
    BY <1>3, <1>4 DEF ReplyParts
<1>6. /\ After(ItemText, SaidText, ItemPart, AnswerItems)
      /\ After(ItemThought, Thought, ItemPart, AnswerItems)
      /\ After(ItemCall, CallId, ItemPart, AnswerItems)
  BY PartOfItem DEF After
<1>7. /\ Map(SaidText, parts) = Map(ItemText, output)
      /\ Map(Thought, parts) = Map(ItemThought, output)
      /\ Map(CallId, parts) = Map(ItemCall, output)
  BY <1>6, MapMap
<1> HIDE DEF parts
<1>8. Spoken("responses", body) =
        [text |-> FlattenSeq(Map(ItemText, output)), thinking |-> FlattenSeq(Map(ItemThought, output)),
         calls |-> FlattenSeq(Map(ItemCall, output))]
  BY ResponsesWords
<1> QED
  BY <1>2, <1>5, <1>7, <1>8 DEF PartsSpoken

CallParted == [id : Nat, arguments : Arguments]

ChatTyped(body) ==
  /\ \E t \in WordSeq : body.content = <<>> \/ body.content = <<TextBlock("text", t)>>
  /\ body.refusal \in WordSeq /\ body.reasoning_content \in WordSeq
  /\ body.tool_calls \in Seq(CallParted)

\* The parts that a Chat answer is read as say what it says.
LEMMA ReadFromChat ==
  ASSUME NEW body, ChatTyped(body)
  PROVE  /\ ReplyParts("chat", body) \in Seq(AnswerParts)
         /\ PartsSpoken(ReplyParts("chat", body)) = Spoken("chat", body)
<1> DEFINE a == ThinkingOf(body.reasoning_content)
           b == Parts(body.content)
           c == RefusalOf(body.refusal)
           d == ToolsOf(body.tool_calls)
           think == body.reasoning_content
           text == FlattenSeq([i \in DOMAIN body.content |-> body.content[i].text])
           ids == [i \in DOMAIN body.tool_calls |-> body.tool_calls[i].id]
<1>1. PICK t \in WordSeq : body.content = <<>> \/ body.content = <<TextBlock("text", t)>>
  BY DEF ChatTyped
<1>2. think \in WordSeq /\ body.refusal \in WordSeq /\ body.tool_calls \in Seq(CallParted)
  BY DEF ChatTyped
<1>3. ReplyParts("chat", body) = Four(a, b, c, d)
  BY DEF ReplyParts, Four
<1>4. /\ a \in Seq(AnswerParts) /\ FlattenSeq(Map(SaidText, a)) = <<>>
      /\ FlattenSeq(Map(Thought, a)) = think /\ FlattenSeq(Map(CallId, a)) = <<>>
  <2>1. CASE think = <<>>
    <3>1. a = <<>>
      BY <2>1 DEF ThinkingOf
    <3> HIDE DEF a
    <3> QED
      BY <2>1, <3>1, MapEmpty, FlattenEmpty, EmptySeq
  <2>2. CASE think # <<>>
    <3> DEFINE p == Thinking(think)
    <3>1. a = <<p>>
      BY <2>2 DEF ThinkingOf
    <3>2. p \in AnswerParts /\ p.kind = "thinking" /\ p.text = think
      BY <1>2 DEF Thinking, AnswerParts, TextParted
    <3> HIDE DEF a, p
    <3>3. SaidText[p] = <<>> /\ Thought[p] = think /\ CallId[p] = <<>>
      BY <3>2 DEF SaidText, Thought, CallId, TextOf, ThoughtOf, IdOf
    <3>4. FlattenSeq(<<think>>) = think /\ FlattenSeq(<< <<>> >>) = <<>>
      BY <1>2, FlattenOne, EmptySeq DEF WordSeq
    <3>5. Map(SaidText, a) = << <<>> >> /\ Map(Thought, a) = <<think>> /\ Map(CallId, a) = << <<>> >>
      BY <3>1, <3>3, MapOne
    <3>6. a \in Seq(AnswerParts)
      BY <3>1, <3>2
    <3> QED
      BY <3>4, <3>5, <3>6
  <2> QED
    BY <2>1, <2>2
<1>5. /\ b \in Seq(AnswerParts) /\ FlattenSeq(Map(SaidText, b)) = text
      /\ FlattenSeq(Map(Thought, b)) = <<>> /\ FlattenSeq(Map(CallId, b)) = <<>>
      /\ text \in WordSeq
  <2>1. CASE body.content = <<>>
    <3>1. b = <<>>
      BY <2>1 DEF Parts
    <3>2. text = <<>>
      <4>1. [i \in DOMAIN <<>> |-> <<>>[i].text] = <<>>
        OBVIOUS
      <4> QED
        BY <2>1, <4>1, FlattenEmpty
    <3> HIDE DEF b, text
    <3> QED
      BY <3>1, <3>2, MapEmpty, FlattenEmpty, EmptySeq DEF WordSeq
  <2>2. CASE body.content = <<TextBlock("text", t)>>
    <3> DEFINE p == Text(t)
    <3>1. b = <<p>>
      BY <2>2 DEF Parts, Part, PlainPart, TextBlock
    <3>2. p \in AnswerParts /\ p.kind = "text" /\ p.text = t
      BY <1>1 DEF Text, AnswerParts, TextParted
    <3>3. text = t
      <4>1. [i \in DOMAIN body.content |-> body.content[i].text] = <<t>>
        BY <2>2 DEF TextBlock
      <4> QED
        BY <1>1, <4>1, FlattenOne DEF WordSeq
    <3> HIDE DEF b, p, text
    <3>4. SaidText[p] = t /\ Thought[p] = <<>> /\ CallId[p] = <<>>
      BY <3>2 DEF SaidText, Thought, CallId, TextOf, ThoughtOf, IdOf
    <3>5. FlattenSeq(<<t>>) = t /\ FlattenSeq(<< <<>> >>) = <<>>
      BY <1>1, FlattenOne, EmptySeq DEF WordSeq
    <3>6. Map(SaidText, b) = <<t>> /\ Map(Thought, b) = << <<>> >> /\ Map(CallId, b) = << <<>> >>
      BY <3>1, <3>4, MapOne
    <3>7. b \in Seq(AnswerParts)
      BY <3>1, <3>2
    <3> QED
      BY <1>1, <3>3, <3>5, <3>6, <3>7
  <2> QED
    BY <1>1, <2>1, <2>2
<1>6. /\ c \in Seq(AnswerParts) /\ FlattenSeq(Map(SaidText, c)) = body.refusal
      /\ FlattenSeq(Map(Thought, c)) = <<>> /\ FlattenSeq(Map(CallId, c)) = <<>>
  <2>1. CASE body.refusal = <<>>
    <3>1. c = <<>>
      BY <2>1 DEF RefusalOf
    <3> HIDE DEF c
    <3> QED
      BY <2>1, <3>1, MapEmpty, FlattenEmpty, EmptySeq
  <2>2. CASE body.refusal # <<>>
    <3> DEFINE p == Refusal(body.refusal)
    <3>1. c = <<p>>
      BY <2>2 DEF RefusalOf
    <3>2. p \in AnswerParts /\ p.kind = "refusal" /\ p.text = body.refusal
      BY <1>2 DEF Refusal, AnswerParts, TextParted
    <3> HIDE DEF c, p
    <3>3. SaidText[p] = body.refusal /\ Thought[p] = <<>> /\ CallId[p] = <<>>
      BY <3>2 DEF SaidText, Thought, CallId, TextOf, ThoughtOf, IdOf
    <3>4. FlattenSeq(<<body.refusal>>) = body.refusal /\ FlattenSeq(<< <<>> >>) = <<>>
      BY <1>2, FlattenOne, EmptySeq DEF WordSeq
    <3>5. Map(SaidText, c) = <<body.refusal>> /\ Map(Thought, c) = << <<>> >> /\ Map(CallId, c) = << <<>> >>
      BY <3>1, <3>3, MapOne
    <3>6. c \in Seq(AnswerParts)
      BY <3>1, <3>2
    <3> QED
      BY <3>4, <3>5, <3>6
  <2> QED
    BY <2>1, <2>2
<1>7. /\ d \in Seq(AnswerParts) /\ FlattenSeq(Map(SaidText, d)) = <<>>
      /\ FlattenSeq(Map(Thought, d)) = <<>> /\ FlattenSeq(Map(CallId, d)) = ids
  <2> DEFINE tool == [k \in CallParted |-> Tool(k.id, k.arguments)]
             id == [k \in CallParted |-> k.id]
             mute == [k \in CallParted |-> <<>>]
             one == [k \in CallParted |-> <<k.id>>]
  <2>1. \A i \in DOMAIN body.tool_calls : body.tool_calls[i] \in CallParted
    BY <1>2, MembersIn
  <2>2. d = Map(tool, body.tool_calls) /\ ids = Map(id, body.tool_calls)
    BY <2>1 DEF ToolsOf, Map
  <2>3. \A k \in CallParted : /\ tool[k] \in AnswerParts /\ SaidText[tool[k]] = <<>>
                              /\ Thought[tool[k]] = <<>> /\ CallId[tool[k]] = <<k.id>>
    <3> TAKE k \in CallParted
    <3> DEFINE p == tool[k]
    <3>1. p = [kind |-> "tool", id |-> k.id, arguments |-> k.arguments]
      BY DEF Tool
    <3>2. p \in ToolParted /\ p.kind = "tool" /\ p.id = k.id
      BY <3>1 DEF ToolParted, CallParted
    <3> HIDE DEF p, tool
    <3>3. p \in AnswerParts
      BY <3>2 DEF AnswerParts
    <3>4. SaidText[p] = <<>> /\ Thought[p] = <<>> /\ CallId[p] = <<k.id>>
      BY <3>2, <3>3 DEF SaidText, Thought, CallId, TextOf, ThoughtOf, IdOf
    <3> QED
      BY <3>3, <3>4 DEF p
  <2>4. Gives(tool, CallParted, AnswerParts)
    BY <2>3 DEF Gives
  <2>5. /\ After(mute, SaidText, tool, CallParted) /\ After(mute, Thought, tool, CallParted)
        /\ After(one, CallId, tool, CallParted)
    <3> HIDE DEF tool
    <3> QED
      BY <2>3 DEF After
  <2>6. Silent(mute, CallParted) /\ Alone(one, id, CallParted)
    BY DEF Silent, Alone
  <2> HIDE DEF tool, mute, one, id, d, ids
  <2>7. d \in Seq(AnswerParts)
    BY <1>2, <2>2, <2>4, MapType
  <2>8. /\ Map(SaidText, d) = Map(mute, body.tool_calls) /\ Map(Thought, d) = Map(mute, body.tool_calls)
        /\ Map(CallId, d) = Map(one, body.tool_calls)
    BY <1>2, <2>2, <2>5, MapMap
  <2>9. FlattenSeq(Map(mute, body.tool_calls)) = <<>>
    BY <1>2, <2>6, FlattenNothing
  <2>10. FlattenSeq(Map(one, body.tool_calls)) = ids
    BY <1>2, <2>2, <2>6, FlattenSingles
  <2> QED
    BY <2>7, <2>8, <2>9, <2>10
<1> HIDE DEF a, b, c, d, text, ids
<1>8. Gives(SaidText, AnswerParts, Seq(Nat)) /\ Gives(Thought, AnswerParts, Seq(Nat)) /\ Gives(CallId, AnswerParts, Seq(Nat))
  BY PartFunctions DEF Gives, WordSeq
<1>9. /\ FlattenSeq(Map(SaidText, Four(a, b, c, d))) = Four(<<>>, text, body.refusal, <<>>)
      /\ FlattenSeq(Map(Thought, Four(a, b, c, d))) = Four(think, <<>>, <<>>, <<>>)
      /\ FlattenSeq(Map(CallId, Four(a, b, c, d))) = Four(<<>>, <<>>, <<>>, ids)
  BY <1>4, <1>5, <1>6, <1>7, <1>8, FlattenFour
<1>10. ids \in Seq(Nat)
  <2>1. \A i \in DOMAIN body.tool_calls : body.tool_calls[i].id \in Nat
    <3>1. \A i \in DOMAIN body.tool_calls : body.tool_calls[i] \in CallParted
      BY <1>2, MembersIn
    <3> QED
      BY <3>1 DEF CallParted
  <2>2. Len(body.tool_calls) \in Nat /\ DOMAIN body.tool_calls = 1 .. Len(body.tool_calls)
    BY <1>2, LenProperties
  <2> QED
    BY <2>1, <2>2 DEF ids
<1>11. /\ Four(<<>>, text, body.refusal, <<>>) = text \o body.refusal
       /\ Four(think, <<>>, <<>>, <<>>) = think
       /\ Four(<<>>, <<>>, <<>>, ids) = ids
  <2>1. ASSUME NEW x \in Seq(Nat) PROVE x \o <<>> = x /\ <<>> \o x = x
    BY ConcatEmptySeq
  <2>2. text \o body.refusal \in Seq(Nat) /\ <<>> \in Seq(Nat)
    BY <1>2, <1>5, ConcatProperties, EmptySeq DEF WordSeq
  <2> HIDE DEF think
  <2>3. think \in Seq(Nat) /\ text \in Seq(Nat)
    BY <1>2, <1>5 DEF WordSeq, think
  <2> QED
    BY <1>10, <2>1, <2>2, <2>3 DEF Four
<1>12. Four(a, b, c, d) \in Seq(AnswerParts)
  <2>1. a \o b \in Seq(AnswerParts)
    BY <1>4, <1>5, ConcatProperties
  <2>2. a \o b \o c \in Seq(AnswerParts)
    BY <1>6, <2>1, ConcatProperties
  <2> QED
    BY <1>7, <2>2, ConcatProperties DEF Four
<1>13. Spoken("chat", body) = [text |-> text \o body.refusal, thinking |-> think, calls |-> ids]
  BY SpokenChat DEF text, ids
<1> QED
  BY <1>3, <1>9, <1>11, <1>12, <1>13 DEF PartsSpoken

-----------------------------------------------------------------------------
\* The answers of providers.

AnswerUsage(p, all) == IF p = "anthropic" THEN all ELSE [all EXCEPT !.input = @ + all.cached, !.creation = 0]

Words(shape, kind) ==
  FlattenSeq([i \in DOMAIN shape |-> IF shape[i] = kind THEN <<words + i>> ELSE <<>>])
Given(kind) == CASE kind = "bare" -> None [] kind = "broken" -> kind [] OTHER -> "object"
CallsMade(shape) ==
  FlattenSeq([i \in DOMAIN shape |->
    IF shape[i] \in ToolKinds THEN <<Call(words + i, Given(shape[i]))>> ELSE <<>>])

HasTools(shape) == ToSet(shape) \cap ToolKinds # {}

\* The fields of a Chat answer
LEMMA AnswerChat ==
  ASSUME NEW shape, NEW end, NEW all, NEW body, body = Answers("chat", shape, end, all)
  PROVE  /\ body.content = IF "text" \in ToSet(shape) THEN <<TextBlock("text", Words(shape, "text"))>> ELSE <<>>
         /\ body.refusal = Words(shape, "refusal")
         /\ body.reasoning_content = Words(shape, "thinking")
         /\ body.tool_calls = CallsMade(shape)
         /\ body.usage = AnswerUsage("chat", all)
         /\ body.failed = (end = "failed")
BY DEF Answers, ChatReply, Words, CallsMade, Given, AnswerUsage

\* and its stop reason.
LEMMA StopChat ==
  ASSUME NEW shape, NEW end \in {"done", "limit", "filter", "failed"}, NEW all,
         NEW body, body = Answers("chat", shape, end, all)
  PROVE  body.finish_reason =
           CASE end = "limit" -> "length"
             [] end = "filter" -> "content_filter"
             [] OTHER -> IF HasTools(shape) THEN "tool_calls" ELSE "stop"
<1>1. CASE end = "limit"
  BY <1>1 DEF Answers, ChatReply, HasTools
<1>2. CASE end = "filter"
  BY <1>2 DEF Answers, ChatReply, HasTools
<1>3. CASE end = "done"
  BY <1>3 DEF Answers, ChatReply, HasTools
<1>4. CASE end = "failed"
  BY <1>4 DEF Answers, ChatReply, HasTools
<1> QED
  BY <1>1, <1>2, <1>3, <1>4

AnthropicWrites(kind, word) ==
  CASE kind = "thinking" -> ThinkingBlock(<<word>>, "signed")
    [] kind \in ToolKinds -> ToolUse(word, "object")
    [] kind = "opaque" -> TextBlock("redacted_thinking", <<word>>)
    [] OTHER -> TextBlock("text", <<word>>)

ResponsesWrites(kind, word) ==
  CASE kind = "thinking" -> ReasoningItem(<< <<word>> >>)
    [] kind \in ToolKinds -> CallItem(word, Given(kind))
    [] kind = "opaque" -> TextBlock("web_search_call", <<word>>)
    [] OTHER -> MessageItem("assistant",
                  <<TextBlock(IF kind = "refusal" THEN kind ELSE "output_text", <<word>>)>>)

\* The fields of an Anthropic answer
LEMMA AnswerAnthropic ==
  ASSUME NEW shape, NEW end, NEW all, NEW body, body = Answers("anthropic", shape, end, all)
  PROVE  /\ body.content = [i \in DOMAIN shape |-> AnthropicWrites(shape[i], words + i)]
         /\ body.usage = AnswerUsage("anthropic", all)
         /\ body.failed = (end = "failed")
BY DEF Answers, AnthropicReply, AnthropicWrites, AnswerUsage

\* and its stop reason.
LEMMA StopAnthropic ==
  ASSUME NEW shape, NEW end \in {"done", "limit", "filter", "sequence", "failed"}, NEW all,
         NEW body, body = Answers("anthropic", shape, end, all)
  PROVE  body.stop_reason =
           CASE end = "limit" -> "max_tokens"
             [] end = "filter" -> "refusal"
             [] end = "sequence" -> "stop_sequence"
             [] OTHER -> IF HasTools(shape) THEN "tool_use" ELSE "end_turn"
<1>1. CASE end = "limit"
  BY <1>1 DEF Answers, AnthropicReply, HasTools
<1>2. CASE end = "filter"
  BY <1>2 DEF Answers, AnthropicReply, HasTools
<1>3. CASE end = "done"
  BY <1>3 DEF Answers, AnthropicReply, HasTools
<1>4. CASE end = "failed"
  BY <1>4 DEF Answers, AnthropicReply, HasTools
<1>5. CASE end = "sequence"
  BY <1>5 DEF Answers, AnthropicReply, HasTools
<1> QED
  BY <1>1, <1>2, <1>3, <1>4, <1>5

\* The fields of a Responses answer
LEMMA AnswerResponses ==
  ASSUME NEW shape, NEW end, NEW all, NEW body, body = Answers("responses", shape, end, all)
  PROVE  /\ body.output = [i \in DOMAIN shape |-> ResponsesWrites(shape[i], words + i)]
         /\ body.output_text = Words(shape, "text")
         /\ body.usage = AnswerUsage("responses", all)
         /\ body.failed = (end = "failed")
BY DEF Answers, ResponsesReply, ResponsesWrites, AnswerUsage, Words, Given

\* and its stop reason.
LEMMA StopResponses ==
  ASSUME NEW shape, NEW end \in {"done", "limit", "filter", "failed"}, NEW all,
         NEW body, body = Answers("responses", shape, end, all)
  PROVE  body.reason =
           CASE end = "limit" -> "max_output_tokens"
             [] end = "filter" -> "content_filter"
             [] OTHER -> None
<1>1. CASE end = "limit"
  BY <1>1 DEF Answers, ResponsesReply
<1>2. CASE end = "filter"
  BY <1>2 DEF Answers, ResponsesReply
<1>3. CASE end = "done"
  BY <1>3 DEF Answers, ResponsesReply
<1>4. CASE end = "failed"
  BY <1>4 DEF Answers, ResponsesReply
<1> QED
  BY <1>1, <1>2, <1>3, <1>4

\* The arguments of a call are one of three.
LEMMA GivenIn == ASSUME NEW kind \in Kinds PROVE Given(kind) \in Arguments
BY DEF Given, Arguments, Kinds, ToolKinds

\* The members of an answer.
LEMMA AnthropicTyped ==
  ASSUME NEW kind \in Kinds, kind # "opaque", NEW word \in Nat
  PROVE  AnthropicWrites(kind, word) \in AnswerBlocks
BY DEF AnthropicWrites, Kinds, ToolKinds, AnswerBlocks, TextTyped, ThinkingTyped, UseTyped,
   WordSeq,
       ThinkingBlock, ToolUse, TextBlock, Arguments

\* The items of a Responses answer.
LEMMA ResponsesTyped ==
  ASSUME NEW kind \in Kinds, kind # "opaque", NEW word \in Nat
  PROVE  ResponsesWrites(kind, word) \in AnswerItems
<1>1. CASE kind \in ToolKinds
  <2>1. ResponsesWrites(kind, word) = [type |-> "function_call", call_id |-> word, arguments |-> Given(kind)]
    BY <1>1 DEF ResponsesWrites, CallItem, ToolKinds
  <2> QED
    BY <2>1, GivenIn DEF CallTyped, AnswerItems
<1>2. CASE kind = "thinking"
  <2>1. ResponsesWrites(kind, word) = [type |-> "reasoning", summary |-> << <<word>> >>]
    BY <1>2 DEF ResponsesWrites, ReasoningItem, ToolKinds
  <2>2. <<word>> \in WordSeq
    BY DEF WordSeq
  <2> QED
    BY <2>1, <2>2 DEF ReasoningTyped, AnswerItems
<1>3. CASE kind \in {"text", "refusal"}
  <2> DEFINE c == TextBlock(IF kind = "refusal" THEN kind ELSE "output_text", <<word>>)
  <2>1. ResponsesWrites(kind, word) = [type |-> "message", role |-> "assistant", content |-> <<c>>]
    BY <1>3 DEF ResponsesWrites, MessageItem, ToolKinds
  <2>2. c \in SaidTyped
    BY DEF TextBlock, SaidTyped, WordSeq
  <2> HIDE DEF c
  <2> QED
    BY <2>1, <2>2 DEF MessageTyped, AnswerItems
<1> QED
  BY <1>1, <1>2, <1>3 DEF Kinds

\* The words of one kind in a Chat answer
LEMMA WordsType ==
  ASSUME words \in Nat, NEW shape \in Seq(Kinds), NEW kind
  PROVE  Words(shape, kind) \in WordSeq
<1> DEFINE ss == [i \in DOMAIN shape |-> IF shape[i] = kind THEN <<words + i>> ELSE <<>>]
<1>1. Len(shape) \in Nat /\ DOMAIN shape = 1 .. Len(shape)
  BY LenProperties
<1>2. ss \in Seq(Seq(Nat))
  BY <1>1
<1> HIDE DEF ss
<1>3. FlattenSeq(ss) \in Seq(Nat)
  BY <1>2, FlattenType
<1> QED
  BY <1>3 DEF ss, Words, WordSeq

\* and its calls, which are there when the provider called tools.
LEMMA CallsType ==
  ASSUME words \in Nat, NEW shape \in Seq(Kinds)
  PROVE  /\ CallsMade(shape) \in Seq(CallParted)
         /\ CallsMade(shape) # <<>> <=> HasTools(shape)
<1> DEFINE ss == [i \in DOMAIN shape |->
                    IF shape[i] \in ToolKinds THEN <<Call(words + i, Given(shape[i]))>> ELSE <<>>]
<1>1. Len(shape) \in Nat /\ DOMAIN shape = 1 .. Len(shape) /\ \A i \in DOMAIN shape : shape[i] \in Kinds
  BY LenProperties, MembersIn
<1>2. \A i \in DOMAIN shape : Call(words + i, Given(shape[i])) \in CallParted
  BY <1>1, GivenIn DEF Call, CallParted
<1>3. ss \in Seq(Seq(CallParted)) /\ DOMAIN ss = DOMAIN shape
  BY <1>1, <1>2
<1>4. \A i \in DOMAIN ss : ss[i] = <<>> <=> shape[i] \notin ToolKinds
  OBVIOUS
<1> HIDE DEF ss
<1>5. FlattenSeq(ss) \in Seq(CallParted)
  BY <1>3, FlattenType
<1>6. FlattenSeq(ss) = <<>> <=> \A i \in DOMAIN ss : ss[i] = <<>>
  BY <1>3, FlattenNone
<1>7. HasTools(shape) <=> \E i \in DOMAIN shape : shape[i] \in ToolKinds
  BY DEF HasTools, ToSet
<1>8. CallsMade(shape) = FlattenSeq(ss)
  BY DEF CallsMade, ss
<1> QED
  BY <1>3, <1>4, <1>5, <1>6, <1>7, <1>8

\* What a provider may answer.
Saying(p, shape, end, all) ==
  /\ p \in Protocols /\ shape \in Seq(Kinds) /\ words \in Nat /\ Says(p, shape, end)
  /\ end \in {"done", "limit", "filter", "sequence"}
  /\ all \in [input : Nat, output : Nat, cached : Nat, creation : Nat, reasoning : Nat]

\* The parts an answer is read as say what it says.
LEMMA ReadsAll ==
  ASSUME NEW p, NEW shape, NEW end, NEW all, Saying(p, shape, end, all),
         NEW body, body = Answers(p, shape, end, all), ReadableReply(p, body)
  PROVE  /\ ReplyParts(p, body) \in Seq(AnswerParts)
         /\ PartsSpoken(ReplyParts(p, body)) = Spoken(p, body)
<1>1. shape \in Seq(Kinds) /\ words \in Nat /\ p \in Protocols
  BY DEF Saying
<1>2. Len(shape) \in Nat /\ DOMAIN shape = 1 .. Len(shape) /\ \A i \in DOMAIN shape : shape[i] \in Kinds
  BY <1>1, LenProperties, MembersIn
<1>3. CASE p = "chat"
  <2>1. ChatTyped(body)
    <3>1. Words(shape, "text") \in WordSeq /\ Words(shape, "refusal") \in WordSeq
          /\ Words(shape, "thinking") \in WordSeq
      BY <1>1, WordsType
    <3>2. CallsMade(shape) \in Seq(CallParted)
      BY <1>1, CallsType
    <3>3. body = Answers("chat", shape, end, all)
      BY <1>3
    <3>4. /\ body.content = IF "text" \in ToSet(shape) THEN <<TextBlock("text", Words(shape, "text"))>> ELSE <<>>
          /\ body.refusal = Words(shape, "refusal") /\ body.reasoning_content = Words(shape, "thinking")
          /\ body.tool_calls = CallsMade(shape)
      BY <3>3, AnswerChat
    <3>5. \E t \in WordSeq : body.content = <<>> \/ body.content = <<TextBlock("text", t)>>
      BY <3>1, <3>4
    <3> QED
      BY <3>1, <3>2, <3>4, <3>5 DEF ChatTyped
  <2> QED
    BY <1>3, <2>1, ReadFromChat
<1>4. CASE p = "anthropic"
  <2>1. body.content = [i \in DOMAIN shape |-> AnthropicWrites(shape[i], words + i)]
    BY <1>4, AnswerAnthropic
  <2>2. \A i \in DOMAIN shape : shape[i] # "opaque"
    <3>1. \A i \in DOMAIN body.content : body.content[i].type \in ReadableTypes
      BY <1>4 DEF ReadableReply, Readable
    <3>2. \A i \in DOMAIN shape : shape[i] = "opaque" => body.content[i].type = "redacted_thinking"
      BY <2>1 DEF AnthropicWrites, TextBlock, ToolKinds
    <3> QED
      BY <2>1, <3>1, <3>2 DEF ReadableTypes, PlainTypes
  <2>3. \A i \in DOMAIN shape : AnthropicWrites(shape[i], words + i) \in AnswerBlocks
    BY <1>1, <1>2, <2>2, AnthropicTyped
  <2>4. body.content \in Seq(AnswerBlocks)
    BY <1>2, <2>1, <2>3
  <2> QED
    BY <1>4, <2>4, ReadFromAnthropic
<1>5. CASE p = "responses"
  <2>1. /\ body.output = [i \in DOMAIN shape |-> ResponsesWrites(shape[i], words + i)]
        /\ body.output_text = Words(shape, "text")
    BY <1>5, AnswerResponses
  <2>2. \A i \in DOMAIN shape : shape[i] # "opaque"
    <3>1. \A i \in DOMAIN body.output : ReadableItem(body.output[i])
      BY <1>5 DEF ReadableReply
    <3>2. \A i \in DOMAIN shape : shape[i] = "opaque" => body.output[i].type = "web_search_call"
      BY <2>1 DEF ResponsesWrites, TextBlock, ToolKinds
    <3> QED
      BY <2>1, <3>1, <3>2 DEF ReadableItem
  <2>3. \A i \in DOMAIN shape : ResponsesWrites(shape[i], words + i) \in AnswerItems
    BY <1>1, <1>2, <2>2, ResponsesTyped
  <2>4. body.output \in Seq(AnswerItems)
    BY <1>2, <2>1, <2>3
  <2>5. body.output = <<>> => body.output_text = <<>>
    <3> SUFFICES ASSUME body.output = <<>> PROVE Words(shape, "text") = <<>>
      BY <2>1
    <3>1. DOMAIN shape = {}
      BY <2>1
    <3>2. [i \in DOMAIN shape |-> IF shape[i] = "text" THEN <<words + i>> ELSE <<>>] = <<>>
      BY <3>1
    <3> QED
      BY <3>2, FlattenEmpty DEF Words
  <2> QED
    BY <1>5, <2>4, <2>5, ReadFromResponses
<1> QED
  BY <1>1, <1>3, <1>4, <1>5 DEF Protocols

\* What is written for a client says what the parts say.
LEMMA WritesAll ==
  ASSUME NEW to \in Protocols, NEW parts \in Seq(AnswerParts), NEW stop, NEW usage
  PROVE  Spoken(to, EncodeCompletion(to, parts, stop, usage)) = PartsSpoken(parts)
BY SpokenInChat, SpokenInAnthropic, SpokenInResponses DEF Protocols

\* An answer is told to have calls when it has.
LEMMA HasCalls ==
  ASSUME NEW p \in {"chat", "anthropic"}, NEW shape, NEW end, NEW all, Saying(p, shape, end, all),
         NEW body, body = Answers(p, shape, end, all)
  PROVE  Spoken(p, body).calls # <<>> <=> HasTools(shape)
<1>1. shape \in Seq(Kinds) /\ words \in Nat
  BY DEF Saying
<1>2. CASE p = "chat"
  <2>1. Spoken(p, body).calls = [i \in DOMAIN body.tool_calls |-> body.tool_calls[i].id]
    <3>1. Spoken("chat", body).calls = [i \in DOMAIN body.tool_calls |-> body.tool_calls[i].id]
      <4> DEFINE text == FlattenSeq([i \in DOMAIN body.content |-> body.content[i].text]) \o body.refusal
      <4>1. Spoken("chat", body) = [text |-> text, thinking |-> body.reasoning_content,
                                    calls |-> [i \in DOMAIN body.tool_calls |-> body.tool_calls[i].id]]
        BY SpokenChat
      <4> HIDE DEF text
      <4> QED
        BY <4>1
    <3> QED
      BY <1>2, <3>1
  <2>2. body.tool_calls = CallsMade(shape) /\ CallsMade(shape) \in Seq(CallParted)
    <3>1. body = Answers("chat", shape, end, all)
      BY <1>2
    <3>2. /\ body.content = IF "text" \in ToSet(shape) THEN <<TextBlock("text", Words(shape, "text"))>> ELSE <<>>
          /\ body.refusal = Words(shape, "refusal") /\ body.reasoning_content = Words(shape, "thinking")
          /\ body.tool_calls = CallsMade(shape)
      BY <3>1, AnswerChat
    <3>3. body.tool_calls = CallsMade(shape)
      BY <3>2
    <3> QED
      BY <1>1, <3>3, CallsType
  <2>3. body.tool_calls # <<>> <=> HasTools(shape)
    BY <1>1, <2>2, CallsType
  <2>4. [i \in DOMAIN body.tool_calls |-> body.tool_calls[i].id] = <<>> <=> body.tool_calls = <<>>
    BY <2>2, LenProperties, EmptySeq
  <2> QED
    BY <2>1, <2>3, <2>4
<1>3. CASE p = "anthropic"
  <2> DEFINE content == [i \in DOMAIN shape |-> AnthropicWrites(shape[i], words + i)]
             uses == OnlyThese(body.content, {"tool_use"})
             S == {content[i] : i \in DOMAIN shape}
             ss == [i \in DOMAIN content |-> IF content[i].type \in {"tool_use"} THEN <<content[i]>> ELSE <<>>]
  <2>1. body.content = content
    BY <1>3, AnswerAnthropic
  <2>2. Spoken(p, body).calls = [i \in DOMAIN uses |-> uses[i].id]
    <3>1. Spoken("anthropic", body).calls = [i \in DOMAIN uses |-> uses[i].id]
      <4> DEFINE texts == OnlyThese(body.content, {"text", "redacted_thinking"})
                 thoughts == OnlyThese(body.content, {"thinking"})
      <4> HIDE DEF content, ss, S
      <4>1. Spoken("anthropic", body) =
              [text |-> FlattenSeq([i \in DOMAIN texts |-> texts[i].text]),
               thinking |-> FlattenSeq([i \in DOMAIN thoughts |-> thoughts[i].thinking]),
               calls |-> [i \in DOMAIN uses |-> uses[i].id]]
        BY SpokenAnthropic
      <4> HIDE DEF texts, thoughts, uses
      <4> QED
        BY <4>1
    <3> QED
      BY <1>3, <3>1
  <2>3. Len(shape) \in Nat /\ DOMAIN shape = 1 .. Len(shape) /\ DOMAIN content = DOMAIN shape
        /\ \A i \in DOMAIN shape : shape[i] \in Kinds
    BY <1>1, LenProperties, MembersIn
  <2>4. \A i \in DOMAIN shape : content[i].type = "tool_use" <=> shape[i] \in ToolKinds
    <3> SUFFICES ASSUME NEW i \in DOMAIN shape
                 PROVE  AnthropicWrites(shape[i], words + i).type = "tool_use" <=> shape[i] \in ToolKinds
      OBVIOUS
    <3> QED
      BY <2>3 DEF AnthropicWrites, ThinkingBlock, ToolUse, TextBlock, ToolKinds, Kinds
  <2>5. \A i \in DOMAIN shape : content[i] \in S
    OBVIOUS
  <2>6. uses = FlattenSeq(ss)
    BY <2>1 DEF OnlyThese
  <2> HIDE DEF content, uses, S
  <2>7. ss \in Seq(Seq(S))
    BY <2>3, <2>5
  <2>8. \A i \in DOMAIN ss : ss[i] = <<>> <=> shape[i] \notin ToolKinds
    BY <2>3, <2>4
  <2>9. DOMAIN ss = DOMAIN shape
    BY <2>3
  <2> HIDE DEF ss
  <2>10. uses \in Seq(S) /\ (uses = <<>> <=> \A i \in DOMAIN ss : ss[i] = <<>>)
    BY <2>6, <2>7, FlattenType, FlattenNone
  <2>11. HasTools(shape) <=> \E i \in DOMAIN shape : shape[i] \in ToolKinds
    BY DEF HasTools, ToSet
  <2>12. [i \in DOMAIN uses |-> uses[i].id] = <<>> <=> uses = <<>>
    BY <2>10, LenProperties, EmptySeq
  <2> QED
    BY <2>2, <2>8, <2>9, <2>10, <2>11, <2>12
<1> QED
  BY <1>2, <1>3

-----------------------------------------------------------------------------
\* Stop reasons and tokens.

\* What an end means, and what a stop reason says.
Sense(end) == CASE end = "limit" -> "cut" [] end = "filter" -> "filtered" [] OTHER -> "over"

Sort(reason) ==
  CASE reason \in {"length", "max_tokens", "max_output_tokens"} -> "cut"
    [] reason \in {"content_filter", "refusal"} -> "filtered"
    [] OTHER -> "over"

\* No stop reason is a stop reason of its own.
LEMMA NoneSaysNothing ==
  None \notin {"length", "max_tokens", "max_output_tokens", "content_filter", "refusal",
               "stop_sequence", "tool_use", "tool_calls", "stop", "end_turn"}
BY Zenon DEF None

\* What an answer means is what its stop reason says.
LEMMA MeaningIsSort == ASSUME NEW p, NEW body PROVE Meaning(p, body) = Sort(ReplyStop(p, body))
BY DEF Meaning, Sort

\* The stop reason of a provider's answer.
LEMMA AnswerStops ==
  ASSUME NEW p, NEW shape, NEW end, NEW all, Saying(p, shape, end, all),
         NEW body, body = Answers(p, shape, end, all)
  PROVE  /\ Sort(ReplyStop(p, body)) = Sense(end)
         /\ ReplyStop(p, body) \in {"tool_use", "tool_calls"} <=>
              p # "responses" /\ end = "done" /\ HasTools(shape)
         /\ ReplyStop(p, body) = "stop_sequence" <=> end = "sequence"
<1>1. p \in Protocols /\ end \in {"done", "limit", "filter", "sequence"}
      /\ (end = "sequence" => p = "anthropic")
  BY DEF Saying, Says
<1>2. CASE p = "chat"
  <2>1. end \in {"done", "limit", "filter", "failed"} /\ body = Answers("chat", shape, end, all)
    BY <1>1, <1>2
  <2>2. body.finish_reason =
           CASE end = "limit" -> "length"
             [] end = "filter" -> "content_filter"
             [] OTHER -> IF HasTools(shape) THEN "tool_calls" ELSE "stop"
    BY <2>1, StopChat
  <2>3. ReplyStop(p, body) = body.finish_reason
    BY <1>2 DEF ReplyStop
  <2> QED
    BY <1>1, <1>2, <2>1, <2>2, <2>3 DEF Sort, Sense
<1>3. CASE p = "anthropic"
  <2>1. end \in {"done", "limit", "filter", "sequence", "failed"} /\ body = Answers("anthropic", shape, end, all)
    BY <1>1, <1>3
  <2>2. body.stop_reason =
           CASE end = "limit" -> "max_tokens"
             [] end = "filter" -> "refusal"
             [] end = "sequence" -> "stop_sequence"
             [] OTHER -> IF HasTools(shape) THEN "tool_use" ELSE "end_turn"
    BY <2>1, StopAnthropic
  <2>3. ReplyStop(p, body) = body.stop_reason
    BY <1>3 DEF ReplyStop
  <2> QED
    BY <1>1, <1>3, <2>1, <2>2, <2>3 DEF Sort, Sense
<1>4. CASE p = "responses"
  <2>1. end \in {"done", "limit", "filter", "failed"} /\ body = Answers("responses", shape, end, all)
    BY <1>1, <1>4
  <2>2. body.reason =
           CASE end = "limit" -> "max_output_tokens"
             [] end = "filter" -> "content_filter"
             [] OTHER -> None
    BY <2>1, StopResponses
  <2>3. ReplyStop(p, body) = body.reason
    BY <1>4 DEF ReplyStop
  <2> QED
    BY <1>1, <1>4, <2>1, <2>2, <2>3, NoneSaysNothing DEF Sort, Sense
<1> QED
  BY <1>1, <1>2, <1>3, <1>4 DEF Protocols

\* A stop reason in another protocol says the same.
LEMMA SortKept ==
  ASSUME NEW to, NEW reason, NEW has \in BOOLEAN
  PROVE  /\ Sort(StopReason(to, reason, has)) = Sort(reason)
         /\ Sort(ReasonFor(StopReason("responses", reason, has))) = Sort(reason)
<1>1. CASE reason \in {"length", "max_tokens", "max_output_tokens"}
  BY <1>1 DEF Sort, StopReason, ReasonFor
<1>2. CASE reason \in {"content_filter", "refusal"}
  BY <1>2 DEF Sort, StopReason, ReasonFor
<1>3. CASE reason = "stop_sequence"
  BY <1>3, NoneSaysNothing DEF Sort, StopReason, ReasonFor
<1>4. CASE reason \notin {"length", "max_tokens", "max_output_tokens", "content_filter", "refusal", "stop_sequence"}
  BY <1>4, NoneSaysNothing DEF Sort, StopReason, ReasonFor
<1> QED
  BY <1>1, <1>2, <1>3, <1>4

\* It is a call for tools when there are calls.
LEMMA ToolsAnnounced ==
  ASSUME NEW to, NEW reason, NEW has \in BOOLEAN, Sort(reason) = "over",
         reason = "stop_sequence" => to # "anthropic",
         reason \in {"tool_use", "tool_calls"} => has
  PROVE  StopReason(to, reason, has) \in {"tool_use", "tool_calls"} <=> has
<1>1. reason \notin {"length", "max_tokens", "max_output_tokens", "content_filter", "refusal"}
  BY DEF Sort
<1>2. CASE reason = "stop_sequence"
  BY <1>2 DEF StopReason
<1>3. CASE reason # "stop_sequence"
  BY <1>1, <1>3 DEF StopReason
<1> QED
  BY <1>2, <1>3

\* The tokens are the same, counted in another protocol.
LEMMA TokensKept ==
  ASSUME NEW from \in Protocols, NEW to \in Protocols,
         NEW all \in [input : Nat, output : Nat, cached : Nat, creation : Nat, reasoning : Nat],
         NEW u, u = AnswerUsage(from, all)
  PROVE  Tokens(to, Usage(to, TotalUsage(from, u))) = Tokens(from, u)
<1>1. /\ all.input \in Nat /\ all.output \in Nat /\ all.cached \in Nat /\ all.creation \in Nat
      /\ all = [input |-> all.input, output |-> all.output, cached |-> all.cached,
                creation |-> all.creation, reasoning |-> all.reasoning]
  OBVIOUS
<1> DEFINE t == TotalUsage(from, u)
           w == Usage(to, t)
<1>2. /\ u.output = all.output /\ u.cached = all.cached
      /\ u.input = IF from = "anthropic" THEN all.input ELSE all.input + all.cached
      /\ u.creation = IF from = "anthropic" THEN all.creation ELSE 0
  BY <1>1 DEF AnswerUsage
<1>3. /\ t.output = all.output /\ t.cached = all.cached
      /\ t.creation = u.creation
      /\ t.input = IF from = "anthropic" THEN all.input + all.cached + all.creation
                                         ELSE all.input + all.cached
  BY <1>1, <1>2 DEF TotalUsage, AnswerUsage
<1>4. /\ w.output = all.output /\ w.cached = all.cached
      /\ w.input = IF to = "anthropic" THEN Max0(t.input - t.cached - t.creation) ELSE t.input
      /\ to = "anthropic" => w.creation = t.creation
  <2>1. DOMAIN t = {"input", "output", "cached", "creation", "reasoning"}
    BY <1>1 DEF TotalUsage, AnswerUsage
  <2> HIDE DEF t
  <2> QED
    BY <1>3, <2>1 DEF Usage
<1> HIDE DEF t, w
<1>5. t.creation \in Nat /\ t.input \in Nat /\ t.input - t.cached - t.creation >= 0
  BY <1>1, <1>2, <1>3
<1>6. CASE to = "anthropic"
  <2>1. w.input = t.input - t.cached - t.creation
    BY <1>1, <1>3, <1>4, <1>5, <1>6 DEF Max0
  <2>2. w.input + w.cached + w.creation = t.input
    BY <1>1, <1>3, <1>4, <1>5, <1>6, <2>1
  <2> QED
    BY <1>2, <1>3, <1>4, <1>6, <2>2 DEF Tokens, t, w
<1>7. CASE to # "anthropic"
  BY <1>2, <1>3, <1>4, <1>7 DEF Tokens, t, w
<1> QED
  BY <1>6, <1>7

\* What AnswerKept says of one answer.
Faithful(p, body, told) ==
  /\ Spoken(client, told) = Spoken(p, body)
  /\ Meaning(client, told) = Meaning(p, body)
  /\ Tokens(client, told.usage) = Tokens(p, body.usage)
  /\ client # "responses" /\ Meaning(client, told) = "over" =>
       (ReplyStop(client, told) \in {"tool_calls", "tool_use"} <=> Spoken(client, told).calls # <<>>)

\* An answer in the client's own protocol is handed on.
LEMMA OwnAnswer ==
  ASSUME NEW shape, NEW end, NEW all, Saying(client, shape, end, all),
         NEW body, body = Answers(client, shape, end, all)
  PROVE  Faithful(client, body, body)
<1> SUFFICES ASSUME client # "responses", Meaning(client, body) = "over"
             PROVE  ReplyStop(client, body) \in {"tool_calls", "tool_use"} <=> Spoken(client, body).calls # <<>>
  BY DEF Faithful
<1>1. client \in {"chat", "anthropic"}
  BY DEF Saying, Protocols
<1>2. Spoken(client, body).calls # <<>> <=> HasTools(shape)
  BY <1>1, HasCalls
<1>3. Sense(end) = "over"
  BY AnswerStops, MeaningIsSort
<1>4. ReplyStop(client, body) \in {"tool_use", "tool_calls"} <=> end = "done" /\ HasTools(shape)
  BY AnswerStops
<1>5. end \in {"done", "sequence"}
  BY <1>3 DEF Saying, Sense
<1>6. end = "sequence" => ~ HasTools(shape)
  BY DEF Saying, Says, HasTools, ToolKinds
<1> QED
  BY <1>2, <1>4, <1>5, <1>6

\* The tokens a provider counts.
LEMMA UsageOf ==
  ASSUME NEW p \in Protocols, NEW shape, NEW end, NEW all, NEW body, body = Answers(p, shape, end, all)
  PROVE  body.usage = AnswerUsage(p, all)
<1>1. CASE p = "chat"
  <2>1. body = Answers("chat", shape, end, all)
    BY <1>1
  <2>2. /\ body.usage = AnswerUsage("chat", all)
        /\ body.failed = (end = "failed")
    BY <2>1 DEF Answers, ChatReply, AnswerUsage
  <2> QED
    BY <1>1, <2>2
<1>2. CASE p = "anthropic"
  BY <1>2 DEF Answers, AnthropicReply, AnswerUsage
<1>3. CASE p = "responses"
  BY <1>3 DEF Answers, ResponsesReply, AnswerUsage
<1> QED
  BY <1>1, <1>2, <1>3 DEF Protocols

\* The stop reason and the tokens of what is written.
LEMMA Encoded ==
  ASSUME NEW to \in Protocols, NEW parts, NEW stop, NEW usage, NEW has, has = (ToolsIn(parts) # <<>>),
         NEW body, body = EncodeCompletion(to, parts, stop, usage)
  PROVE  /\ body.usage = Usage(to, usage)
         /\ ReplyStop(to, body) = IF to = "responses" THEN ReasonFor(StopReason("responses", stop, has))
                                                       ELSE StopReason(to, stop, has)
<1>1. CASE to = "chat"
  <2> DEFINE made == ToolsIn(parts)
             text == TextsIn(parts)
  <2> HIDE DEF made, text
  <2>1. body = EncodeCompletion("chat", parts, stop, usage) /\ made = ToolsIn(parts) /\ text = TextsIn(parts)
    BY <1>1 DEF made, text
  <2>2. /\ body.content = IF made # <<>> /\ text = <<>> THEN <<>> ELSE <<TextBlock("text", text)>>
        /\ body.refusal = <<>>
        /\ body.reasoning_content = FlattenSeq([i \in DOMAIN parts |-> ThoughtOf(parts[i])])
        /\ body.tool_calls = [i \in DOMAIN made |-> Call(made[i].id, made[i].arguments)]
        /\ body.finish_reason = StopReason("chat", stop, made # <<>>)
        /\ body.usage = Usage("chat", usage)
    BY <2>1, EncodedChat
  <2>3. body.finish_reason = StopReason("chat", stop, made # <<>>) /\ body.usage = Usage("chat", usage)
    BY <2>2
  <2>4. ReplyStop(to, body) = body.finish_reason
    BY <1>1 DEF ReplyStop
  <2> QED
    BY <1>1, <2>1, <2>3, <2>4
<1>2. CASE to = "anthropic"
  <2> DEFINE made == ToolsIn(parts)
  <2> HIDE DEF made
  <2>1. body = EncodeCompletion("anthropic", parts, stop, usage) /\ made = ToolsIn(parts)
    BY <1>2 DEF made
  <2>2. /\ body.content = [i \in DOMAIN parts |-> AnthropicBlock(parts[i])]
        /\ body.stop_reason = StopReason("anthropic", stop, made # <<>>)
        /\ body.usage = Usage("anthropic", usage)
    BY <2>1, EncodedAnthropic
  <2>3. body.stop_reason = StopReason("anthropic", stop, made # <<>>) /\ body.usage = Usage("anthropic", usage)
    BY <2>2
  <2>4. ReplyStop(to, body) = body.stop_reason
    BY <1>2 DEF ReplyStop
  <2> QED
    BY <1>2, <2>1, <2>3, <2>4
<1>3. CASE to = "responses"
  <2> DEFINE made == ToolsIn(parts)
  <2> HIDE DEF made
  <2>1. body = EncodeCompletion("responses", parts, stop, usage) /\ made = ToolsIn(parts)
    BY <1>3 DEF made
  <2>2. /\ body.output = [i \in DOMAIN parts |-> ResponsesItem(parts[i])]
        /\ body.reason = ReasonFor(StopReason("responses", stop, made # <<>>))
        /\ body.usage = Usage("responses", usage)
    BY <2>1, EncodedResponses
  <2>3. body.reason = ReasonFor(StopReason("responses", stop, made # <<>>)) /\ body.usage = Usage("responses", usage)
    BY <2>2
  <2>4. ReplyStop(to, body) = body.reason
    BY <1>3 DEF ReplyStop
  <2> QED
    BY <1>3, <2>1, <2>3, <2>4
<1> QED
  BY <1>1, <1>2, <1>3 DEF Protocols

\* An answer of another protocol that can be read is told in full (Response, response.go:123).
LEMMA ConvertedAnswer ==
  ASSUME client \in Protocols, NEW p, p # client, NEW shape, NEW end, NEW all,
         Saying(p, shape, end, all), NEW body, body = Answers(p, shape, end, all),
         ReadableReply(p, body)
  PROVE  Faithful(p, body, Response(p, client, body))
<1> DEFINE parts == ReplyParts(p, body)
           stop == ReplyStop(p, body)
           usage == TotalUsage(p, body.usage)
           told == EncodeCompletion(client, parts, stop, usage)
           has == ToolsIn(parts) # <<>>
<1>1. Response(p, client, body) = told
  BY DEF Response
<1>2. parts \in Seq(AnswerParts) /\ PartsSpoken(parts) = Spoken(p, body)
  BY ReadsAll
<1> HIDE DEF parts
<1>3. Spoken(client, told) = Spoken(p, body)
  BY <1>2, WritesAll
<1>4. has <=> Spoken(p, body).calls # <<>>
  <2> DEFINE made == ToolsIn(parts)
  <2> HIDE DEF made
  <2>1. made \in Seq(ToolParted) /\ [i \in DOMAIN made |-> made[i].id] = PartsSpoken(parts).calls
    BY <1>2, ToolIds DEF made
  <2>2. [i \in DOMAIN made |-> made[i].id] = <<>> <=> made = <<>>
    BY <2>1, LenProperties, EmptySeq
  <2> QED
    BY <1>2, <2>1, <2>2 DEF made
<1> HIDE DEF stop, usage, told, has
<1>5. /\ told.usage = Usage(client, usage)
      /\ ReplyStop(client, told) = IF client = "responses" THEN ReasonFor(StopReason("responses", stop, has))
                                                       ELSE StopReason(client, stop, has)
  BY Encoded DEF told, has
<1>6. p \in Protocols /\ all \in [input : Nat, output : Nat, cached : Nat, creation : Nat, reasoning : Nat]
  BY DEF Saying
<1>7. Tokens(client, told.usage) = Tokens(p, body.usage)
  <2>1. body.usage = AnswerUsage(p, all)
    BY <1>6, UsageOf
  <2>2. usage = TotalUsage(p, AnswerUsage(p, all))
    BY <2>1 DEF usage
  <2> QED
    BY <1>5, <1>6, <2>1, <2>2, TokensKept
<1>8. has \in BOOLEAN
  BY DEF has
<1>9. Meaning(client, told) = Sort(stop) /\ Meaning(p, body) = Sort(stop)
  <2>1. Sort(StopReason(client, stop, has)) = Sort(stop)
        /\ Sort(ReasonFor(StopReason("responses", stop, has))) = Sort(stop)
    BY <1>8, SortKept
  <2> QED
    BY <1>5, <2>1, MeaningIsSort DEF stop
<1>10. ASSUME client # "responses", Sort(stop) = "over"
       PROVE  ReplyStop(client, told) \in {"tool_calls", "tool_use"} <=> has
  <2>1. stop = "stop_sequence" => client # "anthropic"
    <3>1. stop = "stop_sequence" => p = "anthropic"
      BY AnswerStops DEF stop, Saying, Says
    <3> QED
      BY <3>1
  <2>2. stop \in {"tool_use", "tool_calls"} => has
    <3>1. stop \in {"tool_use", "tool_calls"} => p # "responses" /\ HasTools(shape)
      BY AnswerStops DEF stop
    <3>2. p # "responses" => (Spoken(p, body).calls # <<>> <=> HasTools(shape))
      BY <1>6, HasCalls DEF Protocols
    <3> QED
      BY <1>4, <3>1, <3>2 DEF has
  <2>3. StopReason(client, stop, has) \in {"tool_use", "tool_calls"} <=> has
    BY <1>8, <1>10, <2>1, <2>2, ToolsAnnounced
  <2> QED
    BY <1>5, <1>10, <2>3
<1>11. Faithful(p, body, told)
  BY <1>3, <1>4, <1>7, <1>9, <1>10 DEF Faithful, has
<1> QED
  BY <1>1, <1>11

-----------------------------------------------------------------------------
\* What the client keeps.

\* The messages a client keeps of an answer.
OpaqueBlock == [type : {"redacted_thinking"}, text : WordSeq]
OpaqueItem == [type : {"web_search_call"}, text : WordSeq]

ChatKept ==
  [role : {"assistant"}, content : Seq(TextTyped), reasoning_content : WordSeq,
   tool_calls : Seq(CallParted), tool_call_id : {NoId}]
AnthropicKept == [role : {"assistant"}, content : Seq(AnswerBlocks \cup OpaqueBlock)]
ResponsesKept == AnswerItems \cup OpaqueItem

KeptMessages(p) ==
  CASE p = "chat" -> ChatKept
    [] p = "responses" -> ResponsesKept
    [] OTHER -> AnthropicKept

\* Arguments that every protocol takes.
Runs(arguments) == Input(arguments) = "object"

\* What makes a kept message one that others have words for.
Plainly(p, m) ==
  CASE p = "chat" -> \A c \in DOMAIN m.tool_calls : Runs(m.tool_calls[c].arguments)
    [] p = "responses" -> m.type # "web_search_call" /\ (m.type = "function_call" => Runs(m.arguments))
    [] OTHER -> \A i \in DOMAIN m.content : m.content[i].type # "redacted_thinking"

\* A kept message is one that others have words for.
LEMMA KeptUnderstood ==
  ASSUME NEW p \in Protocols, NEW m \in KeptMessages(p), Plainly(p, m)
  PROVE  Understood(p, m)
<1>1. CASE p = "chat"
  <2>1. m \in ChatKept
    BY <1>1 DEF KeptMessages
  <2>2. m.content \in Seq(TextTyped) /\ m.role = "assistant"
    BY <2>1 DEF ChatKept
  <2>3. \A i \in DOMAIN m.content : m.content[i] \in TextTyped
    BY <2>2, MembersIn
  <2>4. Readable(m.content)
    BY <2>3 DEF Readable, TextTyped, ReadableTypes, PlainTypes
  <2>5. CallsOf(p, m) = [i \in DOMAIN m.tool_calls |-> Tool(m.tool_calls[i].id, m.tool_calls[i].arguments)]
    BY <1>1 DEF CallsOf, ToolsOf
  <2>6. \A c \in DOMAIN m.tool_calls : Runs(m.tool_calls[c].arguments)
    BY <1>1 DEF Plainly
  <2>7. \A c \in DOMAIN CallsOf(p, m) : Input(CallsOf(p, m)[c].arguments) = "object"
    BY <2>5, <2>6 DEF Runs, Tool
  <2> QED
    BY <1>1, <2>4, <2>7 DEF Understood, ReadableMessage
<1>2. CASE p = "anthropic"
  <2>1. m.content \in Seq(AnswerBlocks \cup OpaqueBlock)
    BY <1>2 DEF KeptMessages, AnthropicKept
  <2>2. \A i \in DOMAIN m.content : m.content[i] \in AnswerBlocks \cup OpaqueBlock
    BY <2>1, MembersIn
  <2>3. \A i \in DOMAIN m.content : m.content[i].type # "redacted_thinking"
    BY <1>2 DEF Plainly
  <2>4. \A i \in DOMAIN m.content : m.content[i].type \in {"text", "thinking", "tool_use"}
    BY <2>2, <2>3, BlocksApart DEF OpaqueBlock
  <2>5. Readable(m.content)
    BY <2>4 DEF Readable, ReadableTypes, PlainTypes
  <2> QED
    BY <1>2, <2>5 DEF Understood, ReadableMessage
<1>3. CASE p = "responses"
  <2>1. m \in AnswerItems \cup OpaqueItem /\ m.type # "web_search_call"
        /\ (m.type = "function_call" => Runs(m.arguments))
    BY <1>3 DEF KeptMessages, ResponsesKept, Plainly
  <2>2. m \in AnswerItems
    BY <2>1 DEF OpaqueItem
  <2>3. m.type \in {"message", "function_call", "reasoning"}
    BY <2>2, ItemsApart
  <2>4. m.type = "message" => Readable(m.content)
    <3> SUFFICES ASSUME m.type = "message" PROVE Readable(m.content)
      OBVIOUS
    <3>1. m \in MessageTyped
      BY <2>2, ItemsApart
    <3>2. m.content = <<m.content[1]>> /\ m.content[1] \in SaidTyped
      BY <3>1, OfMessage
    <3>3. m.content[1].type \in {"output_text", "refusal"}
      BY <3>2 DEF SaidTyped
    <3>4. \A i \in DOMAIN m.content : m.content[i].type \in {"output_text", "refusal"}
      BY <3>2, <3>3
    <3> QED
      BY <3>4 DEF Readable, ReadableTypes, PlainTypes
  <2>5. ReadableMessage(p, m)
    BY <1>3, <2>3, <2>4 DEF ReadableMessage
  <2>6. CallsOf(p, m) = IF m.type = "function_call" THEN <<Tool(m.call_id, m.arguments)>> ELSE <<>>
    BY <1>3 DEF CallsOf
  <2>7. \A c \in DOMAIN CallsOf(p, m) : Input(CallsOf(p, m)[c].arguments) = "object"
    BY <2>1, <2>6 DEF Runs, Tool
  <2> QED
    BY <2>5, <2>7 DEF Understood
<1> QED
  BY <1>1, <1>2, <1>3 DEF Protocols

\* The calls of an answer without broken arguments run.
LEMMA CallsSound ==
  ASSUME NEW shape \in Seq(Kinds), words \in Nat, "broken" \notin ToSet(shape)
  PROVE  \A c \in DOMAIN CallsMade(shape) : Runs(CallsMade(shape)[c].arguments)
<1> DEFINE ss == [i \in DOMAIN shape |->
                    IF shape[i] \in ToolKinds THEN <<Call(words + i, Given(shape[i]))>> ELSE <<>>]
<1>1. Len(shape) \in Nat /\ DOMAIN shape = 1 .. Len(shape) /\ \A i \in DOMAIN shape : shape[i] \in Kinds
  BY LenProperties, MembersIn
<1>2. \A i \in DOMAIN shape : Call(words + i, Given(shape[i])) \in CallParted
  BY <1>1, GivenIn DEF Call, CallParted
<1>3. ss \in Seq(Seq(CallParted)) /\ DOMAIN ss = DOMAIN shape
  BY <1>1, <1>2
<1>4. ASSUME NEW i \in DOMAIN ss, NEW j \in DOMAIN ss[i]
      PROVE  Runs(ss[i][j].arguments)
  <2>1. shape[i] \in ToolKinds /\ ss[i][j] = Call(words + i, Given(shape[i]))
    BY <1>4
  <2>2. shape[i] # "broken"
    BY <1>3, <1>4 DEF ToSet
  <2>3. Given(shape[i]) \in {None, "object"}
    BY <2>1, <2>2 DEF Given, ToolKinds
  <2> QED
    BY <2>1, <2>3 DEF Runs, Input, Call
<1> HIDE DEF ss
<1>5. \A x \in DOMAIN FlattenSeq(ss) : \E i \in DOMAIN ss : \E j \in DOMAIN ss[i] : FlattenSeq(ss)[x] = ss[i][j]
  BY <1>3, FlattenMember
<1>6. CallsMade(shape) = FlattenSeq(ss)
  BY DEF CallsMade, ss
<1> QED
  BY <1>4, <1>5, <1>6

\* The blocks a provider of the same protocol sends are kept: only its own are opaque.
LEMMA AnthropicKinds ==
  ASSUME NEW kind \in Kinds, NEW word \in Nat
  PROVE  /\ AnthropicWrites(kind, word) \in AnswerBlocks \cup OpaqueBlock
         /\ kind # "opaque" => AnthropicWrites(kind, word).type # "redacted_thinking"
<1>1. CASE kind = "opaque"
  BY <1>1 DEF AnthropicWrites, OpaqueBlock, TextBlock, ToolKinds, WordSeq
<1>2. CASE kind # "opaque"
  BY <1>2, AnthropicTyped, BlocksApart
<1> QED
  BY <1>1, <1>2

\* So are the items.
LEMMA ResponsesKinds ==
  ASSUME NEW kind \in Kinds, NEW word \in Nat
  PROVE  /\ ResponsesWrites(kind, word) \in ResponsesKept
         /\ kind \notin {"opaque", "broken"} => Plainly("responses", ResponsesWrites(kind, word))
<1>1. CASE kind = "opaque"
  BY <1>1 DEF ResponsesWrites, ResponsesKept, OpaqueItem, TextBlock, ToolKinds, WordSeq
<1>2. CASE kind # "opaque"
  <2>1. ResponsesWrites(kind, word) \in AnswerItems
    BY <1>2, ResponsesTyped
  <2>2. ResponsesWrites(kind, word).type \in {"message", "function_call", "reasoning"}
    BY <2>1, ItemsApart
  <2>3. ASSUME ResponsesWrites(kind, word).type = "function_call", kind # "broken"
        PROVE  Runs(ResponsesWrites(kind, word).arguments)
    <3>1. kind \in ToolKinds
      BY <2>3, <1>2 DEF ResponsesWrites, ToolKinds, ReasoningItem, MessageItem, TextBlock
    <3>2. ResponsesWrites(kind, word).arguments = Given(kind)
      BY <3>1 DEF ResponsesWrites, CallItem, ToolKinds
    <3>3. Given(kind) \in {None, "object"}
      BY <2>3, <3>1 DEF Given, ToolKinds
    <3> QED
      BY <3>2, <3>3 DEF Runs, Input
  <2> QED
    BY <2>1, <2>2, <2>3 DEF Plainly, ResponsesKept
<1> QED
  BY <1>1, <1>2

\* What the client keeps of an answer in its own protocol: others have words for it unless it is the protocol's own.
LEMMA OwnKept ==
  ASSUME NEW shape, NEW end, NEW all, Saying(client, shape, end, all),
         NEW body, body = Answers(client, shape, end, all)
  PROVE  /\ Kept(body) \in Seq(KeptMessages(client))
         /\ ToSet(shape) \cap {"opaque", "broken"} = {} =>
              \A i \in DOMAIN Kept(body) : Plainly(client, Kept(body)[i])
<1>1. shape \in Seq(Kinds) /\ words \in Nat /\ client \in Protocols
  BY DEF Saying
<1>2. Len(shape) \in Nat /\ DOMAIN shape = 1 .. Len(shape) /\ \A i \in DOMAIN shape : shape[i] \in Kinds
  BY <1>1, LenProperties, MembersIn
<1>3. CASE client = "chat"
  <2>1. body = Answers("chat", shape, end, all)
    BY <1>3
  <2>2. /\ body.content = IF "text" \in ToSet(shape) THEN <<TextBlock("text", Words(shape, "text"))>> ELSE <<>>
        /\ body.refusal = Words(shape, "refusal") /\ body.reasoning_content = Words(shape, "thinking")
        /\ body.tool_calls = CallsMade(shape)
    BY <2>1, AnswerChat
  <2>3. Words(shape, "text") \in WordSeq /\ Words(shape, "thinking") \in WordSeq
        /\ CallsMade(shape) \in Seq(CallParted)
    BY <1>1, WordsType, CallsType
  <2> DEFINE m == ChatMessage("assistant", body.content, body.reasoning_content, body.tool_calls)
  <2>4. body.content \in Seq(TextTyped)
    <3>1. TextBlock("text", Words(shape, "text")) \in TextTyped
      BY <2>3 DEF TextBlock, TextTyped
    <3> QED
      BY <2>2, <3>1
  <2>5. body.reasoning_content \in WordSeq /\ body.tool_calls \in Seq(CallParted)
    BY <2>2, <2>3
  <2>6. m \in ChatKept
    BY <2>4, <2>5 DEF ChatMessage, ChatKept
  <2>7. m.tool_calls = CallsMade(shape)
    BY <2>2 DEF ChatMessage
  <2>8. "broken" \notin ToSet(shape) => Plainly("chat", m)
    BY <1>1, <2>7, CallsSound DEF Plainly
  <2>9. Kept(body) = <<m>>
    BY <1>3 DEF Kept
  <2> HIDE DEF m
  <2>10. KeptMessages(client) = ChatKept /\ <<m>> \in Seq(ChatKept)
    BY <1>3, <2>6 DEF KeptMessages
  <2>11. "broken" \notin ToSet(shape) => Plainly(client, m)
    BY <1>3, <2>8
  <2> QED
    BY <2>9, <2>10, <2>11
<1>4. CASE client = "anthropic"
  <2> DEFINE content == [i \in DOMAIN shape |-> AnthropicWrites(shape[i], words + i)]
             m == [role |-> "assistant", content |-> content]
  <2>1. body.content = content
    BY <1>4, AnswerAnthropic
  <2>2. \A i \in DOMAIN shape : words + i \in Nat
    BY <1>1, <1>2
  <2>3. \A i \in DOMAIN content : content[i] \in AnswerBlocks \cup OpaqueBlock
    BY <1>2, <2>2, AnthropicKinds
  <2>4. content \in Seq(AnswerBlocks \cup OpaqueBlock)
    BY <1>2, <2>3
  <2>5. ToSet(shape) \cap {"opaque", "broken"} = {} =>
          \A i \in DOMAIN content : content[i].type # "redacted_thinking"
    BY <1>2, <2>2, AnthropicKinds DEF ToSet
  <2> HIDE DEF content
  <2>6. m \in AnthropicKept /\ m.content = content
    BY <2>4 DEF AnthropicKept
  <2>7. Kept(body) = IF content = <<>> THEN <<>> ELSE <<m>>
    BY <1>4, <2>1 DEF Kept
  <2>8. ToSet(shape) \cap {"opaque", "broken"} = {} => Plainly("anthropic", m)
    BY <2>5, <2>6 DEF Plainly
  <2> HIDE DEF m
  <2>9. KeptMessages(client) = AnthropicKept /\ <<m>> \in Seq(AnthropicKept) /\ <<>> \in Seq(AnthropicKept)
    BY <1>4, <2>6 DEF KeptMessages
  <2>10. ToSet(shape) \cap {"opaque", "broken"} = {} => Plainly(client, m)
    BY <1>4, <2>8
  <2>11. CASE content = <<>>
    BY <2>7, <2>9, <2>11
  <2>12. CASE content # <<>>
    BY <2>7, <2>9, <2>10, <2>12
  <2> QED
    BY <2>11, <2>12
<1>5. CASE client = "responses"
  <2> DEFINE output == [i \in DOMAIN shape |-> ResponsesWrites(shape[i], words + i)]
  <2>1. Kept(body) = output
    <3>1. /\ body.output = output
          /\ body.output_text = Words(shape, "text")
      BY <1>5, AnswerResponses
    <3> QED
      BY <1>5, <3>1 DEF Kept
  <2>2. \A i \in DOMAIN shape : words + i \in Nat
    BY <1>1, <1>2
  <2>3. \A i \in DOMAIN output : output[i] \in ResponsesKept
    BY <1>2, <2>2, ResponsesKinds
  <2>4. output \in Seq(ResponsesKept)
    BY <1>2, <2>3
  <2>5. ToSet(shape) \cap {"opaque", "broken"} = {} => \A i \in DOMAIN output : Plainly("responses", output[i])
    BY <1>2, <2>2, ResponsesKinds DEF ToSet
  <2> HIDE DEF output
  <2> QED
    BY <1>5, <2>1, <2>4, <2>5 DEF KeptMessages
<1> QED
  BY <1>1, <1>3, <1>4, <1>5 DEF Protocols

\* The calls among parts that run are calls that run.
LEMMA ToolsRun ==
  ASSUME NEW parts \in Seq(AnswerParts), \A i \in DOMAIN parts : parts[i].kind = "tool" => Runs(parts[i].arguments)
  PROVE  \A c \in DOMAIN ToolsIn(parts) : Runs(ToolsIn(parts)[c].arguments)
<1> DEFINE ss == [i \in DOMAIN parts |-> IF parts[i].kind = "tool" THEN <<parts[i]>> ELSE <<>>]
<1>1. Len(parts) \in Nat /\ DOMAIN parts = 1 .. Len(parts) /\ \A i \in DOMAIN parts : parts[i] \in AnswerParts
  BY LenProperties, MembersIn
<1>2. ss \in Seq(Seq(AnswerParts)) /\ DOMAIN ss = DOMAIN parts
  BY <1>1
<1>3. ASSUME NEW i \in DOMAIN ss, NEW j \in DOMAIN ss[i] PROVE Runs(ss[i][j].arguments)
  <2>1. parts[i].kind = "tool" /\ ss[i][j] = parts[i]
    BY <1>3
  <2> QED
    BY <1>2, <2>1
<1> HIDE DEF ss
<1>4. \A x \in DOMAIN FlattenSeq(ss) : \E i \in DOMAIN ss : \E j \in DOMAIN ss[i] : FlattenSeq(ss)[x] = ss[i][j]
  BY <1>2, FlattenMember
<1>5. ToolsIn(parts) = FlattenSeq(ss)
  BY DEF ToolsIn, ss
<1> QED
  BY <1>3, <1>4, <1>5

\* What the client keeps of an answer that was written for it.
LEMMA WrittenKept ==
  ASSUME client \in Protocols, NEW parts \in Seq(AnswerParts), NEW stop, NEW usage,
         \A i \in DOMAIN parts : parts[i].kind = "tool" => Runs(parts[i].arguments),
         NEW body, body = EncodeCompletion(client, parts, stop, usage)
  PROVE  /\ Kept(body) \in Seq(KeptMessages(client))
         /\ \A i \in DOMAIN Kept(body) : Plainly(client, Kept(body)[i])
<1>1. Len(parts) \in Nat /\ DOMAIN parts = 1 .. Len(parts) /\ \A i \in DOMAIN parts : parts[i] \in AnswerParts
  BY LenProperties, MembersIn
<1>2. CASE client = "chat"
  <2> DEFINE made == ToolsIn(parts)
             text == TextsIn(parts)
             m == ChatMessage("assistant", body.content, body.reasoning_content, body.tool_calls)
  <2>1. made = FlattenSeq(Map(ToolOnly, parts)) /\ text = FlattenSeq(Map(SaidText, parts))
        /\ [i \in DOMAIN parts |-> ThoughtOf(parts[i])] = Map(Thought, parts)
    BY PartsMapped
  <2>2. made \in Seq(ToolParted)
    BY ToolIds
  <2>3. \A c \in DOMAIN made : Runs(made[c].arguments)
    BY ToolsRun
  <2> HIDE DEF made, text
  <2>4. body = EncodeCompletion("chat", parts, stop, usage) /\ made = ToolsIn(parts) /\ text = TextsIn(parts)
    BY <1>2 DEF made, text
  <2>5. /\ body.content = IF made # <<>> /\ text = <<>> THEN <<>> ELSE <<TextBlock("text", text)>>
        /\ body.refusal = <<>>
        /\ body.reasoning_content = FlattenSeq([i \in DOMAIN parts |-> ThoughtOf(parts[i])])
        /\ body.tool_calls = [i \in DOMAIN made |-> Call(made[i].id, made[i].arguments)]
        /\ body.finish_reason = StopReason("chat", stop, made # <<>>)
        /\ body.usage = Usage("chat", usage)
    BY <2>4, EncodedChat
  <2>6. text \in WordSeq /\ body.reasoning_content \in WordSeq
    <3>1. Gives(SaidText, AnswerParts, Seq(Nat)) /\ Gives(Thought, AnswerParts, Seq(Nat))
      BY PartFunctions DEF Gives, WordSeq
    <3>2. FlattenSeq(Map(SaidText, parts)) \in Seq(Nat) /\ FlattenSeq(Map(Thought, parts)) \in Seq(Nat)
      BY <3>1, FlattenMapType
    <3> QED
      BY <2>1, <2>5, <3>2 DEF WordSeq
  <2>7. body.content \in Seq(TextTyped)
    <3>1. TextBlock("text", text) \in TextTyped
      BY <2>6 DEF TextBlock, TextTyped
    <3> QED
      BY <2>5, <3>1
  <2>8. body.tool_calls \in Seq(CallParted)
        /\ \A c \in DOMAIN body.tool_calls : Runs(body.tool_calls[c].arguments)
    <3>1. Len(made) \in Nat /\ DOMAIN made = 1 .. Len(made) /\ \A i \in DOMAIN made : made[i] \in ToolParted
      BY <2>2, LenProperties, MembersIn
    <3>2. \A i \in DOMAIN made : Call(made[i].id, made[i].arguments) \in CallParted
      BY <3>1 DEF Call, CallParted, ToolParted
    <3>3. \A i \in DOMAIN made : Call(made[i].id, made[i].arguments).arguments = made[i].arguments
      BY DEF Call
    <3> DEFINE calls1 == [i \in DOMAIN made |-> Call(made[i].id, made[i].arguments)]
    <3>4. calls1 \in Seq(CallParted)
      BY <3>1, <3>2
    <3>5. \A c \in DOMAIN calls1 : Runs(calls1[c].arguments)
      BY <2>3, <3>3
    <3>6. body.tool_calls = calls1
      BY <2>5
    <3> HIDE DEF calls1
    <3> QED
      BY <3>4, <3>5, <3>6
  <2>9. m \in ChatKept /\ m.tool_calls = body.tool_calls
    BY <2>6, <2>7, <2>8 DEF ChatMessage, ChatKept
  <2>10. Kept(body) = <<m>>
    BY <1>2 DEF Kept
  <2> HIDE DEF m
  <2>11. KeptMessages(client) = ChatKept /\ <<m>> \in Seq(ChatKept)
    BY <1>2, <2>9 DEF KeptMessages
  <2>12. Plainly(client, m)
    BY <1>2, <2>8, <2>9 DEF Plainly
  <2> QED
    BY <2>10, <2>11, <2>12
<1>3. CASE client = "anthropic"
  <2> DEFINE content == [i \in DOMAIN parts |-> AnthropicBlock(parts[i])]
             m == [role |-> "assistant", content |-> content]
  <2>1. body.content = content
    <3>1. body = EncodeCompletion("anthropic", parts, stop, usage)
      BY <1>3
    <3> DEFINE made == ToolsIn(parts)
    <3> HIDE DEF made
    <3>2. made = ToolsIn(parts)
      BY DEF made
    <3>3. /\ body.content = [i \in DOMAIN parts |-> AnthropicBlock(parts[i])]
          /\ body.stop_reason = StopReason("anthropic", stop, made # <<>>)
          /\ body.usage = Usage("anthropic", usage)
      BY <3>1, <3>2, EncodedAnthropic
    <3> QED
      BY <3>3
  <2>2. \A i \in DOMAIN content : content[i] \in AnswerBlocks
    BY <1>1, BlockOfPart DEF AsBlock
  <2>3. content \in Seq(AnswerBlocks \cup OpaqueBlock)
    BY <1>1, <2>2
  <2>4. \A i \in DOMAIN content : content[i].type # "redacted_thinking"
    BY <2>2, BlocksApart
  <2> HIDE DEF content
  <2>5. m \in AnthropicKept /\ m.content = content
    BY <2>3 DEF AnthropicKept
  <2>6. Kept(body) = IF content = <<>> THEN <<>> ELSE <<m>>
    BY <1>3, <2>1 DEF Kept
  <2>7. Plainly(client, m)
    BY <1>3, <2>4, <2>5 DEF Plainly
  <2> HIDE DEF m
  <2>8. KeptMessages(client) = AnthropicKept /\ <<m>> \in Seq(AnthropicKept) /\ <<>> \in Seq(AnthropicKept)
    BY <1>3, <2>5 DEF KeptMessages
  <2>9. CASE content = <<>>
    BY <2>6, <2>8, <2>9
  <2>10. CASE content # <<>>
    BY <2>6, <2>7, <2>8, <2>10
  <2> QED
    BY <2>9, <2>10
<1>4. CASE client = "responses"
  <2> DEFINE output == [i \in DOMAIN parts |-> ResponsesItem(parts[i])]
  <2>1. Kept(body) = output
    <3>1. body = EncodeCompletion("responses", parts, stop, usage)
      BY <1>4
    <3> DEFINE made == ToolsIn(parts)
    <3> HIDE DEF made
    <3>2. made = ToolsIn(parts)
      BY DEF made
    <3>3. /\ body.output = [i \in DOMAIN parts |-> ResponsesItem(parts[i])]
          /\ body.reason = ReasonFor(StopReason("responses", stop, made # <<>>))
          /\ body.usage = Usage("responses", usage)
      BY <3>1, <3>2, EncodedResponses
    <3> QED
      BY <1>4, <3>3 DEF Kept
  <2>2. \A i \in DOMAIN output : output[i] \in AnswerItems
    BY <1>1, ItemOfPart DEF AsItem
  <2>3. output \in Seq(ResponsesKept)
    BY <1>1, <2>2 DEF ResponsesKept
  <2>4. ASSUME NEW i \in DOMAIN output, output[i].type = "function_call" PROVE Runs(output[i].arguments)
    <3>1. parts[i].kind = "tool"
      BY <2>4 DEF ResponsesItem, ReasoningItem, MessageItem
    <3>2. output[i].arguments = parts[i].arguments
      BY <2>4, <3>1 DEF ResponsesItem, CallItem
    <3> QED
      BY <3>1, <3>2
  <2>5. \A i \in DOMAIN output : output[i].type # "web_search_call"
    BY <2>2, ItemsApart
  <2>6. \A i \in DOMAIN output : Plainly(client, output[i])
    <3> HIDE DEF output
    <3> QED
      BY <1>4, <2>4, <2>5 DEF Plainly
  <2> HIDE DEF output
  <2> QED
    BY <1>4, <2>1, <2>3, <2>6 DEF KeptMessages
<1> QED
  BY <1>2, <1>3, <1>4 DEF Protocols

\* What the client keeps of the answer that is told: what others have words for,
\* but for what the provider itself said in the client's own protocol.
LEMMA AnswerIsKept ==
  ASSUME client \in Protocols, NEW p, NEW shape, NEW end, NEW all, Saying(p, shape, end, all),
         NEW body, body = Answers(p, shape, end, all), client # p => ReadableReply(p, body),
         NEW told, told = Response(p, client, body)
  PROVE  /\ Kept(told) \in Seq(KeptMessages(client))
         /\ ToSet(shape) \cap {"opaque", "broken"} = {} =>
              \A i \in DOMAIN Kept(told) : Understood(client, Kept(told)[i])
<1>1. /\ Kept(told) \in Seq(KeptMessages(client))
      /\ ToSet(shape) \cap {"opaque", "broken"} = {} => \A i \in DOMAIN Kept(told) : Plainly(client, Kept(told)[i])
  <2>1. CASE p = client
    BY <2>1, OwnKept DEF Response
  <2>2. CASE p # client
    <3> DEFINE parts == ReplyParts(p, body)
               stop == ReplyStop(p, body)
               usage == TotalUsage(p, body.usage)
    <3>1. parts \in Seq(AnswerParts)
      BY <2>2, ReadsAll
    <3>2. \A i \in DOMAIN parts : parts[i].kind = "tool" => Runs(parts[i].arguments)
      BY <2>2 DEF ReadableReply, Runs
    <3>3. told = EncodeCompletion(client, parts, stop, usage)
      BY <2>2 DEF Response
    <3> HIDE DEF parts, stop, usage
    <3> QED
      BY <3>1, <3>2, <3>3, WrittenKept
  <2> QED
    BY <2>1, <2>2
<1>2. \A i \in DOMAIN Kept(told) : Kept(told)[i] \in KeptMessages(client)
  BY <1>1, MembersIn
<1> QED
  BY <1>1, <1>2, KeptUnderstood

-----------------------------------------------------------------------------
\* What is told of what is kept.

\* What is told of an answer.
Facts == [by : {"assistant", "call"}, of : {NoId}, word : Nat]

\* Words are told one by one,
LEMMA WordsTold ==
  ASSUME NEW w \in WordSeq
  PROVE  FlattenSeq([i \in DOMAIN w |-> <<Fact("assistant", NoId, w[i])>>]) \in Seq(Facts)
<1> DEFINE ss == [i \in DOMAIN w |-> <<Fact("assistant", NoId, w[i])>>]
<1>1. Len(w) \in Nat /\ DOMAIN w = 1 .. Len(w) /\ \A i \in DOMAIN w : w[i] \in Nat
  BY LenProperties, MembersIn DEF WordSeq
<1>2. \A i \in DOMAIN w : Fact("assistant", NoId, w[i]) \in Facts
  BY <1>1 DEF Fact, Facts
<1>3. ss \in Seq(Seq(Facts))
  BY <1>1, <1>2
<1> HIDE DEF ss
<1>4. FlattenSeq(ss) \in Seq(Facts)
  BY <1>3, FlattenType
<1> QED
  BY <1>4 DEF ss

\* a call by its id,
LEMMA CallTold == ASSUME NEW id \in Nat PROVE <<Fact("call", NoId, id)>> \in Seq(Facts)
BY DEF Fact, Facts

\* A block that has text.
LEMMA TextTold ==
  ASSUME NEW b, b.text \in WordSeq, b.type \notin {"thinking", "image_url", "input_image", "image"}
  PROVE  BlockFacts("assistant", NoId, b) \in Seq(Facts)
<1>1. BlockFacts("assistant", NoId, b) = FlattenSeq([i \in DOMAIN b.text |-> <<Fact("assistant", NoId, b.text[i])>>])
  BY DEF BlockFacts, FlattenEach
<1> QED
  BY <1>1, WordsTold

\* a thought by its words.
LEMMA ThoughtTold ==
  ASSUME NEW b, b.thinking \in WordSeq, b.type = "thinking"
  PROVE  BlockFacts("assistant", NoId, b) \in Seq(Facts)
<1>1. BlockFacts("assistant", NoId, b) = FlattenSeq([i \in DOMAIN b.thinking |-> <<Fact("assistant", NoId, b.thinking[i])>>])
  BY DEF BlockFacts, FlattenEach
<1> QED
  BY <1>1, WordsTold

\* The texts of a content.
LEMMA ContentTold ==
  ASSUME NEW S, NEW blocks \in Seq(S),
         \A b \in S : b.text \in WordSeq /\ b.type \notin {"thinking", "image_url", "input_image", "image"}
  PROVE  ContentFacts("assistant", NoId, blocks) \in Seq(Facts)
<1> DEFINE ss == [i \in DOMAIN blocks |-> BlockFacts("assistant", NoId, blocks[i])]
<1>1. Len(blocks) \in Nat /\ DOMAIN blocks = 1 .. Len(blocks) /\ \A i \in DOMAIN blocks : blocks[i] \in S
  BY LenProperties, MembersIn
<1>2. \A i \in DOMAIN blocks : BlockFacts("assistant", NoId, blocks[i]) \in Seq(Facts)
  BY <1>1, TextTold
<1>3. ss \in Seq(Seq(Facts))
  BY <1>1, <1>2
<1>4. ContentFacts("assistant", NoId, blocks) = FlattenSeq(ss)
  BY DEF ContentFacts, FlattenEach
<1> HIDE DEF ss
<1> QED
  BY <1>3, <1>4, FlattenType

\* What a kept Chat message tells,
LEMMA ChatTold ==
  ASSUME NEW m \in ChatKept
  PROVE  Told("chat", m) \in Seq(Facts)
<1> DEFINE a == FlattenSeq([i \in DOMAIN m.reasoning_content |-> <<Fact("assistant", NoId, m.reasoning_content[i])>>])
           b == ContentFacts("assistant", NoId, m.content)
           ss == [i \in DOMAIN m.tool_calls |-> <<Fact("call", NoId, m.tool_calls[i].id)>>]
           c == FlattenSeq(ss)
<1>1. m.role = "assistant" /\ m.content \in Seq(TextTyped) /\ m.reasoning_content \in WordSeq
      /\ m.tool_calls \in Seq(CallParted)
  BY DEF ChatKept
<1>2. a \in Seq(Facts)
  BY <1>1, WordsTold
<1>3. b \in Seq(Facts)
  <2>1. \A t \in TextTyped : t.text \in WordSeq /\ t.type \notin {"thinking", "image_url", "input_image", "image"}
    BY DEF TextTyped
  <2> QED
    BY <1>1, <2>1, ContentTold
<1>4. c \in Seq(Facts)
  <2>1. Len(m.tool_calls) \in Nat /\ DOMAIN m.tool_calls = 1 .. Len(m.tool_calls)
        /\ \A i \in DOMAIN m.tool_calls : m.tool_calls[i] \in CallParted
    BY <1>1, LenProperties, MembersIn
  <2>2. \A i \in DOMAIN m.tool_calls : m.tool_calls[i].id \in Nat
    BY <2>1 DEF CallParted
  <2>3. ss \in Seq(Seq(Facts))
    BY <2>1, <2>2, CallTold
  <2> HIDE DEF ss
  <2> QED
    BY <2>3, FlattenType
<1>5. Told("chat", m) = a \o b \o c
  <2>1. Speaker(m.role) = "assistant" /\ m.role # "tool"
    BY <1>1 DEF Speaker
  <2>2. Told("chat", m) = ChatFacts(m)
    BY DEF Told
  <2> QED
    BY <2>1, <2>2 DEF ChatFacts, FlattenEach
<1> HIDE DEF a, b, c
<1> DEFINE ab == a \o b
<1>6. ab \in Seq(Facts)
  BY <1>2, <1>3, ConcatProperties
<1> HIDE DEF ab
<1>7. ab \o c \in Seq(Facts)
  BY <1>4, <1>6, ConcatProperties
<1> QED
  BY <1>5, <1>7 DEF ab

\* a kept Anthropic message
LEMMA AnthropicTold ==
  ASSUME NEW m \in AnthropicKept
  PROVE  Told("anthropic", m) \in Seq(Facts)
<1> DEFINE ss == [i \in DOMAIN m.content |-> AnthropicFacts(m.role, m.content[i])]
<1>1. m.role = "assistant" /\ m.content \in Seq(AnswerBlocks \cup OpaqueBlock)
  BY DEF AnthropicKept
<1>2. Len(m.content) \in Nat /\ DOMAIN m.content = 1 .. Len(m.content)
      /\ \A i \in DOMAIN m.content : m.content[i] \in AnswerBlocks \cup OpaqueBlock
  BY <1>1, LenProperties, MembersIn
<1>3. ASSUME NEW b \in AnswerBlocks \cup OpaqueBlock PROVE AnthropicFacts("assistant", b) \in Seq(Facts)
  <2>1. CASE b \in TextTyped \cup OpaqueBlock
    <3>1. b.text \in WordSeq /\ b.type \in {"text", "redacted_thinking"}
      BY <2>1 DEF TextTyped, OpaqueBlock
    <3>2. AnthropicFacts("assistant", b) = BlockFacts("assistant", NoId, b)
      BY <3>1 DEF AnthropicFacts, Speaker
    <3> QED
      BY <3>1, <3>2, TextTold
  <2>2. CASE b \in ThinkingTyped
    <3>1. b.thinking \in WordSeq /\ b.type = "thinking"
      BY <2>2 DEF ThinkingTyped
    <3>2. AnthropicFacts("assistant", b) = BlockFacts("assistant", NoId, b)
      BY <3>1 DEF AnthropicFacts, Speaker
    <3> QED
      BY <3>1, <3>2, ThoughtTold
  <2>3. CASE b \in UseTyped
    <3>1. b.id \in Nat /\ b.type = "tool_use"
      BY <2>3 DEF UseTyped
    <3>2. AnthropicFacts("assistant", b) = <<Fact("call", NoId, b.id)>>
      BY <3>1 DEF AnthropicFacts
    <3> QED
      BY <3>1, <3>2, CallTold
  <2> QED
    BY <2>1, <2>2, <2>3 DEF AnswerBlocks
<1>4. ss \in Seq(Seq(Facts))
  BY <1>1, <1>2, <1>3
<1>5. Told("anthropic", m) = FlattenSeq(ss)
  BY DEF Told, FlattenEach
<1> HIDE DEF ss
<1> QED
  BY <1>4, <1>5, FlattenType

\* and a kept Responses item.
LEMMA ResponsesTold ==
  ASSUME NEW m \in ResponsesKept
  PROVE  Told("responses", m) \in Seq(Facts)
<1>0. Told("responses", m) = ResponsesFacts(m)
  BY DEF Told
<1>1. CASE m \in MessageTyped
  <2>1. m.type = "message" /\ m.role = "assistant" /\ m.content = <<m.content[1]>> /\ m.content[1] \in SaidTyped
    BY <1>1, OfMessage DEF MessageTyped
  <2>2. ResponsesFacts(m) = ContentFacts("assistant", NoId, m.content)
    BY <2>1 DEF ResponsesFacts, Speaker
  <2>3. m.content \in Seq(SaidTyped)
    <3> DEFINE b == m.content[1]
    <3>1. b \in SaidTyped
      BY <2>1
    <3> HIDE DEF b
    <3>2. <<b>> \in Seq(SaidTyped)
      BY <3>1
    <3> QED
      BY <2>1, <3>2 DEF b
  <2>4. \A b \in SaidTyped : b.text \in WordSeq /\ b.type \notin {"thinking", "image_url", "input_image", "image"}
    BY DEF SaidTyped
  <2> QED
    BY <1>0, <2>2, <2>3, <2>4, ContentTold
<1>2. CASE m \in CallTyped
  <2>1. m.type = "function_call" /\ m.call_id \in Nat
    BY <1>2 DEF CallTyped
  <2>2. ResponsesFacts(m) = <<Fact("call", NoId, m.call_id)>>
    BY <2>1 DEF ResponsesFacts
  <2> QED
    BY <1>0, <2>1, <2>2, CallTold
<1>3. CASE m \in ReasoningTyped
  <2> DEFINE w == m.summary[1]
             said1 == ContentFacts("assistant", NoId, <<TextBlock("text", w)>>)
  <2>1. m.type = "reasoning" /\ m.summary = <<w>> /\ w \in WordSeq
    BY <1>3, OfReasoning DEF ReasoningTyped
  <2>2. ResponsesFacts(m) = FlattenSeq([i \in DOMAIN m.summary |->
                              ContentFacts("assistant", NoId, <<TextBlock("text", m.summary[i])>>)])
    BY <2>1 DEF ResponsesFacts, FlattenEach
  <2>3. said1 \in Seq(Facts)
    <3>1. TextBlock("text", w) \in TextTyped
      BY <2>1 DEF TextBlock, TextTyped
    <3>2. \A t \in TextTyped : t.text \in WordSeq /\ t.type \notin {"thinking", "image_url", "input_image", "image"}
      BY DEF TextTyped
    <3> DEFINE t == TextBlock("text", w)
    <3> HIDE DEF t
    <3>3. <<t>> \in Seq(TextTyped)
      BY <3>1 DEF t
    <3> QED
      BY <3>2, <3>3, ContentTold DEF t
  <2> HIDE DEF w
  <2>4. [i \in DOMAIN m.summary |-> ContentFacts("assistant", NoId, <<TextBlock("text", m.summary[i])>>)]
          = <<said1>>
    BY <2>1
  <2> HIDE DEF said1
  <2> QED
    BY <1>0, <2>2, <2>3, <2>4, FlattenOne
<1>4. CASE m \in OpaqueItem
  <2> DEFINE b == m
  <2>1. m.type = "web_search_call" /\ m.text \in WordSeq
    BY <1>4 DEF OpaqueItem
  <2>2. ResponsesFacts(m) = ContentFacts("assistant", NoId, <<m>>)
    BY <2>1 DEF ResponsesFacts
  <2>3. <<m>> \in Seq(OpaqueItem)
    BY <1>4
  <2>4. \A t \in OpaqueItem : t.text \in WordSeq /\ t.type \notin {"thinking", "image_url", "input_image", "image"}
    BY DEF OpaqueItem
  <2> QED
    BY <1>0, <2>2, <2>3, <2>4, ContentTold
<1> QED
  BY <1>1, <1>2, <1>3, <1>4 DEF ResponsesKept, AnswerItems

\* The calls of an answer are a sequence.
LEMMA CallsKept ==
  ASSUME client \in Protocols, NEW ms \in Seq(KeptMessages(client))
  PROVE  CallsIn(TellsAll(client, ms)) \in Seq(Nat)
<1> DEFINE ss == [i \in DOMAIN ms |-> Told(client, ms[i])]
           facts == FlattenSeq(ss)
<1>1. Len(ms) \in Nat /\ DOMAIN ms = 1 .. Len(ms) /\ \A i \in DOMAIN ms : ms[i] \in KeptMessages(client)
  BY LenProperties, MembersIn
<1>2. \A m \in KeptMessages(client) : Told(client, m) \in Seq(Facts)
  <2>1. client = "chat" => \A m \in KeptMessages(client) : Told(client, m) \in Seq(Facts)
    BY ChatTold DEF KeptMessages
  <2>2. client = "anthropic" => \A m \in KeptMessages(client) : Told(client, m) \in Seq(Facts)
    BY AnthropicTold DEF KeptMessages
  <2>3. client = "responses" => \A m \in KeptMessages(client) : Told(client, m) \in Seq(Facts)
    BY ResponsesTold DEF KeptMessages
  <2> QED
    BY <2>1, <2>2, <2>3 DEF Protocols
<1>3. ss \in Seq(Seq(Facts))
  BY <1>1, <1>2
<1>4. TellsAll(client, ms) = facts
  BY DEF TellsAll, FlattenEach
<1> HIDE DEF ss
<1>5. facts \in Seq(Facts)
  BY <1>3, FlattenType
<1> HIDE DEF facts
<1> DEFINE cs == [i \in DOMAIN facts |-> IF facts[i].by = "call" THEN <<facts[i].word>> ELSE <<>>]
<1>6. CallsIn(facts) = FlattenSeq(cs)
  BY DEF CallsIn, FlattenEach
<1>7. Len(facts) \in Nat /\ DOMAIN facts = 1 .. Len(facts) /\ \A i \in DOMAIN facts : facts[i] \in Facts
  BY <1>5, LenProperties, MembersIn
<1>8. \A i \in DOMAIN facts : facts[i].word \in Nat
  BY <1>7 DEF Facts
<1>9. cs \in Seq(Seq(Nat))
  BY <1>7, <1>8
<1> HIDE DEF cs
<1> QED
  BY <1>4, <1>6, <1>9, FlattenType

-----------------------------------------------------------------------------
\* Histories.

Sequence(s) == s \in Seq(ToSet(s))
Heard(s) == \A i \in DOMAIN s : Understood(client, s[i])

\* Every sequence is one of its own members.
LEMMA IsSequence == ASSUME NEW S, NEW s \in Seq(S) PROVE Sequence(s)
<1>1. Len(s) \in Nat /\ s = [i \in 1 .. Len(s) |-> s[i]]
  BY LenProperties
<1>2. \A i \in 1 .. Len(s) : s[i] \in ToSet(s)
  BY LenProperties DEF ToSet
<1> QED
  BY <1>1, <1>2 DEF Sequence

\* Two histories after another are one, heard if both are.
LEMMA SequencesJoin ==
  ASSUME NEW a, NEW b, Sequence(a), Sequence(b)
  PROVE  Sequence(a \o b) /\ (Heard(a) /\ Heard(b) => Heard(a \o b))
<1> DEFINE S == ToSet(a) \cup ToSet(b)
           ab == a \o b
<1>1. a \in Seq(S) /\ b \in Seq(S)
  BY SeqOfMore DEF Sequence
<1> HIDE DEF S
<1>2. ab \in Seq(S)
  BY <1>1, ConcatProperties
<1>3. /\ Len(a) \in Nat /\ Len(b) \in Nat /\ DOMAIN a = 1 .. Len(a) /\ DOMAIN b = 1 .. Len(b)
      /\ DOMAIN ab = 1 .. Len(a) + Len(b)
      /\ \A i \in 1 .. Len(a) + Len(b) : ab[i] = IF i <= Len(a) THEN a[i] ELSE b[i - Len(a)]
  <2>1. Len(ab) = Len(a) + Len(b)
    BY <1>1, ConcatProperties
  <2>2. DOMAIN ab = 1 .. Len(ab)
    BY <1>2, LenProperties
  <2> QED
    BY <1>1, <2>1, <2>2, LenProperties, ConcatProperties
<1> HIDE DEF ab
<1>4. ASSUME Heard(a), Heard(b), NEW i \in DOMAIN ab PROVE Understood(client, ab[i])
  <2>1. CASE i <= Len(a)
    <3>1. i \in DOMAIN a /\ ab[i] = a[i]
      BY <1>3, <2>1
    <3> QED
      BY <1>4, <3>1 DEF Heard
  <2>2. CASE ~ (i <= Len(a))
    <3>1. i - Len(a) \in DOMAIN b /\ ab[i] = b[i - Len(a)]
      BY <1>3, <2>2
    <3> QED
      BY <1>4, <3>1 DEF Heard
  <2> QED
    BY <2>1, <2>2
<1>5. Sequence(ab)
  BY <1>2, IsSequence
<1> QED
  BY <1>4, <1>5 DEF ab, Heard

\* What a user says can be read,
LEMMA BlocksRead ==
  ASSUME client \in Protocols, NEW text, NEW picture \in BOOLEAN, NEW blocks,
         blocks = UserBlocks(text, picture)
  PROVE  Sequence(blocks) /\ Len(blocks) \in Nat /\ Readable(blocks)
<1> DEFINE type == CASE client = "chat" -> "text" [] client = "responses" -> "input_text" [] OTHER -> "text"
           other == CASE client = "chat" -> "image_url" [] client = "responses" -> "input_image" [] OTHER -> "image"
           a == TextBlock(type, <<text>>)
           b == PictureBlock(other, text + 1)
<1>1. blocks = <<a>> \o (IF picture THEN <<b>> ELSE <<>>)
  BY DEF UserBlocks
<1>2. a.type \in ReadableTypes /\ b.type \in ReadableTypes
  BY DEF TextBlock, PictureBlock, ReadableTypes, PlainTypes
<1> HIDE DEF a, b
<1>3. <<a>> \in Seq({a, b}) /\ (IF picture THEN <<b>> ELSE <<>>) \in Seq({a, b})
  <2> DEFINE S == {a, b}
  <2>1. a \in S /\ b \in S
    OBVIOUS
  <2> HIDE DEF S
  <2>2. <<a>> \in Seq(S) /\ <<b>> \in Seq(S) /\ <<>> \in Seq(S)
    BY <2>1
  <2> QED
    BY <2>2 DEF S
<1>4. blocks \in Seq({a, b})
  BY <1>1, <1>3, ConcatProperties
<1>5. Readable(blocks)
  <2>1. \A i \in DOMAIN blocks : blocks[i] \in {a, b}
    BY <1>4, MembersIn
  <2> QED
    BY <1>2, <2>1 DEF Readable
<1> QED
  BY <1>4, <1>5, IsSequence, LenProperties

\* and so can the message it is said in.
LEMMA UserUnderstood ==
  ASSUME client \in Protocols, NEW blocks, Readable(blocks)
  PROVE  Understood(client, UserMessage(blocks))
<1> DEFINE m == UserMessage(blocks)
<1>1. CASE client = "chat"
  <2>1. m = ChatMessage("user", blocks, <<>>, <<>>)
    BY <1>1 DEF UserMessage
  <2>2. m.content = blocks /\ m.tool_calls = <<>>
    BY <2>1 DEF ChatMessage
  <2>3. CallsOf(client, m) = <<>>
    BY <1>1, <2>2 DEF CallsOf, ToolsOf
  <2> QED
    BY <1>1, <2>2, <2>3 DEF Understood, ReadableMessage
<1>2. CASE client = "responses"
  <2>1. m = [type |-> "message", role |-> "user", content |-> blocks]
    BY <1>2 DEF UserMessage, MessageItem
  <2>2. CallsOf(client, m) = <<>>
    BY <1>2, <2>1 DEF CallsOf
  <2> QED
    BY <1>2, <2>1, <2>2 DEF Understood, ReadableMessage
<1>3. CASE client = "anthropic"
  <2>1. m.content = blocks
    BY <1>3 DEF UserMessage
  <2> QED
    BY <1>3, <2>1 DEF Understood, ReadableMessage
<1> QED
  BY <1>1, <1>2, <1>3 DEF Protocols

\* A history of one message
LEMMA OneHeard ==
  ASSUME NEW m, Understood(client, m)
  PROVE  Sequence(<<m>>) /\ Heard(<<m>>)
<1>1. Sequence(<<m>>)
  <2>1. <<m>> \in Seq({m})
    OBVIOUS
  <2> QED
    BY <2>1, IsSequence
<1>2. \A i \in DOMAIN <<m>> : <<m>>[i] = m
  OBVIOUS
<1> QED
  BY <1>1, <1>2 DEF Heard

\* The results of tool calls can be read.
LEMMA ResultsRead ==
  ASSUME client \in Protocols, calls \in Seq(Nat), NEW content, Readable(content), NEW failed,
         NEW more, Sequence(more), Readable(more)
  PROVE  Sequence(ResultMessages(content, failed, more)) /\ Heard(ResultMessages(content, failed, more))
<1> DEFINE rs == ResultMessages(content, failed, more)
<1>1. Len(calls) \in Nat /\ DOMAIN calls = 1 .. Len(calls)
  BY LenProperties
<1>2. CASE client = "chat"
  <2> DEFINE ms == [i \in DOMAIN calls |-> ToolMessage(calls[i], content)]
             S == {ToolMessage(calls[i], content) : i \in DOMAIN calls}
  <2>1. rs = ms
    BY <1>2 DEF ResultMessages
  <2>2. ms \in Seq(S)
    BY <1>1
  <2>3. ASSUME NEW id PROVE Understood("chat", ToolMessage(id, content))
    <3> DEFINE m == ToolMessage(id, content)
    <3>1. m.content = content /\ m.tool_calls = <<>>
      BY DEF ToolMessage, ChatMessage
    <3> HIDE DEF m
    <3>2. CallsOf("chat", m) = <<>>
      BY <3>1 DEF CallsOf, ToolsOf
    <3> QED
      BY <3>1, <3>2 DEF Understood, ReadableMessage, m
  <2>4. \A i \in DOMAIN ms : Understood("chat", ms[i])
    BY <2>3
  <2> HIDE DEF ms, S
  <2> QED
    BY <1>2, <2>1, <2>2, <2>4, IsSequence DEF Heard
<1>3. CASE client = "responses"
  <2> DEFINE ms == [i \in DOMAIN calls |-> OutputItem(calls[i], content)]
             S == {OutputItem(calls[i], content) : i \in DOMAIN calls}
  <2>1. rs = ms
    BY <1>3 DEF ResultMessages
  <2>2. ms \in Seq(S)
    BY <1>1
  <2>3. ASSUME NEW id PROVE Understood("responses", OutputItem(id, content))
    <3> DEFINE m == OutputItem(id, content)
    <3>1. m.type = "function_call_output" /\ m.output = content
      BY DEF OutputItem
    <3> HIDE DEF m
    <3>2. CallsOf("responses", m) = <<>>
      BY <3>1 DEF CallsOf
    <3> QED
      BY <3>1, <3>2 DEF Understood, ReadableMessage, m
  <2>4. \A i \in DOMAIN ms : Understood("responses", ms[i])
    BY <2>3
  <2> HIDE DEF ms, S
  <2> QED
    BY <1>3, <2>1, <2>2, <2>4, IsSequence DEF Heard
<1>4. CASE client = "anthropic"
  <2> DEFINE results == [i \in DOMAIN calls |-> ToolResult(calls[i], content, failed)]
             blocks == results \o more
             S == {ToolResult(calls[i], content, failed) : i \in DOMAIN calls}
             m == UserMessage(blocks)
  <2>1. rs = <<m>>
    BY <1>4 DEF ResultMessages
  <2>2. results \in Seq(S) /\ DOMAIN results = DOMAIN calls
    BY <1>1
  <2>3. \A i \in DOMAIN results : results[i].type = "tool_result"
    BY DEF ToolResult
  <2> HIDE DEF results, S
  <2>4. Readable(blocks)
    <3> DEFINE T == S \cup ToSet(more)
    <3>1. results \in Seq(T) /\ more \in Seq(T)
      BY <2>2, SeqOfMore DEF Sequence
    <3> HIDE DEF T
    <3>2. /\ Len(results) \in Nat /\ Len(more) \in Nat
          /\ DOMAIN results = 1 .. Len(results) /\ DOMAIN more = 1 .. Len(more)
          /\ blocks \in Seq(T) /\ Len(blocks) = Len(results) + Len(more)
          /\ \A i \in 1 .. Len(results) + Len(more) :
               blocks[i] = IF i <= Len(results) THEN results[i] ELSE more[i - Len(results)]
      BY <3>1, LenProperties, ConcatProperties
    <3>3. DOMAIN blocks = 1 .. Len(results) + Len(more)
      BY <3>2, LenProperties
    <3> HIDE DEF blocks
    <3>4. ASSUME NEW i \in DOMAIN blocks PROVE blocks[i].type \in ReadableTypes
      <4>1. CASE i <= Len(results)
        BY <2>3, <3>2, <3>3, <4>1 DEF ReadableTypes
      <4>2. CASE ~ (i <= Len(results))
        <5>1. i - Len(results) \in DOMAIN more /\ blocks[i] = more[i - Len(results)]
          BY <3>2, <3>3, <4>2
        <5> QED
          BY <5>1 DEF Readable
      <4> QED
        BY <4>1, <4>2
    <3> QED
      BY <3>4 DEF Readable
  <2> HIDE DEF blocks
  <2>5. Understood(client, m)
    BY <2>4, UserUnderstood
  <2> HIDE DEF m
  <2> QED
    BY <2>1, <2>5, OneHeard
<1> QED
  BY <1>2, <1>3, <1>4 DEF Protocols

\* and of none.
LEMMA NoneHeard == Sequence(<<>>) /\ Heard(<<>>)
<1>1. Sequence(<<>>)
  <2>1. <<>> \in Seq({})
    BY EmptySeq
  <2> QED
    BY <2>1, IsSequence
<1>2. DOMAIN <<>> = {}
  OBVIOUS
<1> QED
  BY <1>1, <1>2 DEF Heard

-----------------------------------------------------------------------------
\* The invariant: the client asks for what its protocol can ask, what is sent or refused is
\* the conversion of its request, the history has no message that another protocol could not
\* read unless something opaque is in it, and the last answer is the one the client heard.

Written ==
  /\ Sequence(history) /\ calls \in Seq(Nat) /\ words \in Nat /\ opaque \in BOOLEAN
  /\ turns \in Nat

IInv == Asking /\ Forwarded /\ Written /\ (opaque \/ Heard(history)) /\ AnswerKept

\* The invariant holds before the first request.
LEMMA Initially == Init => IInv
<1> SUFFICES ASSUME Init PROVE IInv
  OBVIOUS
<1>1. Asking
  BY DialogueAssumption DEF Init, Asking, SettingsSet
<1>2. Forwarded
  BY DEF Init, Forwarded
<1>3. AnswerKept
  BY DEF Init, AnswerKept
<1>4. Sequence(history) /\ Heard(history)
  <2>1. CASE client = "chat"
    <3> DEFINE m == ChatMessage("developer", <<TextBlock("text", <<1>>)>>, <<>>, <<>>)
    <3>1. Understood("chat", m)
      <4> DEFINE b == TextBlock("text", <<1>>)
      <4>1. m.content = <<b>> /\ m.tool_calls = <<>> /\ b.type = "text"
        BY DEF ChatMessage, TextBlock
      <4> HIDE DEF m, b
      <4>2. Readable(m.content)
        BY <4>1 DEF Readable, ReadableTypes, PlainTypes
      <4>3. CallsOf("chat", m) = <<>>
        BY <4>1 DEF CallsOf, ToolsOf
      <4> QED
        BY <4>2, <4>3 DEF Understood, ReadableMessage
    <3>2. history = <<m>>
      BY <2>1 DEF Init
    <3> HIDE DEF m
    <3> QED
      BY <2>1, <3>1, <3>2, OneHeard
  <2>2. CASE client # "chat"
    <3>1. history = <<>>
      BY <2>2 DEF Init
    <3> QED
      BY <3>1, NoneHeard
  <2> QED
    BY <2>1, <2>2
<1>5. calls \in Seq(Nat) /\ words \in Nat /\ opaque \in BOOLEAN /\ turns \in Nat
  <2>1. calls = <<>> /\ words = 1 /\ opaque = FALSE /\ turns = 0
    BY DEF Init
  <2>2. calls \in Seq(Nat)
    BY <2>1, EmptySeq
  <2>3. words \in Nat /\ turns \in Nat
    BY <2>1
  <2>4. opaque \in BOOLEAN
    BY <2>1, Zenon
  <2> QED
    BY <2>2, <2>3, <2>4
<1> QED
  BY <1>1, <1>2, <1>3, <1>4, <1>5 DEF IInv, Written

\* What the client asks for does not change.
LEMMA AskingKept == ASSUME Asking, UNCHANGED <<client, settings>> PROVE Asking'
BY DEF Asking

\* A new turn begins: nothing is sent or answered yet.
LEMMA TurnBegins ==
  ASSUME IInv, Turn, Sequence(history'), opaque \/ Heard(history)', words' \in Nat
  PROVE  IInv'
<1>1. client' = client /\ settings' = settings /\ phase' = "ready" /\ answer' = Nothing
      /\ calls' = <<>> /\ opaque' = opaque /\ turns' = turns + 1
  BY DEF Turn
<1>2. Asking'
  BY <1>1, AskingKept DEF IInv
<1>3. Forwarded'
  BY <1>1 DEF Forwarded
<1>4. AnswerKept'
  BY <1>1 DEF AnswerKept
<1>5. Written'
  BY <1>1 DEF Written, IInv, Sequence
<1>6. (opaque \/ Heard(history))'
  BY <1>1
<1> QED
  BY <1>2, <1>3, <1>4, <1>5, <1>6 DEF IInv

\* The user asks,
LEMMA AskKeeps == ASSUME IInv, NEW picture \in BOOLEAN, Ask(picture) PROVE IInv'
<1> DEFINE blocks == UserBlocks(words + 1, picture)
           m == UserMessage(blocks)
<1>1. client \in Protocols /\ Sequence(history) /\ words \in Nat /\ opaque \in BOOLEAN
  BY DEF IInv, Asking, Written
<1>2. Sequence(blocks) /\ Len(blocks) \in Nat /\ Readable(blocks)
  BY <1>1, BlocksRead
<1> HIDE DEF blocks
<1>3. Understood(client, m)
  BY <1>1, <1>2, UserUnderstood
<1>4. history' = Append(history, m) /\ words' = words + Len(blocks) /\ Turn
  BY DEF Ask, blocks
<1> HIDE DEF m
<1>5. Append(history, m) = history \o <<m>>
  <2> DEFINE S == ToSet(history) \cup {m}
  <2>1. history \in Seq(S) /\ m \in S
    BY <1>1, SeqOfMore DEF Sequence
  <2> HIDE DEF S
  <2> QED
    BY <2>1, AppendIsConcat
<1>6. Sequence(history') /\ (Heard(history) => Heard(history'))
  <2>1. Sequence(<<m>>) /\ Heard(<<m>>)
    BY <1>3, OneHeard
  <2> QED
    BY <1>1, <1>4, <1>5, <2>1, SequencesJoin
<1>7. client' = client
  BY <1>4 DEF Turn
<1>8. Heard(history') => Heard(history)'
  BY <1>7 DEF Heard
<1>9. opaque \/ Heard(history)'
  BY <1>6, <1>8 DEF IInv
<1>10. words' \in Nat
  BY <1>1, <1>2, <1>4
<1> QED
  BY <1>4, <1>6, <1>9, <1>10, TurnBegins

\* or the tools have run.
LEMMA SendResultsKeeps ==
  ASSUME IInv, NEW picture \in BOOLEAN, NEW failed \in BOOLEAN, NEW more \in BOOLEAN,
         SendResults(picture, failed, more)
  PROVE  IInv'
<1> DEFINE content == UserBlocks(words + 1, picture)
           next == words + 1 + Len(content)
           said2 == UserBlocks(next, FALSE)
           asked == IF more THEN said2 ELSE <<>>
           results == ResultMessages(content, failed, asked)
           rest == IF more /\ client # "anthropic" THEN <<UserMessage(asked)>> ELSE <<>>
<1>1. client \in Protocols /\ Sequence(history) /\ words \in Nat /\ opaque \in BOOLEAN /\ calls \in Seq(Nat)
  BY DEF IInv, Asking, Written
<1>2. history' = history \o results \o rest /\ words' = next /\ Turn
  BY DEF SendResults
<1>3. Sequence(content) /\ Len(content) \in Nat /\ Readable(content)
  BY <1>1, BlocksRead
<1>4. Sequence(said2) /\ Readable(said2)
  <2> HIDE DEF next
  <2> QED
    BY <1>1, BlocksRead
<1> HIDE DEF said2
<1>5. Sequence(asked) /\ Readable(asked)
  BY <1>4, NoneHeard DEF Readable
<1>6. next \in Nat
  <2> HIDE DEF content
  <2> QED
    BY <1>1, <1>3
<1> HIDE DEF content, next, asked
<1>7. Sequence(results) /\ Heard(results)
  BY <1>1, <1>3, <1>5, ResultsRead
<1>8. Sequence(rest) /\ Heard(rest)
  <2>1. Understood(client, UserMessage(asked))
    BY <1>1, <1>5, UserUnderstood
  <2> QED
    BY <2>1, OneHeard, NoneHeard
<1> HIDE DEF results, rest
<1> DEFINE first == history \o results
<1>9. Sequence(first) /\ (Heard(history) => Heard(first))
  BY <1>1, <1>7, SequencesJoin
<1> HIDE DEF first
<1>10. Sequence(first \o rest) /\ (Heard(first) => Heard(first \o rest))
  BY <1>8, <1>9, SequencesJoin
<1>11. history' = first \o rest
  BY <1>2 DEF first
<1>12. client' = client
  BY <1>2 DEF Turn
<1>13. Heard(history') => Heard(history)'
  BY <1>12 DEF Heard
<1>14. opaque \/ Heard(history)'
  BY <1>9, <1>10, <1>11, <1>13 DEF IInv
<1>15. Sequence(history') /\ words' \in Nat
  BY <1>2, <1>6, <1>10, <1>11
<1> QED
  BY <1>2, <1>14, <1>15, TurnBegins

\* The request is converted, or refused.
LEMMA ForwardKeeps == ASSUME IInv, NEW p \in Protocols, Forward(p) PROVE IInv'
<1>1. /\ client' = client /\ settings' = settings /\ history' = history /\ words' = words
      /\ opaque' = opaque /\ calls' = calls /\ turns' = turns /\ provider' = p
  BY DEF Forward
<1>2. Body' = Body
  BY <1>1 DEF Body
<1>3. IF Convertible(client, p, Body)
        THEN phase' = "waiting" /\ sent' = Request(client, p, Body)
        ELSE phase' = "refused" /\ sent' = Nothing
  BY DEF Forward
<1>4. Asking'
  BY <1>1, AskingKept DEF IInv
<1>5. Forwarded'
  BY <1>1, <1>2, <1>3 DEF Forwarded
<1>6. AnswerKept'
  BY <1>3 DEF AnswerKept
<1>7. Written'
  BY <1>1 DEF Written, IInv, Sequence
<1>8. (opaque \/ Heard(history))'
  BY <1>1 DEF IInv, Heard
<1> QED
  BY <1>4, <1>5, <1>6, <1>7, <1>8 DEF IInv

\* The answer is converted, or fails.
LEMMA AnswerKeeps ==
  ASSUME IInv, NEW shape \in Shapes, NEW end \in Ends, NEW usage \in Usages, Answer(shape, end, usage)
  PROVE  IInv'
<1> DEFINE body == Answers(provider, shape, end, usage)
           told == Response(provider, client, body)
           facts == TellsAll(client, Kept(told))
           foreign == ToSet(shape) \cap {"opaque", "broken"} # {}
           bad == body.failed \/ (client # provider /\ ~ ReadableReply(provider, body))
<1>1. /\ client \in Protocols /\ Sequence(history) /\ words \in Nat /\ opaque \in BOOLEAN
      /\ calls \in Seq(Nat) /\ turns \in Nat
  BY DEF IInv, Asking, Written
<1>2. phase = "waiting" /\ Says(provider, shape, end)
  BY DEF Answer
<1>3. provider \in Protocols
  BY <1>2 DEF IInv, Forwarded
<1>4. /\ client' = client /\ settings' = settings /\ turns' = turns /\ provider' = provider
      /\ sent' = Nothing
  BY DEF Answer
<1>5. Asking'
  BY <1>4, AskingKept DEF IInv
<1>6. CASE bad
  <2>1. phase' = "failed" /\ UNCHANGED <<history, said, words, opaque, calls, answer, reply>>
    BY <1>6, Zenon DEF Answer
  <2>2. Forwarded' /\ AnswerKept'
    BY <2>1 DEF Forwarded, AnswerKept
  <2>3. Written'
    BY <1>4, <2>1 DEF Written, IInv, Sequence
  <2>4. (opaque \/ Heard(history))'
    BY <1>4, <2>1 DEF IInv, Heard
  <2> QED
    BY <1>5, <2>2, <2>3, <2>4 DEF IInv
<1>7. CASE ~ bad
  <2>1. /\ phase' = "idle" /\ answer' = body /\ reply' = told /\ history' = history \o Kept(told)
        /\ words' = words + Len(shape) /\ opaque' = (opaque \/ foreign) /\ calls' = CallsIn(facts)
    BY <1>7, Zenon DEF Answer
  <2>2. Saying(provider, shape, end, usage)
    <3>1. shape \in Seq(Kinds) /\ end \in {"done", "limit", "filter", "sequence", "failed"}
          /\ usage \in [input : Nat, output : Nat, cached : Nat, creation : Nat, reasoning : Nat]
      BY DialogueAssumption
    <3>2. body.failed = (end = "failed")
      <4>1. provider = "chat" => body.failed = (end = "failed")
        BY DEF Answers, ChatReply
      <4>2. provider = "anthropic" => body.failed = (end = "failed")
        BY DEF Answers, AnthropicReply
      <4>3. provider = "responses" => body.failed = (end = "failed")
        BY DEF Answers, ResponsesReply
      <4> QED
        BY <1>3, <4>1, <4>2, <4>3 DEF Protocols
    <3>3. end # "failed"
      BY <1>7, <3>2
    <3> QED
      BY <1>1, <1>2, <1>3, <3>1, <3>3 DEF Saying
  <2>3. client # provider => ReadableReply(provider, body)
    BY <1>7
  <2> HIDE DEF body
  <2>4. /\ Kept(told) \in Seq(KeptMessages(client))
        /\ ~ foreign => Heard(Kept(told))
    BY <1>1, <2>2, <2>3, AnswerIsKept DEF body, Heard
  <2>5. Faithful(provider, body, told)
    <3>1. CASE client = provider
      <4>1. told = body
        BY <3>1 DEF Response
      <4> QED
        BY <2>2, <3>1, <4>1, OwnAnswer DEF body
    <3>2. CASE client # provider
      BY <1>1, <2>2, <2>3, <3>2, ConvertedAnswer DEF body
    <3> QED
      BY <3>1, <3>2
  <2> HIDE DEF told, foreign
  <2>6. CallsIn(facts) \in Seq(Nat)
    BY <1>1, <2>4, CallsKept
  <2> HIDE DEF facts
  <2>7. Sequence(Kept(told))
    BY <2>4, IsSequence
  <2>8. Sequence(history') /\ (Heard(history) /\ ~ foreign => Heard(history'))
    BY <1>1, <2>1, <2>4, <2>7, SequencesJoin
  <2>9. (opaque \/ Heard(history))'
    <3>1. Heard(history') => Heard(history)'
      BY <1>4 DEF Heard
    <3> QED
      BY <2>1, <2>8, <3>1 DEF IInv
  <2>10. Written'
    <3>1. Len(shape) \in Nat
      BY <2>2, LenProperties DEF Saying
    <3>2. words' \in Nat /\ opaque' \in BOOLEAN
      BY <1>1, <2>1, <3>1 DEF foreign
    <3> QED
      BY <1>1, <1>4, <2>1, <2>6, <2>8, <3>2 DEF Written, Sequence
  <2>11. Forwarded'
    BY <2>1 DEF Forwarded
  <2>12. AnswerKept'
    <3>1. /\ Spoken(client, told) = Spoken(provider, body)
          /\ Meaning(client, told) = Meaning(provider, body)
          /\ Tokens(client, told.usage) = Tokens(provider, body.usage)
          /\ client # "responses" /\ Meaning(client, told) = "over" =>
               (ReplyStop(client, told) \in {"tool_calls", "tool_use"} <=> Spoken(client, told).calls # <<>>)
      BY <2>5 DEF Faithful
    <3> QED
      BY <1>4, <2>1, <3>1, Zenon DEF AnswerKept
  <2> QED
    BY <1>5, <2>9, <2>10, <2>11, <2>12 DEF IInv
<1> QED
  BY <1>6, <1>7

\* Every step keeps the invariant.
LEMMA Steps == IInv /\ [Next]_vars => IInv'
<1> SUFFICES ASSUME IInv, [Next]_vars PROVE IInv'
  OBVIOUS
<1>1. CASE \E picture \in BOOLEAN : Ask(picture)
  BY <1>1, AskKeeps
<1>2. CASE \E picture, failed, more \in BOOLEAN : SendResults(picture, failed, more)
  BY <1>2, SendResultsKeeps
<1>3. CASE \E p \in Protocols : Forward(p)
  BY <1>3, ForwardKeeps
<1>4. CASE \E shape \in Shapes, end \in Ends, usage \in Usages : Answer(shape, end, usage)
  BY <1>4, AnswerKeeps
<1>5. CASE UNCHANGED vars
  <2>1. /\ client' = client /\ settings' = settings /\ history' = history /\ words' = words
        /\ opaque' = opaque /\ calls' = calls /\ turns' = turns /\ phase' = phase
        /\ provider' = provider /\ sent' = sent /\ answer' = answer /\ reply' = reply
    BY <1>5 DEF vars
  <2>2. Body' = Body
    BY <2>1 DEF Body
  <2>3. Asking' /\ Forwarded' /\ Written'
    BY <2>1, <2>2 DEF IInv, Asking, Forwarded, Written, Sequence
  <2>4. AnswerKept' /\ (opaque \/ Heard(history))'
    BY <2>1 DEF IInv, AnswerKept, Heard
  <2> QED
    BY <2>3, <2>4 DEF IInv
<1> QED
  BY <1>1, <1>2, <1>3, <1>4, <1>5 DEF Next

\* The invariant holds throughout every conversation.
THEOREM Invariance == Spec => []IInv
BY Initially, Steps, PTL DEF Spec

\* A converted request asks for what the client asked for: limit, choice of tools, calls in
\* parallel, stops, format and effort, whatever it asks and whichever protocols meet (Request).
THEOREM SettingsAreKept == Spec => []SettingsKept
<1>1. IInv => SettingsKept
  BY KeepsSettings DEF IInv
<1> QED
  BY <1>1, Invariance, PTL

\* A request is refused only for what the client asked or for a block that only its protocol
\* has: whatever providers answered before, an ordinary conversation can move on (call, Request).
THEOREM RefusalsHaveCause == Spec => []RefusedForCause
<1>1. IInv => WellRead
  BY DEF IInv, WellRead, Heard
<1>2. IInv => RefusedForCause
  BY <1>1, RefusesForCause DEF IInv
<1> QED
  BY <1>2, Invariance, PTL

\* The client hears all that the provider said, of each kind in its order, learns how it ended,
\* is told to run tools exactly when there are calls, and counts the same tokens (Response).
THEOREM AnswersAreKept == Spec => []AnswerKept
<1>1. IInv => AnswerKept
  BY DEF IInv
<1> QED
  BY <1>1, Invariance, PTL

-----------------------------------------------------------------------------
\* What writeMessages makes of a message, a part at a time, and of a request, a message at a
\* time: the recursive functions exist, and what they give for one more.

Started(items) == [items |-> items, pending |-> <<>>, thinking |-> <<>>, calls |-> <<>>]
WritesTo(acc, to, role, items, parts, n) ==
  acc = [i \in 0 .. n |-> IF i = 0 THEN Started(items) ELSE WritePart(to, role, acc[i - 1], parts[i])]

\* The function that writes the first n parts exists.
LEMMA WritesExist ==
  ASSUME NEW to, NEW role, NEW items, NEW parts
  PROVE  \A n \in Nat : \E acc : WritesTo(acc, to, role, items, parts, n)
<1> DEFINE Works == {n \in Nat : \E acc : WritesTo(acc, to, role, items, parts, n)}
<1>1. 0 \in Works
  <2> DEFINE acc == [i \in 0 .. 0 |-> Started(items)]
  <2>1. WritesTo(acc, to, role, items, parts, 0)
    BY DEF WritesTo
  <2> QED
    BY <2>1
<1>2. ASSUME NEW n \in Nat, n \in Works
      PROVE  n + 1 \in Works
  <2>1. PICK g : WritesTo(g, to, role, items, parts, n)
    BY <1>2
  <2> DEFINE h == [i \in 0 .. n + 1 |-> IF i <= n THEN g[i] ELSE WritePart(to, role, g[n], parts[n + 1])]
  <2>2. ASSUME NEW i \in 0 .. n + 1
        PROVE  h[i] = IF i = 0 THEN Started(items) ELSE WritePart(to, role, h[i - 1], parts[i])
    <3>1. CASE i = 0
      BY <2>1, <3>1 DEF WritesTo
    <3>2. CASE i # 0 /\ i <= n
      <4>1. i - 1 \in 0 .. n /\ i \in 0 .. n /\ i - 1 \in 0 .. n + 1
        BY <3>2
      <4>2. h[i] = g[i] /\ h[i - 1] = g[i - 1]
        BY <3>2, <4>1
      <4>3. g[i] = WritePart(to, role, g[i - 1], parts[i])
        BY <2>1, <3>2, <4>1 DEF WritesTo
      <4> QED
        BY <3>2, <4>2, <4>3
    <3>3. CASE i = n + 1
      <4>1. h[i] = WritePart(to, role, g[n], parts[n + 1]) /\ h[n] = g[n] /\ i - 1 = n /\ i # 0
        BY <3>3
      <4> QED
        BY <3>3, <4>1
    <3> QED
      BY <3>1, <3>2, <3>3
  <2>3. h = [i \in 0 .. n + 1 |-> h[i]]
    OBVIOUS
  <2> HIDE DEF h
  <2>4. WritesTo(h, to, role, items, parts, n + 1)
    BY <2>2, <2>3 DEF WritesTo
  <2> QED
    BY <2>4
<1> HIDE DEF Works
<1>3. Nat \subseteq Works
  BY <1>1, <1>2, Induction
<1> QED
  BY <1>3 DEF Works

\* Each of its values is made of the one before.
LEMMA WritesNext ==
  ASSUME NEW to, NEW role, NEW items, NEW parts, NEW n \in Nat, NEW acc,
         WritesTo(acc, to, role, items, parts, n)
  PROVE  \A i \in 0 .. n - 1 : acc[i + 1] = WritePart(to, role, acc[i], parts[i + 1])
<1> TAKE i \in 0 .. n - 1
<1>1. i + 1 \in 0 .. n /\ i + 1 # 0 /\ i + 1 - 1 = i
  OBVIOUS
<1> DEFINE f == [k \in 0 .. n |-> IF k = 0 THEN Started(items) ELSE WritePart(to, role, acc[k - 1], parts[k])]
<1>2. acc = f
  BY DEF WritesTo
<1>3. f[i + 1] = WritePart(to, role, acc[i + 1 - 1], parts[i + 1])
  BY <1>1
<1> HIDE DEF f
<1> QED
  BY <1>1, <1>2, <1>3

\* WriteParts is the last value of that function.
LEMMA WritesParts ==
  ASSUME NEW to, NEW role, NEW items, NEW parts, Len(parts) \in Nat
  PROVE  \E acc : /\ WritesTo(acc, to, role, items, parts, Len(parts))
                  /\ WriteParts(to, role, items, parts) = acc[Len(parts)]
<1> DEFINE acc == CHOOSE acc : acc = [i \in 0 .. Len(parts) |->
                     IF i = 0 THEN [items |-> items, pending |-> <<>>, thinking |-> <<>>, calls |-> <<>>]
                              ELSE WritePart(to, role, acc[i - 1], parts[i])]
<1>1. \E a : a = [i \in 0 .. Len(parts) |->
                     IF i = 0 THEN [items |-> items, pending |-> <<>>, thinking |-> <<>>, calls |-> <<>>]
                              ELSE WritePart(to, role, a[i - 1], parts[i])]
  <2>1. \E a : WritesTo(a, to, role, items, parts, Len(parts))
    BY WritesExist
  <2> QED
    BY <2>1, Zenon DEF WritesTo, Started
<1>2. acc = [i \in 0 .. Len(parts) |->
                     IF i = 0 THEN [items |-> items, pending |-> <<>>, thinking |-> <<>>, calls |-> <<>>]
                              ELSE WritePart(to, role, acc[i - 1], parts[i])]
  BY <1>1
<1>3. WriteParts(to, role, items, parts) = acc[Len(parts)]
  BY DEF WriteParts
<1> HIDE DEF acc
<1>4. WritesTo(acc, to, role, items, parts, Len(parts))
  BY <1>2 DEF WritesTo, Started
<1> QED
  BY <1>3, <1>4

\* No part is nothing written,
LEMMA PartsNone ==
  ASSUME NEW to, NEW role, NEW items
  PROVE  WriteParts(to, role, items, <<>>) = Started(items)
<1>1. Len(<<>>) = 0
  OBVIOUS
<1>2. PICK acc : /\ WritesTo(acc, to, role, items, <<>>, 0)
                 /\ WriteParts(to, role, items, <<>>) = acc[0]
  BY <1>1, WritesParts
<1> QED
  BY <1>2 DEF WritesTo

\* and one part more is written after the others.
LEMMA PartsMore ==
  ASSUME NEW to, NEW role, NEW items, NEW S, NEW parts \in Seq(S), NEW p \in S
  PROVE  WriteParts(to, role, items, Append(parts, p)) = WritePart(to, role, WriteParts(to, role, items, parts), p)
<1> DEFINE more == Append(parts, p)
           n == Len(parts)
<1>1. /\ n \in Nat /\ Len(more) = n + 1 /\ more[n + 1] = p /\ \A i \in 1 .. n : more[i] = parts[i]
  BY AppendProperties, LenProperties
<1> HIDE DEF more, n
<1>2. PICK g : WritesTo(g, to, role, items, parts, n) /\ WriteParts(to, role, items, parts) = g[n]
  BY <1>1, WritesParts DEF n
<1>3. PICK h : WritesTo(h, to, role, items, more, n + 1) /\ WriteParts(to, role, items, more) = h[n + 1]
  <2>1. Len(more) \in Nat
    BY <1>1
  <2> QED
    BY <1>1, <2>1, WritesParts
<1>8. \A k \in 0 .. n : h[k + 1] = WritePart(to, role, h[k], more[k + 1])
  <2> DEFINE m == n + 1
  <2>1. m \in Nat /\ m - 1 = n
    BY <1>1
  <2>2. WritesTo(h, to, role, items, more, m)
    BY <1>3
  <2> HIDE DEF m
  <2>3. \A k \in 0 .. m - 1 : h[k + 1] = WritePart(to, role, h[k], more[k + 1])
    BY <2>1, <2>2, WritesNext
  <2> QED
    BY <2>1, <2>3
<1> DEFINE Agree == {i \in Nat : i <= n => g[i] = h[i]}
<1>4. 0 \in Agree
  BY <1>1, <1>2, <1>3 DEF WritesTo
<1>5. ASSUME NEW i \in Nat, i \in Agree
      PROVE  i + 1 \in Agree
  <2> SUFFICES ASSUME i + 1 <= n PROVE g[i + 1] = h[i + 1]
    OBVIOUS
  <2>1. i + 1 \in 0 .. n /\ i + 1 \in 0 .. n + 1 /\ i + 1 # 0 /\ i + 1 - 1 = i /\ i + 1 \in 1 .. n
    BY <1>1
  <2>2. g[i] = h[i]
    BY <1>1, <1>5
  <2>3. g[i + 1] = WritePart(to, role, g[i], parts[i + 1])
    <3>1. \A k \in 0 .. n - 1 : g[k + 1] = WritePart(to, role, g[k], parts[k + 1])
      BY <1>1, <1>2, WritesNext
    <3>2. i \in 0 .. n - 1
      BY <1>1
    <3> QED
      BY <3>1, <3>2
  <2>4. h[i + 1] = WritePart(to, role, h[i], more[i + 1])
    <3>1. \A k \in 0 .. n : h[k + 1] = WritePart(to, role, h[k], more[k + 1])
      BY <1>8
    <3>2. i \in 0 .. n
      BY <1>1
    <3> QED
      BY <3>1, <3>2
  <2> QED
    BY <1>1, <2>1, <2>2, <2>3, <2>4
<1> HIDE DEF Agree
<1>6. n \in Agree
  BY <1>1, <1>4, <1>5, Induction
<1>7. g[n] = h[n]
  BY <1>1, <1>6 DEF Agree
<1>9. h[n + 1] = WritePart(to, role, h[n], p)
  BY <1>1, <1>8
<1> QED
  BY <1>2, <1>3, <1>7, <1>9 DEF more

Gathered(to, items, m) ==
  IF to = "anthropic" /\ IsSystem(m) THEN items ELSE WriteMessage(to, items, m)
GathersTo(acc, to, ms, n) ==
  acc = [i \in 0 .. n |-> IF i = 0 THEN <<>> ELSE Gathered(to, acc[i - 1], ms[i])]

\* The function that writes the first n messages exists.
LEMMA GathersExist ==
  ASSUME NEW to, NEW ms
  PROVE  \A n \in Nat : \E acc : GathersTo(acc, to, ms, n)
<1> DEFINE Works == {n \in Nat : \E acc : GathersTo(acc, to, ms, n)}
<1>1. 0 \in Works
  <2> DEFINE acc == [i \in 0 .. 0 |-> <<>>]
  <2>1. GathersTo(acc, to, ms, 0)
    BY DEF GathersTo
  <2> QED
    BY <2>1
<1>2. ASSUME NEW n \in Nat, n \in Works
      PROVE  n + 1 \in Works
  <2>1. PICK g : GathersTo(g, to, ms, n)
    BY <1>2
  <2> DEFINE h == [i \in 0 .. n + 1 |-> IF i <= n THEN g[i] ELSE Gathered(to, g[n], ms[n + 1])]
  <2>2. ASSUME NEW i \in 0 .. n + 1
        PROVE  h[i] = IF i = 0 THEN <<>> ELSE Gathered(to, h[i - 1], ms[i])
    <3>1. CASE i = 0
      BY <2>1, <3>1 DEF GathersTo
    <3>2. CASE i # 0 /\ i <= n
      <4>1. i - 1 \in 0 .. n /\ i \in 0 .. n /\ i - 1 \in 0 .. n + 1
        BY <3>2
      <4>2. h[i] = g[i] /\ h[i - 1] = g[i - 1]
        BY <3>2, <4>1
      <4>3. g[i] = Gathered(to, g[i - 1], ms[i])
        BY <2>1, <3>2, <4>1 DEF GathersTo
      <4> QED
        BY <3>2, <4>2, <4>3
    <3>3. CASE i = n + 1
      <4>1. h[i] = Gathered(to, g[n], ms[n + 1]) /\ h[n] = g[n] /\ i - 1 = n /\ i # 0
        BY <3>3
      <4> QED
        BY <3>3, <4>1
    <3> QED
      BY <3>1, <3>2, <3>3
  <2>3. h = [i \in 0 .. n + 1 |-> h[i]]
    OBVIOUS
  <2> HIDE DEF h
  <2>4. GathersTo(h, to, ms, n + 1)
    BY <2>2, <2>3 DEF GathersTo
  <2> QED
    BY <2>4
<1> HIDE DEF Works
<1>3. Nat \subseteq Works
  BY <1>1, <1>2, Induction
<1> QED
  BY <1>3 DEF Works

\* Each of its values is made of the one before.
LEMMA GathersNext ==
  ASSUME NEW to, NEW ms, NEW n \in Nat, NEW acc,
         GathersTo(acc, to, ms, n)
  PROVE  \A i \in 0 .. n - 1 : acc[i + 1] = Gathered(to, acc[i], ms[i + 1])
<1> TAKE i \in 0 .. n - 1
<1>1. i + 1 \in 0 .. n /\ i + 1 # 0 /\ i + 1 - 1 = i
  OBVIOUS
<1> DEFINE f == [k \in 0 .. n |-> IF k = 0 THEN <<>> ELSE Gathered(to, acc[k - 1], ms[k])]
<1>2. acc = f
  BY DEF GathersTo
<1>3. f[i + 1] = Gathered(to, acc[i + 1 - 1], ms[i + 1])
  BY <1>1
<1> HIDE DEF f
<1> QED
  BY <1>1, <1>2, <1>3

\* WriteMessages is the last value of that function.
LEMMA GathersMessages ==
  ASSUME NEW to, NEW ms, Len(ms) \in Nat
  PROVE  \E acc : GathersTo(acc, to, ms, Len(ms)) /\ WriteMessages(to, ms) = acc[Len(ms)]
<1> DEFINE acc == CHOOSE acc : acc = [n \in 0 .. Len(ms) |->
                     IF n = 0 THEN <<>>
                     ELSE IF to = "anthropic" /\ IsSystem(ms[n]) THEN acc[n - 1]
                     ELSE WriteMessage(to, acc[n - 1], ms[n])]
<1>1. \E a : a = [n \in 0 .. Len(ms) |->
                     IF n = 0 THEN <<>>
                     ELSE IF to = "anthropic" /\ IsSystem(ms[n]) THEN a[n - 1]
                     ELSE WriteMessage(to, a[n - 1], ms[n])]
  <2>1. \E a : GathersTo(a, to, ms, Len(ms))
    BY GathersExist
  <2> QED
    BY <2>1, Zenon DEF GathersTo, Gathered
<1>2. acc = [n \in 0 .. Len(ms) |->
                     IF n = 0 THEN <<>>
                     ELSE IF to = "anthropic" /\ IsSystem(ms[n]) THEN acc[n - 1]
                     ELSE WriteMessage(to, acc[n - 1], ms[n])]
  BY <1>1
<1>3. WriteMessages(to, ms) = acc[Len(ms)]
  BY DEF WriteMessages
<1> HIDE DEF acc
<1>4. GathersTo(acc, to, ms, Len(ms))
  BY <1>2, Zenon DEF GathersTo, Gathered
<1> QED
  BY <1>3, <1>4

\* No message is nothing written,
LEMMA MessagesNone ==
  ASSUME NEW to
  PROVE  WriteMessages(to, <<>>) = <<>>
<1>1. Len(<<>>) = 0
  OBVIOUS
<1>2. PICK acc : /\ GathersTo(acc, to, <<>>, 0)
                 /\ WriteMessages(to, <<>>) = acc[0]
  BY <1>1, GathersMessages
<1> QED
  BY <1>2 DEF GathersTo

\* and one message more is written after the others.
LEMMA MessagesMore ==
  ASSUME NEW to, NEW S, NEW ms \in Seq(S), NEW p \in S
  PROVE  WriteMessages(to, Append(ms, p)) = Gathered(to, WriteMessages(to, ms), p)
<1> DEFINE more == Append(ms, p)
           n == Len(ms)
<1>1. /\ n \in Nat /\ Len(more) = n + 1 /\ more[n + 1] = p /\ \A i \in 1 .. n : more[i] = ms[i]
  BY AppendProperties, LenProperties
<1> HIDE DEF more, n
<1>2. PICK g : GathersTo(g, to, ms, n) /\ WriteMessages(to, ms) = g[n]
  BY <1>1, GathersMessages DEF n
<1>3. PICK h : GathersTo(h, to, more, n + 1) /\ WriteMessages(to, more) = h[n + 1]
  <2>1. Len(more) \in Nat
    BY <1>1
  <2> QED
    BY <1>1, <2>1, GathersMessages
<1>8. \A k \in 0 .. n : h[k + 1] = Gathered(to, h[k], more[k + 1])
  <2> DEFINE m == n + 1
  <2>1. m \in Nat /\ m - 1 = n
    BY <1>1
  <2>2. GathersTo(h, to, more, m)
    BY <1>3
  <2> HIDE DEF m
  <2>3. \A k \in 0 .. m - 1 : h[k + 1] = Gathered(to, h[k], more[k + 1])
    BY <2>1, <2>2, GathersNext
  <2> QED
    BY <2>1, <2>3
<1> DEFINE Agree == {i \in Nat : i <= n => g[i] = h[i]}
<1>4. 0 \in Agree
  BY <1>1, <1>2, <1>3 DEF GathersTo
<1>5. ASSUME NEW i \in Nat, i \in Agree
      PROVE  i + 1 \in Agree
  <2> SUFFICES ASSUME i + 1 <= n PROVE g[i + 1] = h[i + 1]
    OBVIOUS
  <2>1. i + 1 \in 0 .. n /\ i + 1 \in 0 .. n + 1 /\ i + 1 # 0 /\ i + 1 - 1 = i /\ i + 1 \in 1 .. n
    BY <1>1
  <2>2. g[i] = h[i]
    BY <1>1, <1>5
  <2>3. g[i + 1] = Gathered(to, g[i], ms[i + 1])
    <3>1. \A k \in 0 .. n - 1 : g[k + 1] = Gathered(to, g[k], ms[k + 1])
      <4>1. n \in Nat /\ GathersTo(g, to, ms, n)
        BY <1>1, <1>2
      <4> QED
        BY <4>1, GathersNext
    <3>2. i \in 0 .. n - 1
      BY <1>1
    <3> QED
      BY <3>1, <3>2
  <2>4. h[i + 1] = Gathered(to, h[i], more[i + 1])
    <3>1. \A k \in 0 .. n : h[k + 1] = Gathered(to, h[k], more[k + 1])
      BY <1>8
    <3>2. i \in 0 .. n
      BY <1>1
    <3> QED
      BY <3>1, <3>2
  <2> QED
    BY <1>1, <2>1, <2>2, <2>3, <2>4
<1> HIDE DEF Agree
<1>6. n \in Agree
  BY <1>1, <1>4, <1>5, Induction
<1>7. g[n] = h[n]
  BY <1>1, <1>6 DEF Agree
<1>9. h[n + 1] = Gathered(to, h[n], p)
  BY <1>1, <1>8
<1> QED
  BY <1>2, <1>3, <1>7, <1>9 DEF more

-----------------------------------------------------------------------------
\* Facts.  The words of a text, told one by one, and the facts of plain blocks and parts:
\* text and pictures, and results that are made of them.

Whos == {"system", "user", "assistant", "call", "result"}
AllFacts == [by : Whos, of : Int, word : Int]
Utter(by, of, text) == [i \in DOMAIN text |-> Fact(by, of, text[i])]

\* A text is told word by word,
LEMMA Utters ==
  ASSUME NEW by \in Whos, NEW of \in Int, NEW text \in Seq(Int)
  PROVE  /\ Utter(by, of, text) \in Seq(AllFacts) /\ Len(Utter(by, of, text)) = Len(text)
         /\ FlattenSeq([i \in DOMAIN text |-> <<Fact(by, of, text[i])>>]) = Utter(by, of, text)
<1> DEFINE h == [w \in Int |-> Fact(by, of, w)]
           f == [w \in Int |-> <<Fact(by, of, w)>>]
<1>1. Gives(h, Int, AllFacts)
  BY DEF Gives, Fact, AllFacts
<1>2. Alone(f, h, Int)
  BY DEF Alone
<1>3. Map(h, text) = Utter(by, of, text)
  BY MembersIn DEF Map, Utter
<1>4. Map(f, text) = [i \in DOMAIN text |-> <<Fact(by, of, text[i])>>]
  BY MembersIn DEF Map
<1> HIDE DEF h, f
<1>5. Map(h, text) \in Seq(AllFacts) /\ Len(Map(h, text)) = Len(text)
  BY <1>1, MapType, MapAt
<1>6. FlattenSeq(Map(f, text)) = Map(h, text)
  BY <1>2, FlattenSingles
<1> QED
  BY <1>3, <1>4, <1>5, <1>6

\* and two texts one after the other.
LEMMA UtterConcat ==
  ASSUME NEW by, NEW of, NEW a \in Seq(Int), NEW b \in Seq(Int)
  PROVE  Utter(by, of, a \o b) = Utter(by, of, a) \o Utter(by, of, b)
<1> DEFINE h == [w \in Int |-> Fact(by, of, w)]
<1>1. \A t \in Seq(Int) : Map(h, t) = Utter(by, of, t)
  BY MembersIn DEF Map, Utter
<1> HIDE DEF h
<1>2. Map(h, a \o b) = Map(h, a) \o Map(h, b)
  BY MapConcat
<1>3. a \o b \in Seq(Int)
  BY ConcatProperties
<1> QED
  BY <1>1, <1>2, <1>3

TextBlocks == [type : {"text", "input_text", "output_text", "refusal"}, text : Seq(Int)]
PictureBlocks == [type : {"image_url", "input_image", "image"}, url : Int]
PlainBlocks == TextBlocks \cup PictureBlocks

TextSet == [kind : {"text", "refusal"}, text : Seq(Int)]
ImageSet == [kind : {"image"}, url : Int]
PlainSet == TextSet \cup ImageSet

PlainWords(by, of, p) == IF p.kind = "image" THEN <<Fact(by, of, p.url)>> ELSE Utter(by, of, p.text)
PlainSaid(by, of, parts) == FlattenSeq([i \in DOMAIN parts |-> PlainWords(by, of, parts[i])])

\* A plain block tells what the part it is read as tells,
LEMMA PlainRead ==
  ASSUME NEW b \in PlainBlocks, NEW by \in Whos, NEW of \in Int
  PROVE  /\ PlainPart(b) \in PlainSet /\ Part(b) = PlainPart(b) /\ b.type \in PlainTypes
         /\ BlockFacts(by, of, b) = PlainWords(by, of, PlainPart(b))
<1>1. CASE b \in TextBlocks
  <2>1. b.text \in Seq(Int) /\ b.type \in {"text", "input_text", "output_text", "refusal"}
    BY <1>1 DEF TextBlocks
  <2>2. PlainPart(b) = IF b.type = "refusal" THEN Refusal(b.text) ELSE Text(b.text)
    BY <2>1 DEF PlainPart
  <2>3. PlainPart(b) \in TextSet /\ PlainPart(b).text = b.text /\ PlainPart(b).kind # "image"
    BY <2>1, <2>2 DEF Refusal, Text, TextSet
  <2>4. BlockFacts(by, of, b) = FlattenSeq([i \in DOMAIN b.text |-> <<Fact(by, of, b.text[i])>>])
    BY <2>1 DEF BlockFacts, FlattenEach
  <2>5. BlockFacts(by, of, b) = Utter(by, of, b.text)
    BY <2>1, <2>4, Utters
  <2>6. Part(b) = PlainPart(b) /\ b.type \in PlainTypes
    BY <2>1 DEF Part, PlainTypes
  <2> QED
    BY <2>3, <2>5, <2>6 DEF PlainWords, PlainSet
<1>2. CASE b \in PictureBlocks
  <2>1. b.url \in Int /\ b.type \in {"image_url", "input_image", "image"}
    BY <1>2 DEF PictureBlocks
  <2>2. PlainPart(b) = Image(b.url) /\ Part(b) = PlainPart(b) /\ b.type \in PlainTypes
    BY <2>1 DEF PlainPart, Part, PlainTypes
  <2>3. BlockFacts(by, of, b) = <<Fact(by, of, b.url)>>
    BY <2>1 DEF BlockFacts
  <2> QED
    BY <2>1, <2>2, <2>3 DEF PlainWords, PlainSet, ImageSet, Image
<1> QED
  BY <1>1, <1>2 DEF PlainBlocks

\* and a plain part tells words.
LEMMA PlainTold ==
  ASSUME NEW p \in PlainSet, NEW by \in Whos, NEW of \in Int
  PROVE  PlainWords(by, of, p) \in Seq(AllFacts)
<1>1. CASE p \in TextSet
  <2>1. p.kind # "image" /\ p.text \in Seq(Int)
    BY <1>1 DEF TextSet
  <2> QED
    BY <2>1, Utters DEF PlainWords
<1>2. CASE p \in ImageSet
  <2>1. p.kind = "image" /\ p.url \in Int
    BY <1>2 DEF ImageSet
  <2>2. <<Fact(by, of, p.url)>> \in Seq(AllFacts)
    BY <2>1 DEF Fact, AllFacts
  <2> QED
    BY <2>1, <2>2 DEF PlainWords
<1> QED
  BY <1>1, <1>2 DEF PlainSet

\* The words of several parts,
LEMMA PlainsTold ==
  ASSUME NEW by \in Whos, NEW of \in Int
  PROVE  /\ PlainSaid(by, of, <<>>) = <<>>
         /\ \A p \in PlainSet : PlainSaid(by, of, <<p>>) = PlainWords(by, of, p)
         /\ \A a \in Seq(PlainSet) : PlainSaid(by, of, a) \in Seq(AllFacts)
         /\ \A a, b \in Seq(PlainSet) : PlainSaid(by, of, a \o b) = PlainSaid(by, of, a) \o PlainSaid(by, of, b)
<1> DEFINE h == [p \in PlainSet |-> PlainWords(by, of, p)]
<1>1. Gives(h, PlainSet, Seq(AllFacts))
  BY PlainTold DEF Gives
<1>2. \A a \in Seq(PlainSet) : PlainSaid(by, of, a) = FlattenSeq(Map(h, a))
  <2> TAKE a \in Seq(PlainSet)
  <2>1. [i \in DOMAIN a |-> PlainWords(by, of, a[i])] = Map(h, a)
    BY MembersIn DEF Map
  <2> QED
    BY <2>1 DEF PlainSaid
<1>3. \A p \in PlainSet : h[p] = PlainWords(by, of, p)
  OBVIOUS
<1> HIDE DEF h
<1>4. PlainSaid(by, of, <<>>) = <<>>
  BY <1>2, MapEmpty, FlattenEmpty, EmptySeq
<1>5. ASSUME NEW p \in PlainSet PROVE PlainSaid(by, of, <<p>>) = PlainWords(by, of, p)
  <2>1. <<p>> \in Seq(PlainSet)
    OBVIOUS
  <2>2. Map(h, <<p>>) = <<h[p]>> /\ h[p] \in Seq(AllFacts)
    BY <1>1, MapOne DEF Gives
  <2>3. FlattenSeq(<<h[p]>>) = h[p]
    <3> DEFINE x == h[p]
    <3>1. x \in Seq(AllFacts)
      BY <2>2
    <3> HIDE DEF x
    <3>2. FlattenSeq(<<x>>) = x
      BY <3>1, FlattenOne
    <3> QED
      BY <3>2 DEF x
  <2> QED
    BY <1>2, <1>3, <2>1, <2>2, <2>3
<1>6. ASSUME NEW a \in Seq(PlainSet) PROVE PlainSaid(by, of, a) \in Seq(AllFacts)
  BY <1>1, <1>2, FlattenMapType
<1>7. ASSUME NEW a \in Seq(PlainSet), NEW b \in Seq(PlainSet)
      PROVE  PlainSaid(by, of, a \o b) = PlainSaid(by, of, a) \o PlainSaid(by, of, b)
  <2>1. a \o b \in Seq(PlainSet)
    BY ConcatProperties
  <2>2. Splits(h, a, b)
    BY <1>1, FlattenMapConcat
  <2> QED
    BY <1>2, <2>1, <2>2 DEF Splits
<1> QED
  BY <1>4, <1>5, <1>6, <1>7

\* the words of a content that is read,
LEMMA ContentRead ==
  ASSUME NEW blocks \in Seq(PlainBlocks), NEW by \in Whos, NEW of \in Int
  PROVE  /\ Parts(blocks) \in Seq(PlainSet) /\ PlainParts(blocks) = Parts(blocks) /\ Readable(blocks)
         /\ Len(Parts(blocks)) = Len(blocks)
         /\ ContentFacts(by, of, blocks) = PlainSaid(by, of, Parts(blocks))
<1> DEFINE parts == Parts(blocks)
<1>1. Len(blocks) \in Nat /\ DOMAIN blocks = 1 .. Len(blocks) /\ \A i \in DOMAIN blocks : blocks[i] \in PlainBlocks
  BY LenProperties, MembersIn
<1>2. \A i \in DOMAIN blocks : /\ PlainPart(blocks[i]) \in PlainSet /\ Part(blocks[i]) = PlainPart(blocks[i])
                               /\ BlockFacts(by, of, blocks[i]) = PlainWords(by, of, PlainPart(blocks[i]))
                               /\ blocks[i].type \in PlainTypes
  BY <1>1, PlainRead
<1>3. parts = [i \in DOMAIN blocks |-> PlainPart(blocks[i])] /\ PlainParts(blocks) = parts
  BY <1>2 DEF Parts, PlainParts
<1>4. parts \in Seq(PlainSet) /\ DOMAIN parts = DOMAIN blocks
  BY <1>1, <1>2, <1>3
<1>5. ContentFacts(by, of, blocks) = FlattenSeq([i \in DOMAIN blocks |-> BlockFacts(by, of, blocks[i])])
  BY DEF ContentFacts, FlattenEach
<1>6. [i \in DOMAIN blocks |-> BlockFacts(by, of, blocks[i])] = [i \in DOMAIN parts |-> PlainWords(by, of, parts[i])]
  BY <1>2, <1>3, <1>4
<1>7. Readable(blocks)
  BY <1>2 DEF Readable, ReadableTypes
<1>8. Len(parts) = Len(blocks)
  BY <1>1, <1>3
<1> QED
  BY <1>3, <1>4, <1>5, <1>6, <1>7, <1>8 DEF PlainSaid

\* and of one that is written.
LEMMA ContentWritten ==
  ASSUME NEW parts \in Seq(PlainSet), NEW to, NEW role, NEW by \in Whos, NEW of \in Int
  PROVE  /\ ContentParts(to, role, parts) \in Seq(PlainBlocks)
         /\ Len(ContentParts(to, role, parts)) = Len(parts)
         /\ ContentFacts(by, of, ContentParts(to, role, parts)) = PlainSaid(by, of, parts)
<1> DEFINE blocks == ContentParts(to, role, parts)
           tt == CASE to = "responses" /\ role = "assistant" -> "output_text"
                   [] to = "responses" /\ role # "assistant" -> "input_text"
                   [] OTHER -> "text"
           it == CASE to = "chat" -> "image_url" [] to = "responses" -> "input_image" [] OTHER -> "image"
<1>1. Len(parts) \in Nat /\ DOMAIN parts = 1 .. Len(parts) /\ \A i \in DOMAIN parts : parts[i] \in PlainSet
  BY LenProperties, MembersIn
<1>2. tt \in {"text", "input_text", "output_text"} /\ it \in {"image_url", "input_image", "image"}
  OBVIOUS
<1>3. blocks = [i \in DOMAIN parts |-> IF parts[i].kind = "image" THEN PictureBlock(it, parts[i].url)
                                                                   ELSE TextBlock(tt, parts[i].text)]
  BY DEF ContentParts
<1> HIDE DEF blocks, tt, it
<1>4. ASSUME NEW i \in DOMAIN parts
      PROVE  blocks[i] \in PlainBlocks /\ BlockFacts(by, of, blocks[i]) = PlainWords(by, of, parts[i])
  <2>1. CASE parts[i] \in TextSet
    <3>1. parts[i].kind \in {"text", "refusal"} /\ parts[i].text \in Seq(Int)
      BY <2>1 DEF TextSet
    <3>2. blocks[i] = TextBlock(tt, parts[i].text)
      BY <1>3, <3>1
    <3>3. blocks[i] \in TextBlocks /\ blocks[i].text = parts[i].text /\ blocks[i].type = tt
      BY <1>2, <3>1, <3>2 DEF TextBlock, TextBlocks
    <3>4. BlockFacts(by, of, blocks[i]) = FlattenSeq([k \in DOMAIN parts[i].text |-> <<Fact(by, of, parts[i].text[k])>>])
      BY <1>2, <3>3 DEF BlockFacts, FlattenEach
    <3>5. FlattenSeq([k \in DOMAIN parts[i].text |-> <<Fact(by, of, parts[i].text[k])>>]) = Utter(by, of, parts[i].text)
      BY <3>1, Utters
    <3> QED
      BY <3>1, <3>3, <3>4, <3>5 DEF PlainBlocks, PlainWords
  <2>2. CASE parts[i] \in ImageSet
    <3>1. parts[i].kind = "image" /\ parts[i].url \in Int
      BY <2>2 DEF ImageSet
    <3>2. blocks[i] = PictureBlock(it, parts[i].url)
      BY <1>3, <3>1
    <3>3. blocks[i] \in PictureBlocks /\ blocks[i].url = parts[i].url /\ blocks[i].type = it
      BY <1>2, <3>1, <3>2 DEF PictureBlock, PictureBlocks
    <3> QED
      BY <1>2, <3>1, <3>3 DEF PlainBlocks, PlainWords, BlockFacts
  <2> QED
    BY <1>1, <2>1, <2>2 DEF PlainSet
<1>5. DOMAIN blocks = DOMAIN parts /\ blocks \in Seq(PlainBlocks) /\ Len(blocks) = Len(parts)
  BY <1>1, <1>3, <1>4
<1>6. ContentFacts(by, of, blocks) = FlattenSeq([i \in DOMAIN blocks |-> BlockFacts(by, of, blocks[i])])
  BY DEF ContentFacts, FlattenEach
<1>7. [i \in DOMAIN blocks |-> BlockFacts(by, of, blocks[i])] = [i \in DOMAIN parts |-> PlainWords(by, of, parts[i])]
  BY <1>4, <1>5
<1> QED
  BY <1>5, <1>6, <1>7 DEF PlainSaid, blocks

ResultSet == [kind : {"result"}, id : Int, content : Seq(PlainSet), failed : BOOLEAN]
ResultWords(p) ==
  (IF p.failed THEN <<Fact("result", p.id, ToolError)>> ELSE <<>>) \o PlainSaid("result", p.id, p.content)

\* Texts alone are told as one text.
LEMMA TextsTold ==
  ASSUME NEW by \in Whos, NEW of \in Int, NEW parts \in Seq(PlainSet),
         \A i \in DOMAIN parts : parts[i].kind = "text"
  PROVE  TextParts(parts) \in Seq(Int) /\ PlainSaid(by, of, parts) = Utter(by, of, TextParts(parts))
<1> DEFINE T == {p \in TextSet : p.kind = "text"}
           f == [p \in T |-> p.text]
           g == [w \in Int |-> Fact(by, of, w)]
           h == [p \in T |-> Utter(by, of, p.text)]
<1>1. \A i \in DOMAIN parts : parts[i] \in T
  BY MembersIn DEF PlainSet, ImageSet
<1>2. parts \in Seq(T)
  <2>1. Len(parts) \in Nat /\ DOMAIN parts = 1 .. Len(parts) /\ parts = [i \in 1 .. Len(parts) |-> parts[i]]
    BY LenProperties
  <2> HIDE DEF T
  <2> QED
    BY <1>1, <2>1
<1>3. Gives(f, T, Seq(Int))
  BY DEF Gives, TextSet
<1>4. Listed(h, f, g, T)
  <2>1. \A p \in T : p.text \in Seq(Int) /\ f[p] = p.text /\ h[p] = Utter(by, of, p.text)
    BY DEF TextSet
  <2>2. \A t \in Seq(Int) : Map(g, t) = Utter(by, of, t)
    BY MembersIn DEF Map, Utter
  <2> HIDE DEF f, g, h, T
  <2> QED
    BY <2>1, <2>2 DEF Listed
<1>5. TextParts(parts) = FlattenSeq(Map(f, parts))
  <2>1. [i \in DOMAIN parts |-> TextOf(parts[i])] = Map(f, parts)
    BY <1>1 DEF TextOf, Map
  <2> QED
    BY <2>1 DEF TextParts, FlattenEach
<1>6. PlainSaid(by, of, parts) = FlattenSeq(Map(h, parts))
  <2>1. [i \in DOMAIN parts |-> PlainWords(by, of, parts[i])] = Map(h, parts)
    BY <1>1 DEF PlainWords, Map
  <2> QED
    BY <2>1 DEF PlainSaid
<1>7. \A t \in Seq(Int) : Map(g, t) = Utter(by, of, t)
  BY MembersIn DEF Map, Utter
<1> HIDE DEF f, g, h, T
<1>8. FlattenSeq(Map(f, parts)) \in Seq(Int)
  BY <1>2, <1>3, FlattenMapType
<1>9. Map(g, FlattenSeq(Map(f, parts))) = FlattenSeq(Map(h, parts))
  BY <1>2, <1>3, <1>4, MapFlatten
<1> QED
  BY <1>5, <1>6, <1>7, <1>8, <1>9

\* The words of a result are its own,
LEMMA ResultTold ==
  ASSUME NEW p \in ResultSet
  PROVE  ResultWords(p) \in Seq(AllFacts)
<1>1. p.id \in Int /\ p.content \in Seq(PlainSet)
  BY DEF ResultSet
<1> DEFINE a == IF p.failed THEN <<Fact("result", p.id, ToolError)>> ELSE <<>>
           b == PlainSaid("result", p.id, p.content)
<1>2. a \in Seq(AllFacts)
  <2>1. Fact("result", p.id, ToolError) \in AllFacts
    BY <1>1 DEF AllFacts, Fact, ToolError, Whos
  <2> QED
    BY <2>1
<1>3. b \in Seq(AllFacts)
  BY <1>1, PlainsTold DEF Whos
<1> HIDE DEF a, b
<1>4. a \o b \in Seq(AllFacts)
  BY <1>2, <1>3, ConcatProperties
<1> QED
  BY <1>4 DEF a, b, ResultWords

\* as it is written for the OpenAI protocols
LEMMA ResultWritten ==
  ASSUME NEW p \in ResultSet, NEW to
  PROVE  ContentFacts("result", p.id, ResultContent(to, p)) = ResultWords(p)
<1> DEFINE id == p.id
           content == p.content
           failure == IF p.failed THEN <<ToolError>> ELSE <<>>
           mark == IF p.failed THEN <<Fact("result", id, ToolError)>> ELSE <<>>
           words1 == failure \o TextParts(content)
           block == TextBlock("text", words1)
<1>1. id \in Int /\ content \in Seq(PlainSet) /\ p.failed \in BOOLEAN /\ "result" \in Whos
  BY DEF ResultSet, Whos
<1>2. failure \in Seq(Int) /\ Utter("result", id, failure) = mark
  BY <1>1 DEF ToolError, Utter
<1>3. CASE \A i \in DOMAIN content : content[i].kind = "text"
  <2>1. ResultContent(to, p) = <<block>>
    BY <1>3 DEF ResultContent
  <2>2. TextParts(content) \in Seq(Int) /\ PlainSaid("result", id, content) = Utter("result", id, TextParts(content))
    BY <1>1, <1>3, TextsTold
  <2>3. words1 \in Seq(Int)
    <3> HIDE DEF failure, content
    <3> QED
      BY <1>2, <2>2, ConcatProperties
  <2>4. Utter("result", id, words1) = mark \o PlainSaid("result", id, content)
    <3> DEFINE rest == TextParts(content)
    <3>1. rest \in Seq(Int) /\ PlainSaid("result", id, content) = Utter("result", id, rest)
      BY <2>2
    <3> HIDE DEF failure, mark, id, rest
    <3>2. Utter("result", id, failure \o rest) = Utter("result", id, failure) \o Utter("result", id, rest)
      BY <1>2, <3>1, UtterConcat
    <3> QED
      BY <1>2, <3>1, <3>2 DEF rest
  <2>5. block \in PlainBlocks /\ block.type = "text" /\ block.text = words1
    <3> HIDE DEF words1
    <3> QED
      BY <2>3 DEF TextBlock, PlainBlocks, TextBlocks
  <2> HIDE DEF block
  <2>6. PlainPart(block) = Text(words1)
    BY <2>5 DEF PlainPart
  <2>7. <<block>> \in Seq(PlainBlocks)
    BY <2>5
  <2>8. Parts(<<block>>) = <<Text(words1)>> /\ Text(words1) \in PlainSet
    <3>1. Part(block) = PlainPart(block) /\ PlainPart(block) \in PlainSet
      BY <1>1, <2>5, PlainRead
    <3>2. Parts(<<block>>) = <<Part(block)>>
      BY DEF Parts
    <3> QED
      BY <2>6, <3>1, <3>2
  <2>9. PlainSaid("result", id, <<Text(words1)>>) = Utter("result", id, words1)
    <3> DEFINE x == Text(words1)
    <3>1. x.kind # "image" /\ x.text = words1
      BY DEF Text
    <3>2. x \in PlainSet
      BY <2>8
    <3> HIDE DEF x
    <3>3. PlainSaid("result", id, <<x>>) = PlainWords("result", id, x)
      BY <1>1, <3>2, PlainsTold
    <3> QED
      BY <3>1, <3>3 DEF PlainWords, x
  <2>10. ContentFacts("result", id, <<block>>) = PlainSaid("result", id, Parts(<<block>>))
    BY <1>1, <2>7, ContentRead
  <2> HIDE DEF mark, content, words1, id
  <2>11. ContentFacts("result", id, <<block>>) = mark \o PlainSaid("result", id, content)
    BY <2>4, <2>8, <2>9, <2>10
  <2> QED
    BY <2>1, <2>11 DEF mark, content, id, ResultWords
<1>4. CASE ~ \A i \in DOMAIN content : content[i].kind = "text"
  <2> DEFINE x == Text(failure)
             all == IF p.failed THEN <<x>> \o content ELSE content
  <2>1. ResultContent(to, p) = ContentParts(to, "user", all)
    BY <1>4 DEF ResultContent
  <2>2. x \in PlainSet /\ x.kind # "image" /\ x.text = failure
    BY <1>2 DEF Text, PlainSet, TextSet
  <2> HIDE DEF x, failure, mark, id, content
  <2>3. PlainSaid("result", id, <<x>>) = mark
    <3>1. PlainSaid("result", id, <<x>>) = PlainWords("result", id, x)
      BY <1>1, <2>2, PlainsTold
    <3> QED
      BY <1>2, <2>2, <3>1 DEF PlainWords
  <2>4. CASE p.failed
    <3>1. <<x>> \in Seq(PlainSet)
      BY <2>2
    <3>2. PlainSaid("result", id, <<x>> \o content) = mark \o PlainSaid("result", id, content)
      BY <1>1, <2>3, <3>1, PlainsTold
    <3>3. <<x>> \o content \in Seq(PlainSet)
      BY <1>1, <3>1, ConcatProperties
    <3>4. all = <<x>> \o content
      BY <2>4
    <3> HIDE DEF all
    <3>5. ContentFacts("result", id, ContentParts(to, "user", all)) = PlainSaid("result", id, all)
      BY <1>1, <3>3, <3>4, ContentWritten
    <3>6. ContentFacts("result", id, ResultContent(to, p)) = mark \o PlainSaid("result", id, content)
      BY <2>1, <3>2, <3>4, <3>5
    <3> QED
      BY <3>6 DEF ResultWords, mark, content, id
  <2>5. CASE ~ p.failed
    <3>1. mark = <<>> /\ all = content
      BY <2>5 DEF mark
    <3> HIDE DEF all
    <3>2. ContentFacts("result", id, ContentParts(to, "user", all)) = PlainSaid("result", id, all)
      BY <1>1, <3>1, ContentWritten
    <3>3. PlainSaid("result", id, content) \in Seq(AllFacts)
      BY <1>1, PlainsTold
    <3>4. ContentFacts("result", id, ResultContent(to, p)) = mark \o PlainSaid("result", id, content)
      BY <2>1, <3>1, <3>2, <3>3
    <3> QED
      BY <3>4 DEF ResultWords, mark, content, id
  <2> QED
    BY <2>4, <2>5
<1> QED
  BY <1>3, <1>4

\* and for Anthropic.
LEMMA ResultBlocked ==
  ASSUME NEW p \in ResultSet, NEW role
  PROVE  AnthropicFacts(role, ToolResult(p.id, ContentParts("anthropic", "user", p.content), p.failed)) = ResultWords(p)
<1> DEFINE b == ToolResult(p.id, ContentParts("anthropic", "user", p.content), p.failed)
<1>1. p.id \in Int /\ p.content \in Seq(PlainSet) /\ p.failed \in BOOLEAN /\ "result" \in Whos
  BY DEF ResultSet, Whos
<1>2. b.type = "tool_result" /\ b.tool_use_id = p.id /\ b.is_error = p.failed
      /\ b.content = ContentParts("anthropic", "user", p.content)
  BY DEF ToolResult
<1>3. ContentFacts("result", p.id, ContentParts("anthropic", "user", p.content)) = PlainSaid("result", p.id, p.content)
  BY <1>1, ContentWritten
<1> HIDE DEF b
<1>4. AnthropicFacts(role, b) = ResultWords(p)
  BY <1>2, <1>3 DEF AnthropicFacts, ResultWords
<1> QED
  BY <1>4 DEF b

-----------------------------------------------------------------------------
\* What the assistant says: the facts of the parts of an answer, and that a kept message is
\* read as parts that tell what it tells.

AsTold == [p \in AnswerParts |-> IF p.kind = "tool" THEN <<Fact("call", NoId, p.id)>>
                                                    ELSE Utter("assistant", NoId, p.text)]
Assisted(parts) == FlattenSeq(Map(AsTold, parts))

\* The assistant's words are facts.
LEMMA AssistantUtters ==
  ASSUME NEW text \in WordSeq
  PROVE  /\ Utter("assistant", NoId, text) \in Seq(Facts)
         /\ FlattenSeq([i \in DOMAIN text |-> <<Fact("assistant", NoId, text[i])>>]) = Utter("assistant", NoId, text)
<1>1. text \in Seq(Int)
  BY SeqOfMore DEF WordSeq
<1>2. FlattenSeq([i \in DOMAIN text |-> <<Fact("assistant", NoId, text[i])>>]) = Utter("assistant", NoId, text)
  BY <1>1, Utters DEF Whos, NoId
<1> QED
  BY <1>2, WordsTold

\* The facts of a part,
LEMMA PartsTell == Gives(AsTold, AnswerParts, Seq(Facts))
<1> SUFFICES ASSUME NEW p \in AnswerParts PROVE AsTold[p] \in Seq(Facts)
  BY DEF Gives
<1>1. CASE p.kind = "tool"
  <2>1. p.id \in Nat
    BY <1>1 DEF AnswerParts, TextParted, ToolParted
  <2> QED
    BY <1>1, <2>1, CallTold DEF AsTold
<1>2. CASE p.kind # "tool"
  <2>1. p.text \in WordSeq
    BY <1>2 DEF AnswerParts, TextParted, ToolParted
  <2> QED
    BY <1>2, <2>1, AssistantUtters DEF AsTold
<1> QED
  BY <1>1, <1>2

\* and of several.
LEMMA Assists ==
  /\ Assisted(<<>>) = <<>>
  /\ \A p \in AnswerParts : Assisted(<<p>>) = AsTold[p]
  /\ \A a \in Seq(AnswerParts) : Assisted(a) \in Seq(Facts)
  /\ \A a, b \in Seq(AnswerParts) : Assisted(a \o b) = Assisted(a) \o Assisted(b)
<1>1. Gives(AsTold, AnswerParts, Seq(Facts))
  BY PartsTell
<1>2. Assisted(<<>>) = <<>>
  BY MapEmpty, FlattenEmpty DEF Assisted
<1>3. ASSUME NEW p \in AnswerParts PROVE Assisted(<<p>>) = AsTold[p]
  <2> DEFINE x == AsTold[p]
  <2>1. x \in Seq(Facts)
    BY <1>1 DEF Gives
  <2>2. Map(AsTold, <<p>>) = <<x>>
    BY MapOne
  <2> HIDE DEF x
  <2>3. FlattenSeq(<<x>>) = x
    BY <2>1, FlattenOne
  <2> QED
    BY <2>2, <2>3 DEF Assisted, x
<1>4. ASSUME NEW a \in Seq(AnswerParts) PROVE Assisted(a) \in Seq(Facts)
  BY <1>1, FlattenMapType DEF Assisted
<1>5. ASSUME NEW a \in Seq(AnswerParts), NEW b \in Seq(AnswerParts)
      PROVE  Assisted(a \o b) = Assisted(a) \o Assisted(b)
  <2>1. Splits(AsTold, a, b)
    BY <1>1, FlattenMapConcat
  <2> QED
    BY <2>1 DEF Splits, Assisted
<1> QED
  BY <1>2, <1>3, <1>4, <1>5

\* A thought of a Chat message,
LEMMA ThinkingTells ==
  ASSUME NEW text \in WordSeq
  PROVE  ThinkingOf(text) \in Seq(AnswerParts) /\ Assisted(ThinkingOf(text)) = Utter("assistant", NoId, text)
<1>1. CASE text = <<>>
  <2>1. ThinkingOf(text) = <<>> /\ Utter("assistant", NoId, text) = <<>>
    BY <1>1 DEF ThinkingOf, Utter
  <2> QED
    BY <2>1, Assists, EmptySeq
<1>2. CASE text # <<>>
  <2> DEFINE p == Thinking(text)
  <2>1. p \in AnswerParts /\ p.kind = "thinking" /\ p.text = text
    BY DEF Thinking, AnswerParts, TextParted
  <2>2. ThinkingOf(text) = <<p>>
    BY <1>2 DEF ThinkingOf
  <2> HIDE DEF p
  <2>3. Assisted(<<p>>) = AsTold[p] /\ <<p>> \in Seq(AnswerParts)
    BY <2>1, Assists
  <2>4. AsTold[p] = Utter("assistant", NoId, text)
    BY <2>1 DEF AsTold
  <2> QED
    BY <2>2, <2>3, <2>4
<1> QED
  BY <1>1, <1>2

\* its texts
LEMMA TextsTell ==
  ASSUME NEW content \in Seq(TextTyped)
  PROVE  /\ Parts(content) \in Seq(AnswerParts)
         /\ Assisted(Parts(content)) = ContentFacts("assistant", NoId, content)
<1> DEFINE parts == Parts(content)
<1>1. Len(content) \in Nat /\ DOMAIN content = 1 .. Len(content) /\ \A i \in DOMAIN content : content[i] \in TextTyped
  BY LenProperties, MembersIn
<1>2. ASSUME NEW b \in TextTyped
      PROVE  /\ Part(b) \in AnswerParts
             /\ AsTold[Part(b)] = BlockFacts("assistant", NoId, b)
  <2>1. b.type = "text" /\ b.text \in WordSeq
    BY DEF TextTyped
  <2> DEFINE p == Part(b)
  <2>2. p = Text(b.text)
    BY <2>1 DEF Part, PlainPart
  <2>3. p \in AnswerParts /\ p.kind = "text" /\ p.text = b.text
    BY <2>1, <2>2 DEF Text, AnswerParts, TextParted
  <2> HIDE DEF p
  <2>4. AsTold[p] = Utter("assistant", NoId, b.text)
    BY <2>3 DEF AsTold
  <2>5. BlockFacts("assistant", NoId, b) = FlattenSeq([i \in DOMAIN b.text |-> <<Fact("assistant", NoId, b.text[i])>>])
    BY <2>1 DEF BlockFacts, FlattenEach
  <2> QED
    BY <2>1, <2>3, <2>4, <2>5, AssistantUtters DEF p
<1>3. parts = [i \in DOMAIN content |-> Part(content[i])]
  BY DEF Parts
<1>4. parts \in Seq(AnswerParts) /\ DOMAIN parts = DOMAIN content
  BY <1>1, <1>2, <1>3
<1>5. Map(AsTold, parts) = [i \in DOMAIN content |-> BlockFacts("assistant", NoId, content[i])]
  BY <1>1, <1>2, <1>3, <1>4 DEF Map
<1> QED
  BY <1>4, <1>5 DEF Assisted, ContentFacts, FlattenEach

\* and its calls.
LEMMA CallsTell ==
  ASSUME NEW calls1 \in Seq(CallParted)
  PROVE  /\ ToolsOf(calls1) \in Seq(AnswerParts)
         /\ Assisted(ToolsOf(calls1)) = FlattenSeq([i \in DOMAIN calls1 |-> <<Fact("call", NoId, calls1[i].id)>>])
<1> DEFINE parts == ToolsOf(calls1)
<1>1. Len(calls1) \in Nat /\ DOMAIN calls1 = 1 .. Len(calls1) /\ \A i \in DOMAIN calls1 : calls1[i] \in CallParted
  BY LenProperties, MembersIn
<1>2. ASSUME NEW c \in CallParted
      PROVE  Tool(c.id, c.arguments) \in AnswerParts /\ AsTold[Tool(c.id, c.arguments)] = <<Fact("call", NoId, c.id)>>
  <2> DEFINE p == Tool(c.id, c.arguments)
  <2>1. p \in AnswerParts /\ p.kind = "tool" /\ p.id = c.id
    BY DEF Tool, AnswerParts, ToolParted, CallParted
  <2> HIDE DEF p
  <2>2. AsTold[p] = <<Fact("call", NoId, c.id)>>
    BY <2>1 DEF AsTold
  <2> QED
    BY <2>1, <2>2 DEF p
<1>3. parts = [i \in DOMAIN calls1 |-> Tool(calls1[i].id, calls1[i].arguments)]
  BY DEF ToolsOf
<1>4. parts \in Seq(AnswerParts) /\ DOMAIN parts = DOMAIN calls1
  BY <1>1, <1>2, <1>3
<1>5. Map(AsTold, parts) = [i \in DOMAIN calls1 |-> <<Fact("call", NoId, calls1[i].id)>>]
  BY <1>1, <1>2, <1>3, <1>4 DEF Map
<1> QED
  BY <1>4, <1>5 DEF Assisted

\* A kept message is read as one of the assistant that tells the same.
Assistant(from, m) ==
  \E parts \in Seq(AnswerParts) :
    ReadMessage(from, m) = <<Message("assistant", parts)>> /\ Assisted(parts) = Told(from, m)

\* For Chat: the reasoning content, the content and the tool calls.
LEMMA ChatAssists == ASSUME NEW m \in ChatKept PROVE Assistant("chat", m)
<1> DEFINE a == ThinkingOf(m.reasoning_content)
           b == Parts(m.content)
           c == ToolsOf(m.tool_calls)
<1>1. m.role = "assistant" /\ m.content \in Seq(TextTyped) /\ m.reasoning_content \in WordSeq
      /\ m.tool_calls \in Seq(CallParted)
  BY DEF ChatKept
<1>2. ReadMessage("chat", m) = <<Message("assistant", a \o b \o c)>>
  BY <1>1 DEF ReadMessage
<1>3. /\ a \in Seq(AnswerParts) /\ b \in Seq(AnswerParts) /\ c \in Seq(AnswerParts)
      /\ Assisted(a) = FlattenSeq([i \in DOMAIN m.reasoning_content |-> <<Fact("assistant", NoId, m.reasoning_content[i])>>])
      /\ Assisted(b) = ContentFacts("assistant", NoId, m.content)
      /\ Assisted(c) = FlattenSeq([i \in DOMAIN m.tool_calls |-> <<Fact("call", NoId, m.tool_calls[i].id)>>])
  BY <1>1, ThinkingTells, TextsTell, CallsTell, AssistantUtters
<1>4. Told("chat", m) = Assisted(a) \o Assisted(b) \o Assisted(c)
  <2>1. Speaker(m.role) = "assistant" /\ m.role # "tool"
    BY <1>1 DEF Speaker
  <2>2. Told("chat", m) = ChatFacts(m)
    BY DEF Told
  <2> QED
    BY <1>3, <2>1, <2>2 DEF ChatFacts, FlattenEach
<1> HIDE DEF a, b, c
<1>5. a \o b \in Seq(AnswerParts) /\ Assisted(a \o b) = Assisted(a) \o Assisted(b)
  BY <1>3, Assists, ConcatProperties
<1> DEFINE ab == a \o b
<1> HIDE DEF ab
<1>6. ab \o c \in Seq(AnswerParts) /\ Assisted(ab \o c) = Assisted(ab) \o Assisted(c)
  BY <1>3, <1>5, Assists, ConcatProperties DEF ab
<1> QED
  BY <1>2, <1>4, <1>5, <1>6 DEF Assistant, ab

\* For Anthropic: the blocks of the content.
LEMMA AnthropicAssists ==
  ASSUME NEW m, m.role = "assistant", m.content \in Seq(AnswerBlocks)
  PROVE  Assistant("anthropic", m)
<1> DEFINE content == m.content
           parts == Parts(content)
<1>1. Len(content) \in Nat /\ DOMAIN content = 1 .. Len(content) /\ \A i \in DOMAIN content : content[i] \in AnswerBlocks
  BY LenProperties, MembersIn
<1>2. ASSUME NEW b \in AnswerBlocks
      PROVE  Part(b) \in AnswerParts /\ AsTold[Part(b)] = AnthropicFacts("assistant", b)
  <2> DEFINE p == Part(b)
  <2>0. p \in AnswerParts
    BY PartOfBlock DEF AsPart
  <2>1. CASE b \in TextTyped
    <3>1. b.type = "text" /\ b.text \in WordSeq
      BY <2>1 DEF TextTyped
    <3>2. p.kind = "text" /\ p.text = b.text
      BY <3>1 DEF Part, PlainPart, Text
    <3> HIDE DEF p
    <3>3. AsTold[p] = Utter("assistant", NoId, b.text)
      BY <2>0, <3>2 DEF AsTold
    <3>4. AnthropicFacts("assistant", b) = FlattenSeq([i \in DOMAIN b.text |-> <<Fact("assistant", NoId, b.text[i])>>])
      BY <3>1 DEF AnthropicFacts, Speaker, BlockFacts, FlattenEach
    <3> QED
      BY <2>0, <3>1, <3>3, <3>4, AssistantUtters DEF p
  <2>2. CASE b \in ThinkingTyped
    <3>1. b.type = "thinking" /\ b.thinking \in WordSeq
      BY <2>2 DEF ThinkingTyped
    <3>2. p.kind = "thinking" /\ p.text = b.thinking
      BY <3>1 DEF Part, Thinking
    <3> HIDE DEF p
    <3>3. AsTold[p] = Utter("assistant", NoId, b.thinking)
      BY <2>0, <3>2 DEF AsTold
    <3>4. AnthropicFacts("assistant", b) = FlattenSeq([i \in DOMAIN b.thinking |-> <<Fact("assistant", NoId, b.thinking[i])>>])
      BY <3>1 DEF AnthropicFacts, Speaker, BlockFacts, FlattenEach
    <3> QED
      BY <2>0, <3>1, <3>3, <3>4, AssistantUtters DEF p
  <2>3. CASE b \in UseTyped
    <3>1. b.type = "tool_use" /\ b.id \in Nat
      BY <2>3 DEF UseTyped
    <3>2. p.kind = "tool" /\ p.id = b.id
      BY <3>1 DEF Part, Tool
    <3> HIDE DEF p
    <3>3. AsTold[p] = <<Fact("call", NoId, b.id)>>
      BY <2>0, <3>2 DEF AsTold
    <3>4. AnthropicFacts("assistant", b) = <<Fact("call", NoId, b.id)>>
      BY <3>1 DEF AnthropicFacts
    <3> QED
      BY <2>0, <3>3, <3>4 DEF p
  <2> QED
    BY <2>1, <2>2, <2>3 DEF AnswerBlocks
<1>3. parts = [i \in DOMAIN content |-> Part(content[i])]
  BY DEF Parts
<1>4. parts \in Seq(AnswerParts) /\ DOMAIN parts = DOMAIN content
  BY <1>1, <1>2, <1>3
<1>5. Map(AsTold, parts) = [i \in DOMAIN content |-> AnthropicFacts("assistant", content[i])]
  BY <1>1, <1>2, <1>3, <1>4 DEF Map
<1>6. Told("anthropic", m) = FlattenSeq([i \in DOMAIN content |-> AnthropicFacts("assistant", content[i])])
  BY DEF Told, FlattenEach
<1>7. ReadMessage("anthropic", m) = <<Message("assistant", parts)>>
  BY DEF ReadMessage
<1> QED
  BY <1>4, <1>5, <1>6, <1>7 DEF Assisted, Assistant

\* For Responses: an output item of its own.
LEMMA ResponsesAssists == ASSUME NEW m \in AnswerItems PROVE Assistant("responses", m)
<1> DEFINE p == ItemPart[m]
<1>1. p \in AnswerParts /\ OutputParts(m) = <<p>>
  BY PartOfItem
<1>2. /\ m.type = "message" => m \in MessageTyped
      /\ m.type = "function_call" => m \in CallTyped
      /\ m.type = "reasoning" => m \in ReasoningTyped
      /\ m.type \in {"message", "function_call", "reasoning"}
  BY ItemsApart
<1>3. Told("responses", m) = ResponsesFacts(m)
  BY DEF Told
<1> HIDE DEF p
<1>4. ReadMessage("responses", m) = <<Message("assistant", <<p>>)>>
  <2>1. CASE m.type = "message"
    <3>1. m.role = "assistant"
      BY <1>2, <2>1 DEF MessageTyped
    <3> QED
      BY <1>1, <2>1, <3>1 DEF ReadMessage, OutputParts
  <2>2. CASE m.type = "function_call"
    BY <1>1, <2>2 DEF ReadMessage, OutputParts
  <2>3. CASE m.type = "reasoning"
    <3>1. m.summary # <<>>
      <4>1. m.summary = <<m.summary[1]>>
        BY <1>2, <2>3, OfReasoning
      <4> QED
        BY <4>1
    <3> QED
      BY <1>1, <2>3, <3>1 DEF ReadMessage, OutputParts
  <2> QED
    BY <1>2, <2>1, <2>2, <2>3
<1>5. AsTold[p] = ResponsesFacts(m)
  <2>1. CASE m.type = "message"
    <3> DEFINE b == m.content[1]
    <3>1. m.role = "assistant" /\ m.content = <<b>> /\ b \in SaidTyped
      BY <1>2, <2>1, OfMessage DEF MessageTyped
    <3> HIDE DEF b
    <3>2. b.type \in {"output_text", "refusal"} /\ b.text \in WordSeq
      BY <3>1 DEF SaidTyped
    <3>3. p = Part(b)
      <4>1. OutputParts(m) = <<Part(b)>>
        BY <2>1, <3>1 DEF OutputParts, Parts
      <4> QED
        BY <1>1, <4>1
    <3>4. p.kind \in {"text", "refusal"} /\ p.text = b.text
      BY <3>2, <3>3 DEF Part, PlainPart, Text, Refusal
    <3>5. AsTold[p] = Utter("assistant", NoId, b.text)
      BY <1>1, <3>4 DEF AsTold
    <3>6. BlockFacts("assistant", NoId, b) = FlattenSeq([i \in DOMAIN b.text |-> <<Fact("assistant", NoId, b.text[i])>>])
      BY <3>2 DEF BlockFacts, FlattenEach
    <3>7. BlockFacts("assistant", NoId, b) = AsTold[p] /\ AsTold[p] \in Seq(Facts)
      BY <3>2, <3>5, <3>6, AssistantUtters
    <3>8. ResponsesFacts(m) = FlattenSeq(<<BlockFacts("assistant", NoId, b)>>)
      BY <2>1, <3>1 DEF ResponsesFacts, ContentFacts, FlattenEach, Speaker
    <3> QED
      BY <3>7, <3>8, FlattenOne
  <2>2. CASE m.type = "function_call"
    <3>1. p = Tool(m.call_id, m.arguments)
      BY <1>1, <2>2 DEF OutputParts
    <3>2. p.kind = "tool" /\ p.id = m.call_id
      BY <3>1 DEF Tool
    <3> QED
      BY <1>1, <2>2, <3>2 DEF AsTold, ResponsesFacts
  <2>3. CASE m.type = "reasoning"
    <3> DEFINE w == m.summary[1]
               b == TextBlock("text", w)
    <3>1. m.summary = <<w>> /\ w \in WordSeq
      BY <1>2, <2>3, OfReasoning
    <3> HIDE DEF w
    <3>2. p = Thinking(w)
      <4>1. OutputParts(m) = <<Thinking(w)>>
        BY <2>3, <3>1 DEF OutputParts, Summaries
      <4> QED
        BY <1>1, <4>1
    <3>3. p.kind = "thinking" /\ p.text = w
      BY <3>2 DEF Thinking
    <3>4. AsTold[p] = Utter("assistant", NoId, w) /\ AsTold[p] \in Seq(Facts)
      BY <1>1, <3>1, <3>3, AssistantUtters DEF AsTold
    <3>5. BlockFacts("assistant", NoId, b) = AsTold[p]
      <4>1. BlockFacts("assistant", NoId, b) = FlattenSeq([i \in DOMAIN w |-> <<Fact("assistant", NoId, w[i])>>])
        BY DEF BlockFacts, FlattenEach, TextBlock
      <4> QED
        BY <3>1, <3>4, <4>1, AssistantUtters
    <3>6. ContentFacts("assistant", NoId, <<b>>) = AsTold[p]
      <4>1. ContentFacts("assistant", NoId, <<b>>) = FlattenSeq(<<BlockFacts("assistant", NoId, b)>>)
        <5> HIDE DEF b
        <5> QED
          BY DEF ContentFacts, FlattenEach
      <4> QED
        BY <3>4, <3>5, <4>1, FlattenOne
    <3>7. ResponsesFacts(m) = FlattenSeq(<<ContentFacts("assistant", NoId, <<b>>)>>)
      <4>1. ResponsesFacts(m) = FlattenSeq([i \in DOMAIN m.summary |->
                                  ContentFacts("assistant", NoId, <<TextBlock("text", m.summary[i])>>)])
        BY <2>3 DEF ResponsesFacts, FlattenEach
      <4>2. [i \in DOMAIN m.summary |-> ContentFacts("assistant", NoId, <<TextBlock("text", m.summary[i])>>)]
              = <<ContentFacts("assistant", NoId, <<b>>)>>
        BY <3>1
      <4> QED
        BY <4>1, <4>2
    <3> QED
      BY <3>4, <3>6, <3>7, FlattenOne
  <2> QED
    BY <1>2, <2>1, <2>2, <2>3
<1>6. Assisted(<<p>>) = AsTold[p] /\ <<p>> \in Seq(AnswerParts)
  BY <1>1, Assists
<1> QED
  BY <1>3, <1>4, <1>5, <1>6 DEF Assistant

-----------------------------------------------------------------------------
\* What several messages tell, one after the other; and what of it is somebody's.

Tolds(protocol, ms) == [i \in DOMAIN ms |-> Told(protocol, ms[i])]

\* One message more,
LEMMA ToldsAppend ==
  ASSUME NEW p, NEW ms, Sequence(ms), NEW m
  PROVE  /\ Sequence(Append(ms, m)) /\ Tolds(p, Append(ms, m)) = Append(Tolds(p, ms), Told(p, m))
         /\ Len(Append(ms, m)) = Len(ms) + 1
<1> DEFINE S == ToSet(ms) \cup {m}
           h == [x \in S |-> Told(p, x)]
<1>1. ms \in Seq(S) /\ m \in S
  BY SeqOfMore DEF Sequence
<1>2. \A x \in S : h[x] = Told(p, x)
  OBVIOUS
<1> HIDE DEF S, h
<1>3. Append(ms, m) \in Seq(S) /\ Len(Append(ms, m)) = Len(ms) + 1
  BY <1>1, AppendProperties
<1>4. \A s \in Seq(S) : Tolds(p, s) = Map(h, s)
  BY <1>2, MembersIn DEF Tolds, Map
<1>5. Map(h, Append(ms, m)) = Append(Map(h, ms), h[m])
  BY <1>1, MapAppend
<1> QED
  BY <1>1, <1>2, <1>3, <1>4, <1>5, IsSequence

\* or several.
LEMMA ToldsConcat ==
  ASSUME NEW p, NEW a, NEW b, Sequence(a), Sequence(b)
  PROVE  Sequence(a \o b) /\ Tolds(p, a \o b) = Tolds(p, a) \o Tolds(p, b)
<1> DEFINE S == ToSet(a) \cup ToSet(b)
           h == [x \in S |-> Told(p, x)]
<1>1. a \in Seq(S) /\ b \in Seq(S)
  BY SeqOfMore DEF Sequence
<1>2. \A x \in S : h[x] = Told(p, x)
  OBVIOUS
<1> HIDE DEF S, h
<1>3. a \o b \in Seq(S)
  BY <1>1, ConcatProperties
<1>4. \A s \in Seq(S) : Tolds(p, s) = Map(h, s)
  BY <1>2, MembersIn DEF Tolds, Map
<1>5. Map(h, a \o b) = Map(h, a) \o Map(h, b)
  BY <1>1, MapConcat
<1> QED
  BY <1>1, <1>3, <1>4, <1>5, IsSequence

\* All that messages tell is what each tells, in their order.
LEMMA TellsAllOf == ASSUME NEW p, NEW ms PROVE TellsAll(p, ms) = FlattenSeq(Tolds(p, ms))
BY DEF TellsAll, Tolds, FlattenEach

OnlyBy(who) == [f \in AllFacts |-> IF f.by = who THEN <<f>> ELSE <<>>]
CalledIn == [f \in AllFacts |-> IF f.by = "call" THEN <<f.word>> ELSE <<>>]

\* What one of them said in two texts,
LEMMA Bys ==
  ASSUME NEW who
  PROVE  /\ By(<<>>, who) = <<>>
         /\ \A a \in Seq(AllFacts) : By(a, who) \in Seq(AllFacts)
         /\ \A a, b \in Seq(AllFacts) : By(a \o b, who) = By(a, who) \o By(b, who)
<1>1. Gives(OnlyBy(who), AllFacts, Seq(AllFacts))
  BY DEF Gives, OnlyBy
<1>2. \A a \in Seq(AllFacts) : By(a, who) = FlattenSeq(Map(OnlyBy(who), a))
  <2> TAKE a \in Seq(AllFacts)
  <2>1. [i \in DOMAIN a |-> IF a[i].by = who THEN <<a[i]>> ELSE <<>>] = Map(OnlyBy(who), a)
    BY MembersIn DEF Map, OnlyBy
  <2> QED
    BY <2>1 DEF By, FlattenEach
<1>3. By(<<>>, who) = <<>>
  BY <1>2, MapEmpty, FlattenEmpty, EmptySeq
<1>4. ASSUME NEW a \in Seq(AllFacts) PROVE By(a, who) \in Seq(AllFacts)
  BY <1>1, <1>2, FlattenMapType
<1>5. ASSUME NEW a \in Seq(AllFacts), NEW b \in Seq(AllFacts) PROVE By(a \o b, who) = By(a, who) \o By(b, who)
  <2>1. a \o b \in Seq(AllFacts)
    BY ConcatProperties
  <2>2. Splits(OnlyBy(who), a, b)
    BY <1>1, FlattenMapConcat
  <2> QED
    BY <1>2, <2>1, <2>2 DEF Splits
<1> QED
  BY <1>3, <1>4, <1>5

\* and the calls.
LEMMA CallsIns ==
  /\ CallsIn(<<>>) = <<>>
  /\ \A a \in Seq(AllFacts) : CallsIn(a) \in Seq(Int)
  /\ \A a, b \in Seq(AllFacts) : CallsIn(a \o b) = CallsIn(a) \o CallsIn(b)
<1>1. Gives(CalledIn, AllFacts, Seq(Int))
  BY DEF Gives, CalledIn, AllFacts
<1>2. \A a \in Seq(AllFacts) : CallsIn(a) = FlattenSeq(Map(CalledIn, a))
  <2> TAKE a \in Seq(AllFacts)
  <2>1. [i \in DOMAIN a |-> IF a[i].by = "call" THEN <<a[i].word>> ELSE <<>>] = Map(CalledIn, a)
    BY MembersIn DEF Map, CalledIn
  <2> QED
    BY <2>1 DEF CallsIn, FlattenEach
<1>3. CallsIn(<<>>) = <<>>
  BY <1>2, MapEmpty, FlattenEmpty, EmptySeq
<1>4. ASSUME NEW a \in Seq(AllFacts) PROVE CallsIn(a) \in Seq(Int)
  BY <1>1, <1>2, FlattenMapType
<1>5. ASSUME NEW a \in Seq(AllFacts), NEW b \in Seq(AllFacts) PROVE CallsIn(a \o b) = CallsIn(a) \o CallsIn(b)
  <2>1. a \o b \in Seq(AllFacts)
    BY ConcatProperties
  <2>2. Splits(CalledIn, a, b)
    BY <1>1, FlattenMapConcat
  <2> QED
    BY <1>2, <2>1, <2>2 DEF Splits
<1> QED
  BY <1>3, <1>4, <1>5

FactsBy(who) == {f \in AllFacts : f.by = who}

\* What is all of one is his and nobody else's.
LEMMA ByOne ==
  ASSUME NEW w, NEW s \in Seq(FactsBy(w))
  PROVE  /\ s \in Seq(AllFacts) /\ By(s, w) = s
         /\ \A v : v # w => By(s, v) = <<>>
         /\ w # "call" => CallsIn(s) = <<>>
<1>1. s \in Seq(AllFacts)
  BY SeqOfMore DEF FactsBy
<1>2. \A i \in DOMAIN s : s[i] \in AllFacts /\ s[i].by = w
  BY MembersIn DEF FactsBy
<1> DEFINE f == [x \in FactsBy(w) |-> <<x>>]
           g == [x \in FactsBy(w) |-> x]
           none == [x \in FactsBy(w) |-> <<>>]
<1>3. By(s, w) = s
  <2>1. By(s, w) = FlattenSeq(Map(f, s))
    <3>1. [i \in DOMAIN s |-> IF s[i].by = w THEN <<s[i]>> ELSE <<>>] = Map(f, s)
      BY <1>2 DEF Map, FactsBy
    <3> QED
      BY <3>1 DEF By, FlattenEach
  <2>2. Alone(f, g, FactsBy(w))
    BY DEF Alone
  <2>3. Map(g, s) = s
    <3>1. Len(s) \in Nat /\ DOMAIN s = 1 .. Len(s) /\ s = [i \in DOMAIN s |-> s[i]]
      BY LenProperties
    <3>2. Map(g, s) = [i \in DOMAIN s |-> s[i]]
      BY <1>2 DEF Map, FactsBy
    <3> QED
      BY <3>1, <3>2
  <2> HIDE DEF f, g
  <2>4. FlattenSeq(Map(f, s)) = Map(g, s)
    BY <2>2, FlattenSingles
  <2> QED
    BY <2>1, <2>3, <2>4
<1>4. Silent(none, FactsBy(w))
  BY DEF Silent
<1>5. FlattenSeq(Map(none, s)) = <<>>
  <2> HIDE DEF none
  <2> QED
    BY <1>4, FlattenNothing
<1>6. ASSUME NEW v, v # w PROVE By(s, v) = <<>>
  <2>1. [i \in DOMAIN s |-> IF s[i].by = v THEN <<s[i]>> ELSE <<>>] = Map(none, s)
    BY <1>2, <1>6 DEF Map, FactsBy
  <2> QED
    BY <1>5, <2>1 DEF By, FlattenEach
<1>7. ASSUME w # "call" PROVE CallsIn(s) = <<>>
  <2>1. [i \in DOMAIN s |-> IF s[i].by = "call" THEN <<s[i].word>> ELSE <<>>] = Map(none, s)
    BY <1>2, <1>7 DEF Map, FactsBy
  <2> QED
    BY <1>5, <2>1 DEF CallsIn, FlattenEach
<1> QED
  BY <1>1, <1>3, <1>6, <1>7

FactsOf(by, of) == {f \in AllFacts : f.by = by /\ f.of = of}

\* The facts of a text and of plain parts are all of the one who is said to tell them,
LEMMA PlainBy ==
  ASSUME NEW by \in Whos, NEW of \in Int
  PROVE  /\ \A text \in Seq(Int) : Utter(by, of, text) \in Seq(FactsOf(by, of))
         /\ \A parts \in Seq(PlainSet) : PlainSaid(by, of, parts) \in Seq(FactsOf(by, of))
         /\ FactsOf(by, of) \subseteq FactsBy(by)
         /\ \A s \in Seq(FactsOf(by, of)) : s \in Seq(FactsBy(by))
<1> DEFINE T == FactsOf(by, of)
           h == [p \in PlainSet |-> PlainWords(by, of, p)]
<1>1. ASSUME NEW text \in Seq(Int) PROVE Utter(by, of, text) \in Seq(T)
  <2>1. Len(text) \in Nat /\ DOMAIN text = 1 .. Len(text) /\ \A i \in DOMAIN text : text[i] \in Int
    BY LenProperties, MembersIn
  <2>2. \A i \in DOMAIN text : Fact(by, of, text[i]) \in T
    BY <2>1 DEF Fact, FactsOf, AllFacts
  <2> HIDE DEF T
  <2> QED
    BY <2>1, <2>2 DEF Utter
<1>2. ASSUME NEW p \in PlainSet PROVE PlainWords(by, of, p) \in Seq(T)
  <2>1. CASE p.kind = "image"
    <3>1. p.url \in Int
      BY <2>1 DEF PlainSet, ImageSet, TextSet
    <3>2. Fact(by, of, p.url) \in T
      BY <3>1 DEF Fact, FactsOf, AllFacts
    <3> QED
      BY <2>1, <3>2 DEF PlainWords
  <2>2. CASE p.kind # "image"
    <3>1. p.text \in Seq(Int)
      BY <2>2 DEF PlainSet, ImageSet, TextSet
    <3> QED
      BY <1>1, <2>2, <3>1 DEF PlainWords
  <2> QED
    BY <2>1, <2>2
<1>3. Gives(h, PlainSet, Seq(T))
  BY <1>2 DEF Gives
<1>4. ASSUME NEW parts \in Seq(PlainSet) PROVE PlainSaid(by, of, parts) \in Seq(T)
  <2>1. [i \in DOMAIN parts |-> PlainWords(by, of, parts[i])] = Map(h, parts)
    BY MembersIn DEF Map
  <2> HIDE DEF h, T
  <2> QED
    BY <1>3, <2>1, FlattenMapType DEF PlainSaid
<1>5. T \subseteq FactsBy(by)
  BY DEF FactsOf, FactsBy
<1> HIDE DEF T
<1>6. \A s \in Seq(T) : s \in Seq(FactsBy(by))
  BY <1>5, SeqOfMore
<1> QED
  BY <1>1, <1>4, <1>5, <1>6 DEF T

\* and those of a result of the call it answers.
LEMMA ResultBy ==
  ASSUME NEW p \in ResultSet
  PROVE  ResultWords(p) \in Seq(FactsOf("result", p.id))
<1> DEFINE a == IF p.failed THEN <<Fact("result", p.id, ToolError)>> ELSE <<>>
           b == PlainSaid("result", p.id, p.content)
           T == FactsOf("result", p.id)
<1>1. p.id \in Int /\ p.content \in Seq(PlainSet) /\ "result" \in Whos
  BY DEF ResultSet, Whos
<1>2. a \in Seq(T)
  <2>1. Fact("result", p.id, ToolError) \in T
    BY <1>1 DEF AllFacts, Fact, ToolError, FactsOf
  <2> HIDE DEF T
  <2> QED
    BY <2>1
<1>3. b \in Seq(T)
  BY <1>1, PlainBy
<1> HIDE DEF a, b, T
<1>4. a \o b \in Seq(T)
  BY <1>2, <1>3, ConcatProperties
<1> QED
  BY <1>4 DEF a, b, T, ResultWords

\* The members of two texts.
LEMMA MembersOfBoth ==
  ASSUME NEW S, NEW a \in Seq(S), NEW b \in Seq(S)
  PROVE  ToSet(a \o b) = ToSet(a) \cup ToSet(b)
<1>1. /\ Len(a) \in Nat /\ Len(b) \in Nat /\ DOMAIN a = 1 .. Len(a) /\ DOMAIN b = 1 .. Len(b)
      /\ Len(a \o b) = Len(a) + Len(b) /\ DOMAIN (a \o b) = 1 .. Len(a) + Len(b)
      /\ \A i \in 1 .. Len(a) + Len(b) : (a \o b)[i] = IF i <= Len(a) THEN a[i] ELSE b[i - Len(a)]
  BY LenProperties, ConcatProperties
<1>2. ASSUME NEW x \in ToSet(a \o b) PROVE x \in ToSet(a) \cup ToSet(b)
  <2>1. PICK i \in 1 .. Len(a) + Len(b) : x = (a \o b)[i]
    BY <1>1 DEF ToSet
  <2>2. CASE i <= Len(a)
    BY <1>1, <2>1, <2>2 DEF ToSet
  <2>3. CASE ~ i <= Len(a)
    <3>1. i - Len(a) \in 1 .. Len(b) /\ x = b[i - Len(a)]
      BY <1>1, <2>1, <2>3
    <3> QED
      BY <1>1, <3>1 DEF ToSet
  <2> QED
    BY <2>2, <2>3
<1>3. ASSUME NEW x \in ToSet(a) PROVE x \in ToSet(a \o b)
  <2>1. PICK i \in 1 .. Len(a) : x = a[i]
    BY <1>1 DEF ToSet
  <2>2. i \in 1 .. Len(a) + Len(b) /\ x = (a \o b)[i]
    BY <1>1, <2>1
  <2> QED
    BY <1>1, <2>2 DEF ToSet
<1>4. ASSUME NEW x \in ToSet(b) PROVE x \in ToSet(a \o b)
  <2>1. PICK i \in 1 .. Len(b) : x = b[i]
    BY <1>1 DEF ToSet
  <2>2. i + Len(a) \in 1 .. Len(a) + Len(b) /\ ~ (i + Len(a) <= Len(a)) /\ i + Len(a) - Len(a) = i
    BY <1>1, <2>1
  <2>3. x = (a \o b)[i + Len(a)]
    BY <1>1, <2>1, <2>2
  <2> QED
    BY <1>1, <2>2, <2>3 DEF ToSet
<1> QED
  BY <1>2, <1>3, <1>4

\* The same, but for the order in which the assistant's thoughts and words come in Chat.
Alike(a, b) ==
  /\ Len(a) = Len(b) /\ CallsIn(a) = CallsIn(b)
  /\ ToSet(By(a, "assistant")) = ToSet(By(b, "assistant"))
  /\ \A who : who # "assistant" => By(a, who) = By(b, who)

\* What an answer tells, as Chat has it: the thoughts, the words and the calls.
Weighs(f, a, b, c) ==
  /\ f \in Seq(AllFacts) /\ a \in Seq(FactsBy("assistant")) /\ b \in Seq(FactsBy("assistant"))
  /\ c \in Seq(FactsBy("call"))
  /\ Len(f) = Len(a) + Len(b) + Len(c) /\ CallsIn(f) = CallsIn(c)
  /\ ToSet(By(f, "assistant")) = ToSet(a) \cup ToSet(b)
  /\ By(f, "call") = c
  /\ \A who : who \notin {"assistant", "call"} => By(f, who) = <<>>

\* A thought or word more,
LEMMA WordWeighs ==
  ASSUME NEW f, NEW a, NEW b, NEW c, Weighs(f, a, b, c), NEW x \in Seq(FactsBy("assistant"))
  PROVE  Weighs(f \o x, a \o x, b, c) /\ Weighs(f \o x, a, b \o x, c)
<1>1. f \in Seq(AllFacts) /\ x \in Seq(AllFacts) /\ a \in Seq(FactsBy("assistant")) /\ b \in Seq(FactsBy("assistant"))
      /\ c \in Seq(FactsBy("call")) /\ c \in Seq(AllFacts)
  BY ByOne DEF Weighs
<1>2. /\ f \o x \in Seq(AllFacts) /\ Len(f \o x) = Len(f) + Len(x)
      /\ a \o x \in Seq(FactsBy("assistant")) /\ Len(a \o x) = Len(a) + Len(x)
      /\ b \o x \in Seq(FactsBy("assistant")) /\ Len(b \o x) = Len(b) + Len(x)
  BY <1>1, ConcatProperties
<1>3. /\ Len(f) \in Nat /\ Len(a) \in Nat /\ Len(b) \in Nat /\ Len(c) \in Nat /\ Len(x) \in Nat
  BY <1>1, LenProperties
<1>4. Len(f \o x) = Len(a \o x) + Len(b) + Len(c) /\ Len(f \o x) = Len(a) + Len(b \o x) + Len(c)
  BY <1>2, <1>3 DEF Weighs
<1>5. ToSet(a \o x) = ToSet(a) \cup ToSet(x) /\ ToSet(b \o x) = ToSet(b) \cup ToSet(x)
  BY <1>1, MembersOfBoth
<1>6. By(x, "assistant") = x /\ (\A v : v # "assistant" => By(x, v) = <<>>) /\ CallsIn(x) = <<>>
  BY ByOne
<1>7. \A who : /\ By(f \o x, who) = By(f, who) \o By(x, who)
               /\ By(f, who) \in Seq(AllFacts) /\ By(f, who) \o <<>> = By(f, who)
  BY <1>1, Bys, ConcatEmptySeq
<1>8. ToSet(By(f \o x, "assistant")) = ToSet(By(f, "assistant")) \cup ToSet(x)
  <2> DEFINE y == By(f, "assistant")
  <2>1. By(f \o x, "assistant") = y \o x /\ y \in Seq(AllFacts)
    BY <1>6, <1>7
  <2> HIDE DEF y
  <2>2. ToSet(y \o x) = ToSet(y) \cup ToSet(x)
    BY <1>1, <2>1, MembersOfBoth
  <2> QED
    BY <2>1, <2>2 DEF y
<1>9. CallsIn(f \o x) = CallsIn(c)
  <2>1. CallsIn(f \o x) = CallsIn(f) \o <<>> /\ CallsIn(f) \in Seq(Int)
    BY <1>1, <1>6, CallsIns
  <2>2. CallsIn(f) \o <<>> = CallsIn(f)
    BY <2>1, ConcatEmptySeq
  <2> QED
    BY <2>1, <2>2 DEF Weighs
<1>10. By(f \o x, "call") = c /\ \A who : who \notin {"assistant", "call"} => By(f \o x, who) = <<>>
  BY <1>6, <1>7 DEF Weighs
<1>11. /\ ToSet(By(f \o x, "assistant")) = ToSet(a \o x) \cup ToSet(b)
       /\ ToSet(By(f \o x, "assistant")) = ToSet(a) \cup ToSet(b \o x)
  BY <1>5, <1>8 DEF Weighs
<1> QED
  BY <1>1, <1>2, <1>4, <1>9, <1>10, <1>11 DEF Weighs

\* or a call.
LEMMA CallWeighs ==
  ASSUME NEW f, NEW a, NEW b, NEW c, Weighs(f, a, b, c), NEW x \in Seq(FactsBy("call"))
  PROVE  Weighs(f \o x, a, b, c \o x)
<1>1. f \in Seq(AllFacts) /\ x \in Seq(AllFacts) /\ a \in Seq(FactsBy("assistant")) /\ b \in Seq(FactsBy("assistant"))
      /\ c \in Seq(FactsBy("call")) /\ c \in Seq(AllFacts)
  BY ByOne DEF Weighs
<1>2. /\ f \o x \in Seq(AllFacts) /\ Len(f \o x) = Len(f) + Len(x)
      /\ c \o x \in Seq(FactsBy("call")) /\ Len(c \o x) = Len(c) + Len(x)
  BY <1>1, ConcatProperties
<1>3. /\ Len(f) \in Nat /\ Len(a) \in Nat /\ Len(b) \in Nat /\ Len(c) \in Nat /\ Len(x) \in Nat
  BY <1>1, LenProperties
<1>4. Len(f \o x) = Len(a) + Len(b) + Len(c \o x)
  BY <1>2, <1>3 DEF Weighs
<1>6. By(x, "call") = x /\ (\A v : v # "call" => By(x, v) = <<>>)
  BY ByOne
<1>7. \A who : /\ By(f \o x, who) = By(f, who) \o By(x, who)
               /\ By(f, who) \in Seq(AllFacts) /\ By(f, who) \o <<>> = By(f, who)
  BY <1>1, Bys, ConcatEmptySeq
<1>9. CallsIn(f \o x) = CallsIn(c \o x)
  <2>1. CallsIn(f) = CallsIn(c)
    BY DEF Weighs
  <2>2. CallsIn(f \o x) = CallsIn(f) \o CallsIn(x) /\ CallsIn(c \o x) = CallsIn(c) \o CallsIn(x)
    BY <1>1, CallsIns
  <2> QED
    BY <2>1, <2>2
<1>10. By(f \o x, "call") = c \o x
  BY <1>6, <1>7 DEF Weighs
<1>11. \A who : who \notin {"assistant", "call"} => By(f \o x, who) = <<>>
  BY <1>6, <1>7 DEF Weighs
<1>12. By(f \o x, "assistant") = By(f, "assistant")
  BY <1>6, <1>7
<1>13. ToSet(By(f \o x, "assistant")) = ToSet(a) \cup ToSet(b)
  BY <1>12 DEF Weighs
<1> QED
  BY <1>1, <1>2, <1>4, <1>9, <1>10, <1>11, <1>13 DEF Weighs

\* Put together that tells the same.
LEMMA WeighsAlike ==
  ASSUME NEW f, NEW a, NEW b, NEW c, Weighs(f, a, b, c)
  PROVE  /\ (a \o b) \o c \in Seq(AllFacts)
         /\ Alike((a \o b) \o c, f)
<1> DEFINE ab == a \o b
<1>1. f \in Seq(AllFacts) /\ a \in Seq(FactsBy("assistant")) /\ b \in Seq(FactsBy("assistant"))
      /\ c \in Seq(FactsBy("call")) /\ c \in Seq(AllFacts) /\ "assistant" # "call"
  BY ByOne DEF Weighs
<1>2. ab \in Seq(FactsBy("assistant")) /\ Len(ab) = Len(a) + Len(b) /\ ToSet(ab) = ToSet(a) \cup ToSet(b)
  BY <1>1, ConcatProperties, MembersOfBoth
<1> HIDE DEF ab
<1>3. ab \in Seq(AllFacts) /\ By(ab, "assistant") = ab /\ (\A v : v # "assistant" => By(ab, v) = <<>>)
      /\ CallsIn(ab) = <<>>
  BY <1>1, <1>2, ByOne
<1>4. By(c, "call") = c /\ (\A v : v # "call" => By(c, v) = <<>>)
  BY <1>1, ByOne
<1>5. ab \o c \in Seq(AllFacts) /\ Len(ab \o c) = Len(ab) + Len(c)
  BY <1>1, <1>3, ConcatProperties
<1>6. \A who : By(ab \o c, who) = By(ab, who) \o By(c, who)
  BY <1>1, <1>3, Bys
<1>7. CallsIn(ab \o c) = CallsIn(c)
  <2>1. CallsIn(ab \o c) = <<>> \o CallsIn(c) /\ CallsIn(c) \in Seq(Int)
    BY <1>1, <1>3, CallsIns
  <2> QED
    BY <2>1, ConcatEmptySeq
<1>8. By(ab \o c, "assistant") = ab
  <2>1. By(ab \o c, "assistant") = ab \o <<>>
    BY <1>1, <1>3, <1>4, <1>6
  <2> QED
    BY <1>3, <2>1, ConcatEmptySeq
<1>9. By(ab \o c, "call") = c
  <2>1. By(ab \o c, "call") = <<>> \o c
    BY <1>1, <1>3, <1>4, <1>6
  <2> QED
    BY <1>1, <2>1, ConcatEmptySeq
<1>10. ASSUME NEW who, who \notin {"assistant", "call"} PROVE By(ab \o c, who) = <<>>
  <2>1. By(ab \o c, who) = <<>> \o <<>>
    BY <1>3, <1>4, <1>6, <1>10
  <2> QED
    BY <2>1
<1>11. Len(ab \o c) = Len(f)
  BY <1>2, <1>5 DEF Weighs
<1>12. ASSUME NEW who, who # "assistant" PROVE By(ab \o c, who) = By(f, who)
  BY <1>9, <1>10, <1>12 DEF Weighs
<1> QED
  BY <1>2, <1>5, <1>7, <1>8, <1>11, <1>12 DEF Weighs, Alike, ab

-----------------------------------------------------------------------------
\* Writing what the assistant said for the OpenAI protocols.

CallFacts(made) == [i \in DOMAIN made |-> Fact("call", NoId, made[i].id)]

\* The calls of a Chat message are told one by one.
LEMMA CallsTold ==
  ASSUME NEW made \in Seq(CallParted)
  PROVE  /\ CallFacts(made) \in Seq(FactsBy("call"))
         /\ FlattenSeq([i \in DOMAIN made |-> <<Fact("call", NoId, made[i].id)>>]) = CallFacts(made)
         /\ \A c \in CallParted : CallFacts(Append(made, c)) = CallFacts(made) \o <<Fact("call", NoId, c.id)>>
<1> DEFINE h == [c \in CallParted |-> Fact("call", NoId, c.id)]
           f == [c \in CallParted |-> <<Fact("call", NoId, c.id)>>]
<1>1. Gives(h, CallParted, FactsBy("call"))
  BY DEF Gives, Fact, FactsBy, AllFacts, Whos, CallParted, NoId
<1>2. Alone(f, h, CallParted)
  BY DEF Alone
<1>3. \A s \in Seq(CallParted) : Map(h, s) = CallFacts(s)
  BY MembersIn DEF Map, CallFacts
<1>4. Map(f, made) = [i \in DOMAIN made |-> <<Fact("call", NoId, made[i].id)>>]
  BY MembersIn DEF Map
<1>5. \A c \in CallParted : h[c] = Fact("call", NoId, c.id)
  OBVIOUS
<1> HIDE DEF h, f
<1>6. Map(h, made) \in Seq(FactsBy("call"))
  BY <1>1, MapType
<1>7. FlattenSeq(Map(f, made)) = Map(h, made)
  BY <1>2, FlattenSingles
<1>8. ASSUME NEW c \in CallParted
      PROVE  CallFacts(Append(made, c)) = CallFacts(made) \o <<Fact("call", NoId, c.id)>>
  <2>1. Append(made, c) \in Seq(CallParted)
    BY AppendProperties
  <2>2. Map(h, Append(made, c)) = Append(Map(h, made), h[c])
    BY MapAppend
  <2>3. h[c] \in FactsBy("call")
    BY <1>1 DEF Gives
  <2>4. Append(Map(h, made), h[c]) = Map(h, made) \o <<h[c]>>
    BY <1>6, <2>3, AppendIsConcat
  <2> QED
    BY <1>3, <1>5, <2>1, <2>2, <2>4
<1> QED
  BY <1>3, <1>4, <1>6, <1>7, <1>8

\* A part of an answer that is words is a plain part.
LEMMA WordsPlain ==
  ASSUME NEW p \in AnswerParts, p.kind \in {"text", "refusal"}
  PROVE  p \in PlainSet /\ PlainWords("assistant", NoId, p) = AsTold[p] /\ p.kind # "image"
<1>1. p.text \in Seq(Nat)
  BY DEF AnswerParts, TextParted, ToolParted, WordSeq
<1>2. p.text \in Seq(Int)
  BY <1>1, SeqOfMore
<1>3. p = [kind |-> p.kind, text |-> p.text]
  BY DEF AnswerParts, TextParted, ToolParted
<1>4. p \in TextSet
  BY <1>2, <1>3 DEF TextSet
<1> QED
  BY <1>4 DEF PlainSet, PlainWords, AsTold

\* A part of an answer tells words of the assistant or a call.
LEMMA PartSpeaks ==
  ASSUME NEW p \in AnswerParts
  PROVE  /\ p.kind = "tool" => AsTold[p] \in Seq(FactsBy("call"))
         /\ p.kind # "tool" => AsTold[p] \in Seq(FactsBy("assistant"))
         /\ p.kind # "tool" => p.text \in WordSeq /\ p.text \in Seq(Int)
         /\ p.kind \in {"text", "refusal", "thinking", "tool"}
<1>1. p.kind \in {"text", "refusal", "thinking", "tool"}
  BY DEF AnswerParts, TextParted, ToolParted
<1>2. ASSUME p.kind = "tool" PROVE AsTold[p] \in Seq(FactsBy("call"))
  <2>1. p.id \in Nat
    BY <1>2 DEF AnswerParts, TextParted, ToolParted
  <2>2. Fact("call", NoId, p.id) \in FactsBy("call")
    BY <2>1 DEF Fact, FactsBy, AllFacts, Whos, NoId
  <2> QED
    BY <1>2, <2>2 DEF AsTold
<1>3. ASSUME p.kind # "tool"
      PROVE  AsTold[p] \in Seq(FactsBy("assistant")) /\ p.text \in WordSeq /\ p.text \in Seq(Int)
  <2>1. p.text \in WordSeq
    BY <1>3 DEF AnswerParts, TextParted, ToolParted
  <2>2. p.text \in Seq(Int)
    BY <2>1, SeqOfMore DEF WordSeq
  <2>3. Utter("assistant", NoId, p.text) \in Seq(FactsBy("assistant"))
    BY <2>2, PlainBy DEF Whos, NoId
  <2> QED
    BY <1>3, <2>1, <2>2, <2>3 DEF AsTold
<1> QED
  BY <1>1, <1>2, <1>3

\* What writeMessages has collected for Chat tells, taken together, what the parts tell.
Within(items, pending, thinking, made) ==
  [items |-> items, pending |-> pending, thinking |-> thinking, calls |-> made]
Collected(acc, items, f) ==
  \E t \in WordSeq, q \in Seq(PlainSet), c \in Seq(CallParted) :
    /\ acc = Within(items, q, t, c)
    /\ Weighs(f, Utter("assistant", NoId, t), PlainSaid("assistant", NoId, q), CallFacts(c))

\* So it does, and what it wrote before is left alone.
LEMMA ChatCollects ==
  ASSUME NEW items, NEW parts \in Seq(AnswerParts)
  PROVE  Collected(WriteParts("chat", "assistant", items, parts), items, Assisted(parts))
<1> DEFINE P == {s \in Seq(AnswerParts) : Collected(WriteParts("chat", "assistant", items, s), items, Assisted(s))}
<1>1. <<>> \in P
  <2>1. Weighs(<<>>, <<>>, <<>>, <<>>)
    <3>1. \A who : By(<<>>, who) = <<>>
      BY Bys
    <3>2. ToSet(<<>>) = {} /\ CallsIn(<<>>) = <<>> /\ Len(<<>>) = 0
      BY CallsIns DEF ToSet
    <3> QED
      BY <3>1, <3>2, EmptySeq DEF Weighs
  <2>2. Utter("assistant", NoId, <<>>) = <<>> /\ CallFacts(<<>>) = <<>>
    BY DEF Utter, CallFacts
  <2>3. PlainSaid("assistant", NoId, <<>>) = <<>>
    BY PlainsTold DEF Whos, NoId
  <2>4. Assisted(<<>>) = <<>>
    BY Assists
  <2>5. WriteParts("chat", "assistant", items, <<>>) = Within(items, <<>>, <<>>, <<>>)
    BY PartsNone DEF Started, Within
  <2>6. <<>> \in WordSeq /\ <<>> \in Seq(PlainSet) /\ <<>> \in Seq(CallParted) /\ <<>> \in Seq(AnswerParts)
    BY EmptySeq DEF WordSeq
  <2>7. Collected(WriteParts("chat", "assistant", items, <<>>), items, Assisted(<<>>))
    BY <2>1, <2>2, <2>3, <2>4, <2>5, <2>6 DEF Collected
  <2> QED
    BY <2>6, <2>7
<1>2. ASSUME NEW s \in Seq(AnswerParts), NEW p \in AnswerParts, s \in P PROVE Append(s, p) \in P
  <2> DEFINE acc == WriteParts("chat", "assistant", items, s)
             f == Assisted(s)
             x == AsTold[p]
             next == WritePart("chat", "assistant", acc, p)
  <2>1. PICK t \in WordSeq, q \in Seq(PlainSet), c \in Seq(CallParted) :
          /\ acc = Within(items, q, t, c)
          /\ Weighs(f, Utter("assistant", NoId, t), PlainSaid("assistant", NoId, q), CallFacts(c))
    BY <1>2 DEF Collected
  <2>2. WriteParts("chat", "assistant", items, Append(s, p)) = next
    BY PartsMore
  <2>3. Assisted(Append(s, p)) = f \o x
    <3>1. Append(s, p) = s \o <<p>> /\ <<p>> \in Seq(AnswerParts)
      BY AppendIsConcat
    <3> QED
      BY <3>1, Assists
  <2> HIDE DEF f, acc
  <2>4. CASE p.kind = "thinking"
    <3>1. next = Within(items, q, t \o p.text, c)
      BY <2>1, <2>4 DEF WritePart, WriteThinking, Within
    <3>2. x \in Seq(FactsBy("assistant")) /\ p.text \in WordSeq /\ x = Utter("assistant", NoId, p.text)
      BY <2>4, PartSpeaks DEF AsTold
    <3>3. t \o p.text \in WordSeq
      BY <3>2, ConcatProperties DEF WordSeq
    <3>4. Utter("assistant", NoId, t \o p.text) = Utter("assistant", NoId, t) \o x
      <4> DEFINE w == p.text
      <4>1. t \in Seq(Int) /\ w \in Seq(Int)
        BY <2>1, <3>2, SeqOfMore DEF WordSeq
      <4>2. x = Utter("assistant", NoId, w)
        BY <3>2
      <4> HIDE DEF w, x
      <4>3. Utter("assistant", NoId, t \o w) = Utter("assistant", NoId, t) \o Utter("assistant", NoId, w)
        BY <4>1, UtterConcat
      <4>4. Utter("assistant", NoId, t \o w) = Utter("assistant", NoId, t) \o x
        BY <4>2, <4>3
      <4> QED
        BY <4>4 DEF w
    <3> HIDE DEF x, next
    <3>5. Weighs(f \o x, Utter("assistant", NoId, t) \o x, PlainSaid("assistant", NoId, q), CallFacts(c))
      BY <2>1, <3>2, WordWeighs
    <3>6. Collected(next, items, f \o x)
      BY <2>1, <3>1, <3>3, <3>4, <3>5 DEF Collected
    <3> QED
      BY <2>2, <2>3, <3>6, AppendProperties
  <2>5. CASE p.kind = "tool"
    <3> DEFINE c1 == Call(p.id, p.arguments)
    <3>1. next = Within(items, q, t, Append(c, c1))
      BY <2>1, <2>5 DEF WritePart, WriteCall, Within
    <3>2. x \in Seq(FactsBy("call")) /\ x = <<Fact("call", NoId, c1.id)>> /\ c1 \in CallParted
      <4>1. p.id \in Nat /\ p.arguments \in Arguments
        BY <2>5 DEF AnswerParts, TextParted, ToolParted
      <4> QED
        BY <2>5, <4>1, PartSpeaks DEF AsTold, Call, CallParted
    <3> HIDE DEF x, next, c1
    <3>3. Append(c, c1) \in Seq(CallParted) /\ CallFacts(Append(c, c1)) = CallFacts(c) \o x
      BY <3>2, CallsTold, AppendProperties
    <3>4. Weighs(f \o x, Utter("assistant", NoId, t), PlainSaid("assistant", NoId, q), CallFacts(c) \o x)
      BY <2>1, <3>2, CallWeighs
    <3>5. Collected(next, items, f \o x)
      BY <2>1, <3>1, <3>3, <3>4 DEF Collected
    <3> QED
      BY <2>2, <2>3, <3>5, AppendProperties
  <2>6. CASE p.kind \in {"text", "refusal"}
    <3>1. next = Within(items, Append(q, p), t, c)
      BY <2>1, <2>6 DEF WritePart, Within
    <3>2. p \in PlainSet /\ PlainWords("assistant", NoId, p) = x /\ x \in Seq(FactsBy("assistant"))
      BY <2>6, WordsPlain, PartSpeaks
    <3>3. Append(q, p) \in Seq(PlainSet) /\ PlainSaid("assistant", NoId, Append(q, p)) = PlainSaid("assistant", NoId, q) \o x
      <4>1. <<p>> \in Seq(PlainSet) /\ Append(q, p) \in Seq(PlainSet)
        BY <3>2, AppendProperties
      <4>2. Append(q, p) = q \o <<p>>
        BY <3>2, AppendIsConcat
      <4>3. "assistant" \in Whos /\ NoId \in Int
        BY DEF Whos, NoId
      <4>4. PlainSaid("assistant", NoId, <<p>>) = PlainWords("assistant", NoId, p)
        BY <3>2, <4>3, PlainsTold
      <4>5. PlainSaid("assistant", NoId, q \o <<p>>)
              = PlainSaid("assistant", NoId, q) \o PlainSaid("assistant", NoId, <<p>>)
        BY <4>1, <4>3, PlainsTold
      <4> QED
        BY <3>2, <4>1, <4>2, <4>4, <4>5
    <3> HIDE DEF x, next
    <3>4. Weighs(f \o x, Utter("assistant", NoId, t), PlainSaid("assistant", NoId, q) \o x, CallFacts(c))
      BY <2>1, <3>2, WordWeighs
    <3>5. Collected(next, items, f \o x)
      BY <2>1, <3>1, <3>3, <3>4 DEF Collected
    <3> QED
      BY <2>2, <2>3, <3>5, AppendProperties
  <2> QED
    BY <2>4, <2>5, <2>6, PartSpeaks
<1> HIDE DEF P
<1>3. Seq(AnswerParts) \subseteq P
  BY <1>1, <1>2, SeqInduction
<1> QED
  BY <1>3 DEF P

-----------------------------------------------------------------------------
\* For the OpenAI protocols a message is written after those before it, which stay as they are.
OpenAI == {"chat", "responses"}

\* What comes after two sequences comes after the second.
LEMMA AppendApart ==
  ASSUME NEW a, NEW b, Sequence(a), Sequence(b), NEW e
  PROVE  Append(a \o b, e) = a \o Append(b, e) /\ Sequence(Append(b, e)) /\ Sequence(a \o b)
<1> DEFINE S == ToSet(a) \cup ToSet(b) \cup {e}
<1>1. a \in Seq(S) /\ b \in Seq(S) /\ e \in S
  BY SeqOfMore DEF Sequence
<1> HIDE DEF S
<1>2. Append(b, e) \in Seq(S) /\ a \o b \in Seq(S)
  BY <1>1, AppendProperties, ConcatProperties
<1>3. Append(a \o b, e) = a \o Append(b, e)
  BY <1>1
<1> QED
  BY <1>2, <1>3, IsSequence

\* Where writeMessages is within a message, after some items and without them.
Beside(items, a, b) ==
  \E x, q, t, c : Sequence(x) /\ a = Within(x, q, t, c) /\ b = Within(items \o x, q, t, c)

\* What is pending is written after them,
LEMMA FlushApart ==
  ASSUME NEW to \in OpenAI, NEW role, NEW items, Sequence(items), NEW a, NEW b, Beside(items, a, b)
  PROVE  Beside(items, Flush(to, role, a), Flush(to, role, b))
<1>1. PICK x, q, t, c : Sequence(x) /\ a = Within(x, q, t, c) /\ b = Within(items \o x, q, t, c)
  BY DEF Beside
<1>2. CASE q = <<>>
  BY <1>1, <1>2 DEF Beside, Flush, Within
<1>3. CASE q # <<>>
  <2> DEFINE e == IF to = "chat" THEN ChatMessage(role, ContentParts(to, role, q), <<>>, <<>>)
                                 ELSE MessageItem(role, ContentParts(to, role, q))
  <2>1. \A z : Add(to, z, role, ContentParts(to, role, q)) = Append(z, e)
    BY DEF Add, OpenAI
  <2> HIDE DEF e
  <2>2. Flush(to, role, a) = Within(Append(x, e), <<>>, t, c)
    BY <1>1, <1>3, <2>1 DEF Flush, Within
  <2>3. Flush(to, role, b) = Within(Append(items \o x, e), <<>>, t, c)
    BY <1>1, <1>3, <2>1 DEF Flush, Within
  <2>4. Append(items \o x, e) = items \o Append(x, e) /\ Sequence(Append(x, e))
    BY <1>1, AppendApart
  <2> QED
    BY <2>2, <2>3, <2>4 DEF Beside
<1> QED
  BY <1>2, <1>3

\* an item more too,
LEMMA ItemApart ==
  ASSUME NEW items, Sequence(items), NEW a, NEW b, Beside(items, a, b), NEW e
  PROVE  Beside(items, [a EXCEPT !.items = Append(@, e)], [b EXCEPT !.items = Append(@, e)])
<1>1. PICK x, q, t, c : Sequence(x) /\ a = Within(x, q, t, c) /\ b = Within(items \o x, q, t, c)
  BY DEF Beside
<1>2. Append(items \o x, e) = items \o Append(x, e) /\ Sequence(Append(x, e))
  BY <1>1, AppendApart
<1>3. \A y : [Within(y, q, t, c) EXCEPT !.items = Append(@, e)] = Within(Append(y, e), q, t, c)
  BY DEF Within
<1>4. /\ [a EXCEPT !.items = Append(@, e)] = Within(Append(x, e), q, t, c)
      /\ [b EXCEPT !.items = Append(@, e)] = Within(Append(items \o x, e), q, t, c)
  BY <1>1, <1>3
<1> QED
  BY <1>2, <1>4 DEF Beside

\* and so is every part.
LEMMA PartApart ==
  ASSUME NEW to \in OpenAI, NEW role, NEW items, Sequence(items), NEW a, NEW b, Beside(items, a, b), NEW p
  PROVE  Beside(items, WritePart(to, role, a, p), WritePart(to, role, b, p))
<1>1. PICK x, q, t, c : Sequence(x) /\ a = Within(x, q, t, c) /\ b = Within(items \o x, q, t, c)
  BY DEF Beside
<1> DEFINE fa == Flush(to, role, a)
           fb == Flush(to, role, b)
<1>2. Beside(items, fa, fb)
  BY FlushApart
<1>3. CASE p.kind = "thinking"
  <2>1. CASE to = "chat"
    <3>1. \A y : WritePart(to, role, Within(y, q, t, c), p) = Within(y, q, t \o p.text, c)
      BY <1>3, <2>1 DEF WritePart, WriteThinking, Within
    <3> QED
      BY <1>1, <3>1 DEF Beside
  <2>2. CASE to = "responses"
    <3> DEFINE e == ReasoningItem(<<p.text>>)
    <3>1. /\ WritePart(to, role, a, p) = [fa EXCEPT !.items = Append(@, e)]
          /\ WritePart(to, role, b, p) = [fb EXCEPT !.items = Append(@, e)]
      BY <1>3, <2>2 DEF WritePart, WriteThinking
    <3> HIDE DEF fa, fb, e
    <3>2. Beside(items, [fa EXCEPT !.items = Append(@, e)], [fb EXCEPT !.items = Append(@, e)])
      BY <1>2, ItemApart
    <3> QED
      BY <3>1, <3>2
  <2> QED
    BY <2>1, <2>2 DEF OpenAI
<1>4. CASE p.kind = "tool"
  <2>1. CASE to = "chat"
    <3>1. \A y : WritePart(to, role, Within(y, q, t, c), p) = Within(y, q, t, Append(c, Call(p.id, p.arguments)))
      BY <1>4, <2>1 DEF WritePart, WriteCall, Within
    <3> QED
      BY <1>1, <3>1 DEF Beside
  <2>2. CASE to = "responses"
    <3> DEFINE e == CallItem(p.id, p.arguments)
    <3>1. /\ WritePart(to, role, a, p) = [fa EXCEPT !.items = Append(@, e)]
          /\ WritePart(to, role, b, p) = [fb EXCEPT !.items = Append(@, e)]
      BY <1>4, <2>2 DEF WritePart, WriteCall
    <3> HIDE DEF fa, fb, e
    <3>2. Beside(items, [fa EXCEPT !.items = Append(@, e)], [fb EXCEPT !.items = Append(@, e)])
      BY <1>2, ItemApart
    <3> QED
      BY <3>1, <3>2
  <2> QED
    BY <2>1, <2>2 DEF OpenAI
<1>5. CASE p.kind = "result"
  <2> DEFINE e == IF to = "chat" THEN ToolMessage(p.id, ResultContent(to, p)) ELSE OutputItem(p.id, ResultContent(to, p))
  <2>1. /\ WritePart(to, role, a, p) = [fa EXCEPT !.items = Append(@, e)]
        /\ WritePart(to, role, b, p) = [fb EXCEPT !.items = Append(@, e)]
    BY <1>5 DEF WritePart, WriteResult, OpenAI
  <2> HIDE DEF fa, fb, e
  <2>2. Beside(items, [fa EXCEPT !.items = Append(@, e)], [fb EXCEPT !.items = Append(@, e)])
    BY <1>2, ItemApart
  <2> QED
    BY <2>1, <2>2
<1>6. CASE p.kind \notin {"thinking", "tool", "result"}
  <2>1. \A y : WritePart(to, role, Within(y, q, t, c), p) = Within(y, Append(q, p), t, c)
    BY <1>6 DEF WritePart, Within
  <2> QED
    BY <1>1, <2>1 DEF Beside
<1> QED
  BY <1>3, <1>4, <1>5, <1>6

\* So are all parts of a message.
LEMMA PartsBeside ==
  ASSUME NEW to \in OpenAI, NEW role, NEW items, Sequence(items), NEW S, NEW parts \in Seq(S)
  PROVE  Beside(items, WriteParts(to, role, <<>>, parts), WriteParts(to, role, items, parts))
<1> DEFINE P == {s \in Seq(S) : Beside(items, WriteParts(to, role, <<>>, s), WriteParts(to, role, items, s))}
<1>1. <<>> \in P
  <2>1. WriteParts(to, role, <<>>, <<>>) = Within(<<>>, <<>>, <<>>, <<>>)
    BY PartsNone DEF Started, Within
  <2>2. WriteParts(to, role, items, <<>>) = Within(items, <<>>, <<>>, <<>>)
    BY PartsNone DEF Started, Within
  <2>3. items \o <<>> = items
    BY ConcatEmptySeq DEF Sequence
  <2>4. Sequence(<<>>) /\ <<>> \in Seq(S)
    BY NoneHeard, EmptySeq
  <2>5. Beside(items, Within(<<>>, <<>>, <<>>, <<>>), Within(items, <<>>, <<>>, <<>>))
    BY <2>3, <2>4 DEF Beside
  <2> QED
    BY <2>1, <2>2, <2>4, <2>5
<1>2. ASSUME NEW s \in Seq(S), NEW p \in S, s \in P PROVE Append(s, p) \in P
  <2>1. Beside(items, WriteParts(to, role, <<>>, s), WriteParts(to, role, items, s))
    BY <1>2
  <2>2. Beside(items, WritePart(to, role, WriteParts(to, role, <<>>, s), p),
                      WritePart(to, role, WriteParts(to, role, items, s), p))
    BY <2>1, PartApart
  <2>3. \A z : WriteParts(to, role, z, Append(s, p)) = WritePart(to, role, WriteParts(to, role, z, s), p)
    BY PartsMore
  <2> QED
    BY <2>2, <2>3, AppendProperties
<1> HIDE DEF P
<1>3. Seq(S) \subseteq P
  BY <1>1, <1>2, SeqInduction
<1>4. parts \in P
  BY <1>3
<1> QED
  BY <1>4 DEF P

\* Parts in a sequence.
HasParts(m) == Sequence(m.parts)

\* A message is written after those before it,
LEMMA MessageApart ==
  ASSUME NEW to \in OpenAI, NEW items, Sequence(items), NEW m, HasParts(m)
  PROVE  /\ WriteMessage(to, items, m) = items \o WriteMessage(to, <<>>, m)
         /\ Sequence(WriteMessage(to, <<>>, m)) /\ Sequence(WriteMessage(to, items, m))
<1> DEFINE a == WriteParts(to, m.role, <<>>, m.parts)
           b == WriteParts(to, m.role, items, m.parts)
           fa == Flush(to, m.role, a)
           fb == Flush(to, m.role, b)
<1>1. Beside(items, a, b)
  <2> DEFINE parts == m.parts
             S == ToSet(parts)
  <2>1. parts \in Seq(S)
    BY DEF HasParts, Sequence
  <2> HIDE DEF parts, S
  <2>2. ASSUME NEW role
        PROVE  Beside(items, WriteParts(to, role, <<>>, parts), WriteParts(to, role, items, parts))
    BY <2>1, PartsBeside
  <2> QED
    BY <2>2 DEF parts
<1>2. CASE to # "chat"
  <2>1. WriteMessage(to, items, m) = fb.items /\ WriteMessage(to, <<>>, m) = fa.items
    BY <1>2 DEF WriteMessage
  <2> HIDE DEF a, b
  <2>2. Beside(items, fa, fb)
    BY <1>1, FlushApart
  <2> HIDE DEF fa, fb
  <2>3. PICK x : Sequence(x) /\ fa.items = x /\ fb.items = items \o x
    BY <2>2 DEF Beside, Within
  <2> QED
    BY <2>1, <2>3, SequencesJoin
<1>3. CASE to = "chat"
  <2> DEFINE nothing(acc) == acc.pending = <<>> /\ acc.thinking = <<>> /\ acc.calls = <<>> /\ m.parts # <<>>
             all(acc) == ChatMessage(m.role, ContentParts(to, m.role, acc.pending), acc.thinking, acc.calls)
             out(acc) == IF nothing(acc) THEN acc.items ELSE Append(acc.items, all(acc))
  <2>1. WriteMessage(to, items, m) = out(b) /\ WriteMessage(to, <<>>, m) = out(a)
    BY <1>3 DEF WriteMessage
  <2> HIDE DEF a, b
  <2>2. PICK x, q, t, c : Sequence(x) /\ a = Within(x, q, t, c) /\ b = Within(items \o x, q, t, c)
    BY <1>1 DEF Beside
  <2>3. a.items = x /\ b.items = items \o x /\ (nothing(a) <=> nothing(b)) /\ all(a) = all(b)
    BY <2>2 DEF Within
  <2> HIDE DEF nothing, all
  <2>4. Append(items \o x, all(a)) = items \o Append(x, all(a)) /\ Sequence(Append(x, all(a))) /\ Sequence(items \o x)
    BY <2>2, AppendApart
  <2>5. out(b) = items \o out(a) /\ Sequence(out(a))
    BY <2>2, <2>3, <2>4
  <2> HIDE DEF out
  <2> QED
    BY <2>1, <2>5, SequencesJoin
<1> QED
  BY <1>2, <1>3

\* and so are the messages of a request.
LEMMA MessagesApart ==
  ASSUME NEW to \in OpenAI, NEW S, NEW a \in Seq(S), NEW b \in Seq(S), \A m \in S : HasParts(m)
  PROVE  /\ Sequence(WriteMessages(to, a)) /\ Sequence(WriteMessages(to, b))
         /\ WriteMessages(to, a \o b) = WriteMessages(to, a) \o WriteMessages(to, b)
<1>1. ASSUME NEW z \in Seq(S), Sequence(WriteMessages(to, z)), NEW m \in S
      PROVE  /\ WriteMessages(to, Append(z, m)) = WriteMessages(to, z) \o WriteMessage(to, <<>>, m)
             /\ Sequence(WriteMessages(to, Append(z, m))) /\ Sequence(WriteMessage(to, <<>>, m))
  <2> DEFINE out == WriteMessages(to, z)
  <2>1. WriteMessages(to, Append(z, m)) = WriteMessage(to, out, m)
    BY MessagesMore DEF Gathered, OpenAI
  <2>2. Sequence(out)
    BY <1>1
  <2> HIDE DEF out
  <2>3. /\ WriteMessage(to, out, m) = out \o WriteMessage(to, <<>>, m)
        /\ Sequence(WriteMessage(to, <<>>, m)) /\ Sequence(WriteMessage(to, out, m))
    BY <2>2, MessageApart
  <2> QED
    BY <2>1, <2>3 DEF out
<1>2. \A z \in Seq(S) : Sequence(WriteMessages(to, z))
  <2> DEFINE P == {z \in Seq(S) : Sequence(WriteMessages(to, z))}
  <2>1. <<>> \in P
    BY MessagesNone, NoneHeard, EmptySeq
  <2>2. ASSUME NEW z \in Seq(S), NEW m \in S, z \in P PROVE Append(z, m) \in P
    BY <1>1, <2>2, AppendProperties
  <2> HIDE DEF P
  <2>3. Seq(S) \subseteq P
    BY <2>1, <2>2, SeqInduction
  <2> QED
    BY <2>3 DEF P
<1> DEFINE w == WriteMessages(to, a)
           Q == {z \in Seq(S) : WriteMessages(to, a \o z) = w \o WriteMessages(to, z)}
<1>3. Sequence(w)
  BY <1>2
<1>4. <<>> \in Q
  <2>1. a \o <<>> = a /\ <<>> \in Seq(S)
    BY ConcatEmptySeq, EmptySeq
  <2>2. w \o <<>> = w
    BY <1>3, ConcatEmptySeq DEF Sequence
  <2> QED
    BY <2>1, <2>2, MessagesNone
<1>5. ASSUME NEW z \in Seq(S), NEW m \in S, z \in Q PROVE Append(z, m) \in Q
  <2> DEFINE y == WriteMessages(to, z)
             o == WriteMessage(to, <<>>, m)
  <2>1. Sequence(y) /\ a \o z \in Seq(S) /\ Append(z, m) \in Seq(S)
    BY <1>2, ConcatProperties, AppendProperties
  <2>2. WriteMessages(to, Append(z, m)) = y \o o /\ Sequence(o)
    BY <1>1, <1>2
  <2>3. WriteMessages(to, Append(a \o z, m)) = WriteMessages(to, a \o z) \o o
    BY <1>1, <1>2, <2>1
  <2>4. WriteMessages(to, a \o z) = w \o y
    BY <1>5
  <2>5. Append(a \o z, m) = a \o Append(z, m)
    OBVIOUS
  <2> HIDE DEF y, o, w
  <2>6. (w \o y) \o o = w \o (y \o o)
    <3> DEFINE T == ToSet(w) \cup ToSet(y) \cup ToSet(o)
    <3>1. w \in Seq(T) /\ y \in Seq(T) /\ o \in Seq(T)
      BY <1>3, <2>1, <2>2, SeqOfMore DEF Sequence
    <3> HIDE DEF T
    <3>2. Associates(w, y, o)
      BY <3>1, ConcatTwo
    <3> QED
      BY <3>2 DEF Associates
  <2> QED
    BY <2>1, <2>2, <2>3, <2>4, <2>5, <2>6
<1> HIDE DEF Q
<1>6. Seq(S) \subseteq Q
  BY <1>4, <1>5, SeqInduction
<1> QED
  BY <1>2, <1>6 DEF Q

-----------------------------------------------------------------------------
\* What a message of the assistant becomes for the OpenAI protocols.
Voice == {f \in AllFacts : f.by \in {"assistant", "call"}}

\* The same, or the same but for the order in which Chat has it.
Agrees(to, a, b) == IF to = "chat" THEN Alike(a, b) ELSE a = b

\* What each message tells is typed, and all of them tell f.
TellsAs(to, items, S, f) ==
  /\ Sequence(items) /\ Tolds(to, items) \in Seq(Seq(S)) /\ FlattenSeq(Tolds(to, items)) = f

\* One item more tells what it tells after the others.
LEMMA ItemTells ==
  ASSUME NEW to, NEW items, NEW S, NEW f, TellsAs(to, items, S, f), NEW e, Told(to, e) \in Seq(S)
  PROVE  TellsAs(to, Append(items, e), S, f \o Told(to, e))
<1>1. Sequence(Append(items, e)) /\ Tolds(to, Append(items, e)) = Append(Tolds(to, items), Told(to, e))
  BY ToldsAppend DEF TellsAs
<1> DEFINE F == Tolds(to, items)
           d == Told(to, e)
<1>2. F \in Seq(Seq(S)) /\ d \in Seq(S) /\ FlattenSeq(F) = f
  BY DEF TellsAs
<1> HIDE DEF F, d
<1>3. Append(F, d) \in Seq(Seq(S)) /\ FlattenSeq(Append(F, d)) = f \o d
  BY <1>2, FlattenAppend, AppendProperties
<1> QED
  BY <1>1, <1>3 DEF TellsAs, F, d

\* No items tell nothing.
LEMMA NoneTells == ASSUME NEW to, NEW S PROVE TellsAs(to, <<>>, S, <<>>)
<1>1. Tolds(to, <<>>) = <<>>
  BY DEF Tolds
<1> QED
  BY <1>1, NoneHeard, FlattenEmpty, EmptySeq DEF TellsAs

\* The words of the assistant and its calls.
LEMMA VoiceOf ==
  /\ FactsBy("assistant") \subseteq Voice /\ FactsBy("call") \subseteq Voice /\ Voice \subseteq AllFacts
  /\ \A s \in Seq(FactsBy("assistant")) : s \in Seq(Voice)
  /\ \A s \in Seq(FactsBy("call")) : s \in Seq(Voice)
  /\ \A s \in Seq(Voice) : s \in Seq(AllFacts)
  /\ \A p \in AnswerParts : AsTold[p] \in Seq(Voice)
<1>1. FactsBy("assistant") \subseteq Voice /\ FactsBy("call") \subseteq Voice /\ Voice \subseteq AllFacts
  BY DEF FactsBy, Voice
<1>2. /\ \A s \in Seq(FactsBy("assistant")) : s \in Seq(Voice)
      /\ \A s \in Seq(FactsBy("call")) : s \in Seq(Voice)
      /\ \A s \in Seq(Voice) : s \in Seq(AllFacts)
  BY <1>1, SeqOfMore
<1>3. \A p \in AnswerParts : AsTold[p] \in Seq(Voice)
  BY <1>2, PartSpeaks
<1> QED
  BY <1>1, <1>2, <1>3

\* A thought as an item of its own.
LEMMA ReasoningTells ==
  ASSUME NEW text \in Seq(Int)
  PROVE  Told("responses", ReasoningItem(<<text>>)) = Utter("assistant", NoId, text)
<1> DEFINE b == <<TextBlock("text", text)>>
           x == ContentFacts("assistant", NoId, b)
<1>0. "assistant" \in Whos /\ NoId \in Int
  BY DEF Whos, NoId
<1>1. b \in Seq(PlainBlocks)
  <2>1. TextBlock("text", text) \in PlainBlocks
    BY DEF TextBlock, PlainBlocks, TextBlocks
  <2> QED
    BY <2>1
<1>2. Parts(b) = <<Text(text)>>
  BY DEF Parts, Part, PlainPart, TextBlock
<1>3. Text(text) \in PlainSet /\ PlainWords("assistant", NoId, Text(text)) = Utter("assistant", NoId, text)
  BY DEF Text, PlainSet, TextSet, PlainWords
<1>4. Told("responses", ReasoningItem(<<text>>)) = FlattenSeq(<<x>>)
  BY DEF Told, ResponsesFacts, ReasoningItem, FlattenEach
<1> HIDE DEF b
<1>5. x = PlainSaid("assistant", NoId, Parts(b))
  BY <1>0, <1>1, ContentRead
<1>6. PlainSaid("assistant", NoId, <<Text(text)>>) = Utter("assistant", NoId, text)
  BY <1>0, <1>3, PlainsTold
<1>7. x = Utter("assistant", NoId, text) /\ x \in Seq(AllFacts)
  BY <1>0, <1>2, <1>5, <1>6, Utters
<1> HIDE DEF x
<1>8. FlattenSeq(<<x>>) = x
  BY <1>7, FlattenOne
<1> QED
  BY <1>4, <1>7, <1>8

\* What the items tell, and what is pending, is what the parts tell.
Pending(acc, f) ==
  \E x, q : /\ acc = Within(x, q, <<>>, <<>>) /\ q \in Seq(PlainSet)
            /\ \E g : TellsAs("responses", x, Voice, g) /\ f = g \o PlainSaid("assistant", NoId, q)

\* What was pending is in the items when it has been written.
LEMMA PendingFlushed ==
  ASSUME NEW acc, NEW f, Pending(acc, f)
  PROVE  \E x : Flush("responses", "assistant", acc) = Within(x, <<>>, <<>>, <<>>) /\ TellsAs("responses", x, Voice, f)
<1>1. PICK x, q : /\ acc = Within(x, q, <<>>, <<>>) /\ q \in Seq(PlainSet)
                  /\ \E g : TellsAs("responses", x, Voice, g) /\ f = g \o PlainSaid("assistant", NoId, q)
  BY DEF Pending
<1>2. PICK g : TellsAs("responses", x, Voice, g) /\ f = g \o PlainSaid("assistant", NoId, q)
  BY <1>1
<1>0. "assistant" \in Whos /\ NoId \in Int
  BY DEF Whos, NoId
<1>3. CASE q = <<>>
  <2>1. PlainSaid("assistant", NoId, <<>>) = <<>>
    BY <1>0, PlainsTold
  <2>2. g \in Seq(Voice)
    BY <1>2, FlattenType DEF TellsAs
  <2>3. g \o <<>> = g
    BY <2>2, ConcatEmptySeq
  <2>4. f = g
    BY <1>2, <1>3, <2>1, <2>3
  <2>5. Flush("responses", "assistant", acc) = acc
    BY <1>1, <1>3 DEF Flush, Within
  <2> QED
    BY <1>1, <1>2, <1>3, <2>4, <2>5
<1>4. CASE q # <<>>
  <2> DEFINE content == ContentParts("responses", "assistant", q)
             e == MessageItem("assistant", content)
  <2>1. Flush("responses", "assistant", acc) = Within(Append(x, e), <<>>, <<>>, <<>>)
    BY <1>1, <1>4 DEF Flush, Within, Add
  <2>2. Told("responses", e) = ContentFacts("assistant", NoId, content)
    BY DEF Told, ResponsesFacts, MessageItem, Speaker
  <2>3. ContentFacts("assistant", NoId, content) = PlainSaid("assistant", NoId, q)
    BY <1>0, <1>1, ContentWritten
  <2>4. PlainSaid("assistant", NoId, q) \in Seq(Voice)
    BY <1>0, <1>1, PlainBy, VoiceOf
  <2> HIDE DEF e, content
  <2>5. TellsAs("responses", Append(x, e), Voice, g \o Told("responses", e))
    BY <1>2, <2>2, <2>3, <2>4, ItemTells
  <2> QED
    BY <1>2, <2>1, <2>2, <2>3, <2>5
<1> QED
  BY <1>3, <1>4

\* An item more.
LEMMA OneItemMore ==
  ASSUME NEW x, NEW q, NEW t, NEW c, NEW e
  PROVE  [Within(x, q, t, c) EXCEPT !.items = Append(@, e)] = Within(Append(x, e), q, t, c)
<1> DEFINE y == Append(x, e)
           r == Within(x, q, t, c)
<1>1. r = [items |-> x, pending |-> q, thinking |-> t, calls |-> c]
  BY DEF Within
<1>2. Within(y, q, t, c) = [items |-> y, pending |-> q, thinking |-> t, calls |-> c]
  BY DEF Within
<1> HIDE DEF r
<1>3. r.items = x
  BY <1>1
<1>4. [r EXCEPT !.items = Append(@, e)] = [r EXCEPT !.items = y]
  BY <1>3
<1> HIDE DEF y
<1>5. [r EXCEPT !.items = y] = [items |-> y, pending |-> q, thinking |-> t, calls |-> c]
  BY <1>1
<1> QED
  BY <1>2, <1>4, <1>5 DEF r, y

\* So it is after every part of an answer,
LEMMA ResponsesCollects ==
  ASSUME NEW parts \in Seq(AnswerParts)
  PROVE  Pending(WriteParts("responses", "assistant", <<>>, parts), Assisted(parts))
<1> DEFINE P == {s \in Seq(AnswerParts) : Pending(WriteParts("responses", "assistant", <<>>, s), Assisted(s))}
<1>0. "assistant" \in Whos /\ NoId \in Int
  BY DEF Whos, NoId
<1>1. <<>> \in P
  <2>1. WriteParts("responses", "assistant", <<>>, <<>>) = Within(<<>>, <<>>, <<>>, <<>>)
    BY PartsNone DEF Started, Within
  <2>2. Assisted(<<>>) = <<>> /\ PlainSaid("assistant", NoId, <<>>) = <<>>
    BY <1>0, Assists, PlainsTold
  <2>3. <<>> \in Seq(PlainSet) /\ <<>> \in Seq(AnswerParts) /\ <<>> \o <<>> = <<>>
    BY EmptySeq, ConcatEmptySeq
  <2>4. TellsAs("responses", <<>>, Voice, <<>>)
    BY NoneTells
  <2>5. Pending(Within(<<>>, <<>>, <<>>, <<>>), <<>>)
    BY <2>2, <2>3, <2>4 DEF Pending
  <2> QED
    BY <2>1, <2>2, <2>3, <2>5
<1>2. ASSUME NEW s \in Seq(AnswerParts), NEW p \in AnswerParts, s \in P PROVE Append(s, p) \in P
  <2> DEFINE acc == WriteParts("responses", "assistant", <<>>, s)
             f == Assisted(s)
             d == AsTold[p]
             next == WritePart("responses", "assistant", acc, p)
             flushed == Flush("responses", "assistant", acc)
  <2>1. Pending(acc, f)
    BY <1>2
  <2>2. WriteParts("responses", "assistant", <<>>, Append(s, p)) = next
    BY PartsMore
  <2>3. Assisted(Append(s, p)) = f \o d
    <3>1. Append(s, p) = s \o <<p>> /\ <<p>> \in Seq(AnswerParts)
      BY AppendIsConcat
    <3> QED
      BY <3>1, Assists
  <2>4. d \in Seq(Voice)
    BY VoiceOf
  <2>5. Append(s, p) \in Seq(AnswerParts)
    BY AppendProperties
  <2> HIDE DEF acc, f
  <2>6. PICK x : flushed = Within(x, <<>>, <<>>, <<>>) /\ TellsAs("responses", x, Voice, f)
    BY <2>1, PendingFlushed
  <2>7. ASSUME NEW e, next = Within(Append(x, e), <<>>, <<>>, <<>>), Told("responses", e) = d
        PROVE  Pending(next, f \o d)
    <3> HIDE DEF d, next
    <3>1. TellsAs("responses", Append(x, e), Voice, f \o d)
      BY <2>4, <2>6, <2>7, ItemTells
    <3>2. f \o d \in Seq(Voice)
      BY <3>1, FlattenType DEF TellsAs
    <3>3. (f \o d) \o PlainSaid("assistant", NoId, <<>>) = f \o d
      BY <1>0, <3>2, PlainsTold, ConcatEmptySeq
    <3>4. <<>> \in Seq(PlainSet)
      BY EmptySeq
    <3> QED
      BY <2>7, <3>1, <3>3, <3>4 DEF Pending
  <2>8. CASE p.kind = "thinking"
    <3> DEFINE e == ReasoningItem(<<p.text>>)
    <3>1. next = Within(Append(x, e), <<>>, <<>>, <<>>)
      <4>1. next = [flushed EXCEPT !.items = Append(@, e)]
        BY <2>8 DEF WritePart, WriteThinking
      <4> HIDE DEF flushed, next, e
      <4>2. [Within(x, <<>>, <<>>, <<>>) EXCEPT !.items = Append(@, e)] = Within(Append(x, e), <<>>, <<>>, <<>>)
        BY OneItemMore
      <4> QED
        BY <2>6, <4>1, <4>2
    <3>2. Told("responses", e) = d
      BY <2>8, PartSpeaks, ReasoningTells DEF AsTold
    <3> HIDE DEF next, d, e
    <3> QED
      BY <2>2, <2>3, <2>5, <2>7, <3>1, <3>2
  <2>9. CASE p.kind = "tool"
    <3> DEFINE e == CallItem(p.id, p.arguments)
    <3>1. next = Within(Append(x, e), <<>>, <<>>, <<>>)
      <4>1. next = [flushed EXCEPT !.items = Append(@, e)]
        BY <2>9 DEF WritePart, WriteCall
      <4> HIDE DEF flushed, next, e
      <4>2. [Within(x, <<>>, <<>>, <<>>) EXCEPT !.items = Append(@, e)] = Within(Append(x, e), <<>>, <<>>, <<>>)
        BY OneItemMore
      <4> QED
        BY <2>6, <4>1, <4>2
    <3>2. Told("responses", e) = d
      BY <2>9 DEF AsTold, Told, ResponsesFacts, CallItem
    <3> HIDE DEF next, d, e
    <3> QED
      BY <2>2, <2>3, <2>5, <2>7, <3>1, <3>2
  <2>10. CASE p.kind \in {"text", "refusal"}
    <3>1. PICK y, q : /\ acc = Within(y, q, <<>>, <<>>) /\ q \in Seq(PlainSet)
                      /\ \E g : TellsAs("responses", y, Voice, g) /\ f = g \o PlainSaid("assistant", NoId, q)
      BY <2>1 DEF Pending
    <3>2. PICK g : TellsAs("responses", y, Voice, g) /\ f = g \o PlainSaid("assistant", NoId, q)
      BY <3>1
    <3>3. next = Within(y, Append(q, p), <<>>, <<>>)
      BY <2>10, <3>1 DEF WritePart, Within
    <3>4. p \in PlainSet /\ PlainWords("assistant", NoId, p) = d
      BY <2>10, WordsPlain
    <3> DEFINE u == PlainSaid("assistant", NoId, q)
    <3>5. <<p>> \in Seq(PlainSet) /\ Append(q, p) \in Seq(PlainSet)
      BY <3>1, <3>4, AppendProperties
    <3>6. PlainSaid("assistant", NoId, Append(q, p)) = u \o d
      <4>1. Append(q, p) = q \o <<p>>
        BY <3>1, <3>4, AppendIsConcat
      <4>2. PlainSaid("assistant", NoId, <<p>>) = PlainWords("assistant", NoId, p)
        BY <1>0, <3>4, PlainsTold
      <4>3. PlainSaid("assistant", NoId, q \o <<p>>) = u \o PlainSaid("assistant", NoId, <<p>>)
        BY <1>0, <3>1, <3>5, PlainsTold
      <4> QED
        BY <3>4, <4>1, <4>2, <4>3
    <3>7. g \in Seq(AllFacts) /\ u \in Seq(AllFacts) /\ d \in Seq(AllFacts)
      <4>1. g \in Seq(Voice)
        BY <3>2, FlattenType DEF TellsAs
      <4> QED
        BY <1>0, <2>4, <3>1, <4>1, VoiceOf, PlainsTold
    <3> HIDE DEF u, d, next
    <3>8. (g \o u) \o d = g \o (u \o d)
      <4>1. Associates(g, u, d)
        BY <3>7, ConcatTwo
      <4> QED
        BY <4>1 DEF Associates
    <3>9. f \o d = g \o PlainSaid("assistant", NoId, Append(q, p))
      BY <3>2, <3>6, <3>8 DEF u
    <3>10. Pending(next, f \o d)
      BY <3>2, <3>3, <3>5, <3>9 DEF Pending
    <3> QED
      BY <2>2, <2>3, <2>5, <3>10
  <2> QED
    BY <2>8, <2>9, <2>10, PartSpeaks
<1> HIDE DEF P
<1>3. Seq(AnswerParts) \subseteq P
  BY <1>1, <1>2, SeqInduction
<1>4. parts \in P
  BY <1>3
<1> QED
  BY <1>4 DEF P

\* Nothing is collected: nothing is said.
LEMMA NothingWeighs ==
  ASSUME NEW f, Weighs(f, <<>>, <<>>, <<>>)
  PROVE  Alike(<<>>, f)
<1>1. Alike((<<>> \o <<>>) \o <<>>, f)
  BY WeighsAlike
<1>2. (<<>> \o <<>>) \o <<>> = <<>>
  OBVIOUS
<1> QED
  BY <1>1, <1>2

\* A message of the assistant, written for an OpenAI protocol, tells what its parts do; for Chat
\* it is one message at most.
LEMMA AssistantOuts ==
  ASSUME NEW to \in OpenAI, NEW parts \in Seq(AnswerParts), NEW out,
         out = WriteMessage(to, <<>>, Message("assistant", parts))
  PROVE  /\ Sequence(out) /\ Tolds(to, out) \in Seq(Seq(Voice)) /\ (to = "chat" => Len(out) <= 1)
         /\ Agrees(to, FlattenSeq(Tolds(to, out)), Assisted(parts))
<1> DEFINE m == Message("assistant", parts)
           acc == WriteParts(to, m.role, <<>>, m.parts)
           f == Assisted(parts)
<1>0. m.role = "assistant" /\ m.parts = parts
  BY DEF Message
<1>1. CASE to = "responses"
  <2>1. out = Flush(to, "assistant", acc).items
    BY <1>0, <1>1 DEF WriteMessage
  <2>2. Pending(acc, f)
    BY <1>0, <1>1, ResponsesCollects
  <2> HIDE DEF acc, f
  <2>3. PICK x : Flush(to, "assistant", acc) = Within(x, <<>>, <<>>, <<>>) /\ TellsAs(to, x, Voice, f)
    BY <1>1, <2>2, PendingFlushed
  <2>4. out = x
    BY <2>1, <2>3 DEF Within
  <2> QED
    BY <1>1, <2>3, <2>4 DEF TellsAs, Agrees, f
<1>2. CASE to = "chat"
  <2>1. Collected(acc, <<>>, f)
    BY <1>0, <1>2, ChatCollects
  <2> HIDE DEF f
  <2>2. PICK t \in WordSeq, q \in Seq(PlainSet), c \in Seq(CallParted) :
          /\ acc = Within(<<>>, q, t, c)
          /\ Weighs(f, Utter("assistant", NoId, t), PlainSaid("assistant", NoId, q), CallFacts(c))
    BY <2>1 DEF Collected
  <2> DEFINE nothing == q = <<>> /\ t = <<>> /\ c = <<>> /\ parts # <<>>
             content == ContentParts(to, "assistant", q)
             e == ChatMessage("assistant", content, t, c)
             A == Utter("assistant", NoId, t)
             B == PlainSaid("assistant", NoId, q)
             C == CallFacts(c)
             d == (A \o B) \o C
  <2>3. out = IF nothing THEN <<>> ELSE <<e>>
    <3>1. acc.items = <<>> /\ acc.pending = q /\ acc.thinking = t /\ acc.calls = c
      BY <2>2 DEF Within
    <3> HIDE DEF acc, m
    <3>2. out = IF nothing THEN <<>> ELSE Append(<<>>, e)
      BY <1>0, <1>2, <3>1 DEF WriteMessage, acc, m
    <3> QED
      BY <3>2
  <2>4. CASE nothing
    <3>1. Weighs(f, <<>>, <<>>, <<>>)
      <4>1. Utter("assistant", NoId, <<>>) = <<>> /\ CallFacts(<<>>) = <<>>
        BY DEF Utter, CallFacts
      <4>2. PlainSaid("assistant", NoId, <<>>) = <<>>
        BY PlainsTold DEF Whos, NoId
      <4> QED
        BY <2>2, <2>4, <4>1, <4>2
    <3>2. Alike(<<>>, f)
      BY <3>1, NothingWeighs
    <3>3. out = <<>>
      BY <2>3, <2>4
    <3>4. TellsAs(to, <<>>, Voice, <<>>)
      BY NoneTells
    <3>5. FlattenSeq(Tolds(to, <<>>)) = <<>>
      BY <3>4 DEF TellsAs
    <3> QED
      BY <1>2, <3>2, <3>3, <3>4, <3>5 DEF TellsAs, Agrees, f
  <2>5. CASE ~ nothing
    <3>1. out = <<e>>
      BY <2>3, <2>5
    <3>2. "assistant" \in Whos /\ NoId \in Int
      BY DEF Whos, NoId
    <3>3. t \in Seq(Int)
      BY SeqOfMore DEF WordSeq
    <3>4. Told(to, e) = d
      <4>1. ContentFacts("assistant", NoId, content) = B
        BY <3>2, ContentWritten
      <4>2. FlattenSeq([i \in DOMAIN t |-> <<Fact("assistant", NoId, t[i])>>]) = A
        BY AssistantUtters
      <4>3. FlattenSeq([i \in DOMAIN c |-> <<Fact("call", NoId, c[i].id)>>]) = C
        BY CallsTold
      <4>4. Told(to, e) = ChatFacts(e)
        BY <1>2 DEF Told
      <4>5. e.role = "assistant" /\ e.content = content /\ e.reasoning_content = t /\ e.tool_calls = c
        BY DEF ChatMessage
      <4> HIDE DEF e, content, A, B, C
      <4> QED
        BY <4>1, <4>2, <4>3, <4>4, <4>5 DEF ChatFacts, Speaker, FlattenEach
    <3>5. d \in Seq(Voice) /\ Alike(d, f)
      <4>1. A \in Seq(Voice) /\ B \in Seq(Voice) /\ C \in Seq(Voice)
        BY <2>2, VoiceOf DEF Weighs
      <4>2. Alike(d, f)
        BY <2>2, WeighsAlike
      <4> HIDE DEF A, B, C
      <4> QED
        BY <4>1, <4>2, ConcatProperties
    <3> HIDE DEF e, d
    <3>6. TellsAs(to, Append(<<>>, e), Voice, <<>> \o Told(to, e))
      BY <3>4, <3>5, NoneTells, ItemTells
    <3>7. Append(<<>>, e) = <<e>> /\ <<>> \o d = d
      BY <3>5, ConcatEmptySeq
    <3>8. TellsAs(to, out, Voice, d)
      BY <3>1, <3>4, <3>6, <3>7
    <3>9. Sequence(out) /\ Tolds(to, out) \in Seq(Seq(Voice)) /\ FlattenSeq(Tolds(to, out)) = d
      BY <3>8 DEF TellsAs
    <3>10. Agrees(to, FlattenSeq(Tolds(to, out)), f)
      BY <1>2, <3>5, <3>9 DEF Agrees
    <3>11. Len(out) <= 1
      <4>1. Len(<<e>>) = 1
        OBVIOUS
      <4>2. Len(out) = 1
        BY <3>1, <4>1, Zenon
      <4>3. \A n : n = 1 => n <= 1
        OBVIOUS
      <4> QED
        BY <4>2, <4>3, Zenon
    <3>12. Agrees(to, FlattenSeq(Tolds(to, out)), Assisted(parts))
      BY <3>10 DEF f
    <3> HIDE DEF f
    <3> QED
      BY <3>9, <3>11, <3>12, Zenon
  <2> QED
    BY <2>4, <2>5
<1> QED
  BY <1>1, <1>2 DEF OpenAI

-----------------------------------------------------------------------------
\* What a message of the user becomes: the results, each for itself, and the rest.
ResultAs == [p \in ResultSet |-> ResultWords(p)]
OutsOf(by, results, plain) ==
  Map(ResultAs, results) \o (IF plain = <<>> THEN <<>> ELSE <<PlainSaid(by, NoId, plain)>>)

\* The results are written one by one,
LEMMA ResultsCollect ==
  ASSUME NEW to \in OpenAI, NEW role, NEW results \in Seq(ResultSet)
  PROVE  \E x : /\ WriteParts(to, role, <<>>, results) = Within(x, <<>>, <<>>, <<>>)
                /\ Sequence(x) /\ Tolds(to, x) = Map(ResultAs, results)
<1> DEFINE Good(s, x) == /\ WriteParts(to, role, <<>>, s) = Within(x, <<>>, <<>>, <<>>)
                         /\ Sequence(x) /\ Tolds(to, x) = Map(ResultAs, s)
           P == {s \in Seq(ResultSet) : \E x : Good(s, x)}
<1>1. <<>> \in P
  <2>1. WriteParts(to, role, <<>>, <<>>) = Within(<<>>, <<>>, <<>>, <<>>)
    BY PartsNone DEF Started, Within
  <2>2. Tolds(to, <<>>) = <<>> /\ Map(ResultAs, <<>>) = <<>>
    BY MapEmpty DEF Tolds
  <2>3. Good(<<>>, <<>>)
    BY <2>1, <2>2, NoneHeard
  <2> HIDE DEF Good
  <2> QED
    BY <2>3, EmptySeq
<1>2. ASSUME NEW s \in Seq(ResultSet), NEW p \in ResultSet, s \in P PROVE Append(s, p) \in P
  <2>1. PICK x : Good(s, x)
    BY <1>2
  <2> DEFINE e == IF to = "chat" THEN ToolMessage(p.id, ResultContent(to, p)) ELSE OutputItem(p.id, ResultContent(to, p))
  <2>2. WriteParts(to, role, <<>>, Append(s, p)) = WritePart(to, role, Within(x, <<>>, <<>>, <<>>), p)
    BY <2>1, PartsMore
  <2>3. WritePart(to, role, Within(x, <<>>, <<>>, <<>>), p) = Within(Append(x, e), <<>>, <<>>, <<>>)
    <3>1. p.kind = "result"
      BY DEF ResultSet
    <3>2. Flush(to, role, Within(x, <<>>, <<>>, <<>>)) = Within(x, <<>>, <<>>, <<>>)
      BY DEF Flush, Within
    <3>3. WritePart(to, role, Within(x, <<>>, <<>>, <<>>), p) = [Within(x, <<>>, <<>>, <<>>) EXCEPT !.items = Append(@, e)]
      BY <3>1, <3>2 DEF WritePart, WriteResult, OpenAI
    <3> HIDE DEF e
    <3> QED
      <4> DEFINE r == Within(x, <<>>, <<>>, <<>>)
                 r2 == Within(Append(x, e), <<>>, <<>>, <<>>)
      <4>1. [r EXCEPT !.items = Append(@, e)] = r2
        BY OneItemMore
      <4> HIDE DEF r, r2
      <4>2. WritePart(to, role, r, p) = [r EXCEPT !.items = Append(@, e)]
        BY <3>3 DEF r
      <4>3. WritePart(to, role, r, p) = r2
        BY <4>1, <4>2
      <4> QED
        BY <4>3 DEF r, r2
  <2>4. Told(to, e) = ResultAs[p]
    <3>1. ContentFacts("result", p.id, ResultContent(to, p)) = ResultWords(p)
      BY ResultWritten
    <3> DEFINE rc == ResultContent(to, p)
    <3> HIDE DEF rc
    <3>2. to = "chat" => Told(to, ToolMessage(p.id, rc)) = ContentFacts("result", p.id, rc)
      BY DEF Told, ChatFacts, ToolMessage, ChatMessage
    <3>3. to = "responses" => Told(to, OutputItem(p.id, rc)) = ContentFacts("result", p.id, rc)
      BY DEF Told, ResponsesFacts, OutputItem
    <3> QED
      BY <3>1, <3>2, <3>3 DEF ResultAs, OpenAI, rc
  <2> HIDE DEF e
  <2>5. Sequence(Append(x, e)) /\ Tolds(to, Append(x, e)) = Append(Tolds(to, x), Told(to, e))
    BY <2>1, ToldsAppend
  <2>6. Map(ResultAs, Append(s, p)) = Append(Map(ResultAs, s), ResultAs[p])
    BY MapAppend
  <2>7. Good(Append(s, p), Append(x, e))
    BY <2>1, <2>2, <2>3, <2>4, <2>5, <2>6
  <2> HIDE DEF Good
  <2> QED
    BY <2>7, AppendProperties
<1> HIDE DEF P
<1>3. Seq(ResultSet) \subseteq P
  BY <1>1, <1>2, SeqInduction
<1>4. results \in P
  BY <1>3
<1> QED
  BY <1>4 DEF P

\* and the rest is pending.
LEMMA PlainCollects ==
  ASSUME NEW to, NEW role, NEW results \in Seq(ResultSet), NEW x,
         WriteParts(to, role, <<>>, results) = Within(x, <<>>, <<>>, <<>>), NEW plain \in Seq(PlainSet)
  PROVE  WriteParts(to, role, <<>>, results \o plain) = Within(x, plain, <<>>, <<>>)
<1> DEFINE P == {s \in Seq(PlainSet) : WriteParts(to, role, <<>>, results \o s) = Within(x, s, <<>>, <<>>)}
           S == ResultSet \cup PlainSet
<1>0. results \in Seq(S) /\ \A s \in Seq(PlainSet) : s \in Seq(S)
  BY SeqOfMore
<1>1. <<>> \in P
  <2>1. results \o <<>> = results
    BY ConcatEmptySeq
  <2> QED
    BY <2>1, EmptySeq
<1>2. ASSUME NEW s \in Seq(PlainSet), NEW p \in PlainSet, s \in P PROVE Append(s, p) \in P
  <2>1. results \o s \in Seq(S) /\ s \in Seq(S) /\ p \in S
    BY <1>0, ConcatProperties
  <2> HIDE DEF S
  <2>2. results \o Append(s, p) = Append(results \o s, p)
    BY <1>0, <2>1
  <2>3. WriteParts(to, role, <<>>, Append(results \o s, p)) = WritePart(to, role, WriteParts(to, role, <<>>, results \o s), p)
    <3> DEFINE r == results \o s
    <3>1. r \in Seq(S)
      BY <2>1
    <3> HIDE DEF r
    <3>2. WriteParts(to, role, <<>>, Append(r, p)) = WritePart(to, role, WriteParts(to, role, <<>>, r), p)
      BY <2>1, <3>1, PartsMore
    <3> QED
      BY <3>2 DEF r
  <2>4. p.kind \notin {"thinking", "tool", "result"}
    BY DEF PlainSet, TextSet, ImageSet
  <2>5. WritePart(to, role, Within(x, s, <<>>, <<>>), p) = Within(x, Append(s, p), <<>>, <<>>)
    BY <2>4 DEF WritePart, Within
  <2>6. Append(s, p) \in Seq(PlainSet)
    BY AppendProperties
  <2> QED
    BY <1>2, <2>2, <2>3, <2>5, <2>6
<1> HIDE DEF P
<1>3. Seq(PlainSet) \subseteq P
  BY <1>1, <1>2, SeqInduction
<1>4. plain \in P
  BY <1>3
<1> QED
  BY <1>4 DEF P

\* What the message tells, item by item.
LEMMA UserOuts ==
  ASSUME NEW to \in OpenAI, NEW role \in {"user", "system", "developer"}, NEW results \in Seq(ResultSet),
         NEW plain \in Seq(PlainSet), results \o plain # <<>>, NEW out,
         out = WriteMessage(to, <<>>, Message(role, results \o plain))
  PROVE  Sequence(out) /\ Tolds(to, out) = OutsOf(Speaker(role), results, plain)
<1> DEFINE m == Message(role, results \o plain)
           acc == WriteParts(to, m.role, <<>>, m.parts)
           by == Speaker(role)
           d == PlainSaid(by, NoId, plain)
           content == ContentParts(to, role, plain)
           R == Map(ResultAs, results)
<1>0. m.role = role /\ m.parts = results \o plain /\ by \in Whos /\ NoId \in Int
  BY DEF Message, Speaker, Whos, NoId
<1>1. PICK x : /\ WriteParts(to, role, <<>>, results) = Within(x, <<>>, <<>>, <<>>)
               /\ Sequence(x) /\ Tolds(to, x) = R
  BY ResultsCollect
<1>2. acc = Within(x, plain, <<>>, <<>>)
  BY <1>0, <1>1, PlainCollects
<1>3. acc.items = x /\ acc.pending = plain /\ acc.thinking = <<>> /\ acc.calls = <<>>
  BY <1>2 DEF Within
<1> DEFINE e == IF to = "chat" THEN ChatMessage(role, content, <<>>, <<>>) ELSE MessageItem(role, content)
<1>4. out = IF plain = <<>> THEN x ELSE Append(x, e)
  <2>1. CASE to = "chat"
    <3> HIDE DEF acc, m
    <3> QED
      BY <1>0, <1>3, <2>1 DEF WriteMessage, acc, m
  <2>2. CASE to = "responses"
    <3>1. out = Flush(to, role, acc).items
      BY <1>0, <2>2 DEF WriteMessage
    <3>2. Flush(to, role, Within(x, plain, <<>>, <<>>)).items = IF plain = <<>> THEN x ELSE Append(x, e)
      BY <2>2 DEF Flush, Within, Add
    <3> QED
      BY <1>2, <3>1, <3>2
  <2> QED
    BY <2>1, <2>2 DEF OpenAI
<1>5. Told(to, e) = d
  <2>1. ContentFacts(by, NoId, content) = d /\ d \in Seq(AllFacts)
    <3>1. by \in Whos /\ NoId \in Int
      BY <1>0
    <3> HIDE DEF by, content, d
    <3>2. d \in Seq(AllFacts)
      BY <3>1, PlainsTold DEF d
    <3>3. ContentFacts(by, NoId, ContentParts(to, role, plain)) = PlainSaid(by, NoId, plain)
      BY <3>1, ContentWritten
    <3> QED
      BY <3>2, <3>3 DEF content, d
  <2> HIDE DEF content, d
  <2>2. CASE to = "chat"
    <3>1. Told(to, e) = ChatFacts(e)
      BY <2>2 DEF Told
    <3>2. e.role = role /\ e.content = content /\ e.reasoning_content = <<>> /\ e.tool_calls = <<>> /\ role # "tool"
      BY <2>2 DEF ChatMessage
    <3> HIDE DEF e
    <3>3. ChatFacts(e) = FlattenSeq(<<>>) \o d \o FlattenSeq(<<>>)
      BY <2>1, <3>2 DEF ChatFacts, FlattenEach
    <3>4. ChatFacts(e) = (<<>> \o d) \o <<>>
      BY <3>3, FlattenEmpty
    <3>5. (<<>> \o d) \o <<>> = d
      BY <2>1, ConcatEmptySeq
    <3> QED
      BY <3>1, <3>4, <3>5
  <2>3. CASE to = "responses"
    BY <2>1, <2>3 DEF Told, ResponsesFacts, MessageItem
  <2> QED
    BY <2>2, <2>3 DEF OpenAI
<1>6. R \in Seq(Seq(AllFacts))
  <2>1. Gives(ResultAs, ResultSet, Seq(AllFacts))
    BY ResultTold DEF Gives, ResultAs
  <2> QED
    BY <2>1, MapType
<1>7. d \in Seq(AllFacts)
  <2> HIDE DEF by, m, acc, e, content, R
  <2> QED
    BY <1>0, PlainsTold
<1> HIDE DEF e, d, R, acc, m
<1>8. CASE plain = <<>>
  <2>1. R \o <<>> = R
    BY <1>6, ConcatEmptySeq
  <2> QED
    BY <1>1, <1>4, <1>8, <2>1 DEF OutsOf, R
<1>9. CASE plain # <<>>
  <2>1. Sequence(Append(x, e)) /\ Tolds(to, Append(x, e)) = Append(R, d)
    BY <1>1, <1>5, ToldsAppend
  <2>2. Append(R, d) = R \o <<d>>
    BY <1>6, <1>7, AppendIsConcat
  <2> QED
    BY <1>4, <1>9, <2>1, <2>2 DEF OutsOf, R, d
<1> QED
  BY <1>8, <1>9

-----------------------------------------------------------------------------
\* Messages for Anthropic: neighbours of one role are one message.
UseBlocks == [type : {"tool_use"}, id : Nat, input : Arguments]
ResultBlocks == [type : {"tool_result"}, tool_use_id : Int, content : Seq(PlainBlocks), is_error : BOOLEAN]
ABlocks == PlainBlocks \cup AnswerBlocks \cup OpaqueBlock \cup ResultBlocks
AMessages == [role : {"user", "assistant"}, content : Seq(ABlocks)]
AMessage(role, content) == [role |-> role, content |-> content]

\* A sequence is empty or has a last member.
LEMMA Ended ==
  ASSUME NEW S, NEW s \in Seq(S), s # <<>>
  PROVE  \E f \in Seq(S), e \in S : s = Append(f, e)
<1> DEFINE f == SubSeq(s, 1, Len(s) - 1)
           e == s[Len(s)]
<1>1. Len(s) \in Nat /\ Len(s) > 0 /\ Len(s) \in DOMAIN s
  BY EmptySeq, LenProperties
<1>2. e \in S
  BY <1>1
<1>3. f \in Seq(S) /\ Len(f) = Len(s) - 1 /\ \A i \in 1 .. Len(s) - 1 : f[i] = s[i]
  <2> DEFINE n == Len(s) - 1
  <2>1. n \in Nat /\ n + 1 = Len(s)
    BY <1>1
  <2>2. \A i \in 1 .. n : s[i] \in S
    BY <2>1
  <2> HIDE DEF n
  <2>3. f = [i \in 1 .. n |-> s[i]]
    BY <2>1 DEF n
  <2> HIDE DEF f
  <2>4. f \in Seq(S) /\ Len(f) = n /\ \A i \in 1 .. n : f[i] = s[i]
    BY <2>1, <2>2, <2>3
  <2> QED
    BY <2>4 DEF n
<1>4. \A i \in 1 .. Len(s) : Append(f, e)[i] = s[i]
  <2> HIDE DEF e, f
  <2>1. \A i \in 1 .. Len(f) + 1 : Append(f, e)[i] = IF i <= Len(f) THEN f[i] ELSE e
    BY <1>2, <1>3
  <2> QED
    BY <1>1, <1>3, <2>1 DEF e
<1>5. Append(f, e) \in Seq(S) /\ Len(Append(f, e)) = Len(s)
  <2> HIDE DEF e, f
  <2> QED
    BY <1>1, <1>2, <1>3
<1> HIDE DEF e, f
<1>6. Append(f, e) = s
  BY <1>1, <1>4, <1>5
<1> QED
  BY <1>2, <1>3, <1>6

\* The last message gets the blocks of its role,
LEMMA AddsToLast ==
  ASSUME NEW f \in Seq(AMessages), NEW role \in {"user", "assistant"}, NEW c \in Seq(ABlocks), NEW b \in Seq(ABlocks)
  PROVE  Add("anthropic", Append(f, AMessage(role, c)), role, b) = Append(f, AMessage(role, c \o b))
<1> DEFINE m == AMessage(role, c)
           items == Append(f, m)
           n == Len(f) + 1
           d == AMessage(role, c \o b)
<1>1. m \in AMessages /\ m.role = role /\ m.content = c
  BY DEF AMessages, AMessage
<1>2. items \in Seq(AMessages) /\ Len(items) = n /\ n \in Nat /\ items[n] = m /\ items # <<>>
  BY <1>1
<1>3. CASE b = <<>>
  <2>1. c \o b = c
    BY <1>3, ConcatEmptySeq
  <2> QED
    BY <1>3, <2>1 DEF Add
<1>4. CASE b # <<>>
  <2>1. Last(items) = m
    BY <1>2 DEF Last
  <2>2. Add("anthropic", items, role, b) = [items EXCEPT ![Len(items)].content = @ \o b]
    <3> HIDE DEF m, items
    <3> QED
      BY <1>1, <1>2, <1>4, <2>1 DEF Add
  <2>3. d \in AMessages /\ d = [m EXCEPT !.content = @ \o b]
    <3> DEFINE cb == c \o b
    <3>1. cb \in Seq(ABlocks)
      BY ConcatProperties
    <3>2. m.content \o b = cb
      BY <1>1
    <3> HIDE DEF cb
    <3>3. AMessage(role, cb) \in AMessages
      BY <3>1 DEF AMessages, AMessage
    <3>4. AMessage(role, cb) = [AMessage(role, c) EXCEPT !.content = cb]
      BY DEF AMessage
    <3> QED
      BY <3>2, <3>3, <3>4 DEF cb
  <2> HIDE DEF d
  <2>4. [items EXCEPT ![Len(items)].content = @ \o b] = [items EXCEPT ![n] = d]
    <3> HIDE DEF items, m, n
    <3> QED
      BY <1>2, <2>3
  <2>5. \A i \in 1 .. n : [items EXCEPT ![n] = d][i] = IF i = n THEN d ELSE f[i]
    <3>1. \A i \in 1 .. n : items[i] = IF i = n THEN m ELSE f[i]
      BY <1>1
    <3> HIDE DEF items, m, n
    <3> QED
      BY <1>2, <3>1
  <2>6. [items EXCEPT ![n] = d] \in Seq(AMessages) /\ Len([items EXCEPT ![n] = d]) = n
    <3> HIDE DEF items, m, n
    <3> QED
      BY <1>2, <2>3
  <2>7. Append(f, d) \in Seq(AMessages) /\ Len(Append(f, d)) = n /\ \A i \in 1 .. n : Append(f, d)[i] = IF i = n THEN d ELSE f[i]
    BY <2>3
  <2> HIDE DEF items, m, n
  <2>8. [items EXCEPT ![n] = d] = Append(f, d)
    <3> DEFINE x == [items EXCEPT ![n] = d]
               y == Append(f, d)
    <3>1. x \in Seq(AMessages) /\ y \in Seq(AMessages) /\ Len(x) = n /\ Len(y) = n /\ \A i \in 1 .. n : x[i] = y[i]
      BY <2>5, <2>6, <2>7
    <3> HIDE DEF x, y
    <3>2. x = y
      BY <3>1
    <3> QED
      BY <3>2 DEF x, y
  <2> QED
    BY <2>2, <2>4, <2>8 DEF d, items, m
<1> QED
  BY <1>3, <1>4

\* or there is a message of its own.
Turns(items, role) == items = <<>> \/ Last(items).role # role

\* Content that takes its turn becomes a message.
LEMMA AddsMessage ==
  ASSUME NEW items, NEW role, NEW b, b # <<>>, Turns(items, role)
  PROVE  Add("anthropic", items, role, b) = Append(items, AMessage(role, b))
BY DEF Add, Turns, AMessage

\* What Add makes of typed messages: nothing, more of the last, or a new one.
Adds(items, role, b, out) ==
  \/ b = <<>> /\ out = items
  \/ \E f \in Seq(AMessages), c \in Seq(ABlocks) :
       items = Append(f, AMessage(role, c)) /\ out = Append(f, AMessage(role, c \o b))
  \/ b # <<>> /\ Turns(items, role) /\ out = Append(items, AMessage(role, b))

\* addMessage does one of the three.
LEMMA AddAdds ==
  ASSUME NEW items \in Seq(AMessages), NEW role \in {"user", "assistant"}, NEW b \in Seq(ABlocks), NEW out,
         out = Add("anthropic", items, role, b)
  PROVE  Adds(items, role, b, out) /\ out \in Seq(AMessages)
<1>1. CASE b = <<>>
  BY <1>1 DEF Add, Adds
<1>2. CASE b # <<>> /\ Turns(items, role)
  <2>1. AMessage(role, b) \in AMessages
    BY DEF AMessages, AMessage
  <2>2. out = Append(items, AMessage(role, b))
    BY <1>2, AddsMessage
  <2>3. Append(items, AMessage(role, b)) \in Seq(AMessages)
    BY <2>1, AppendProperties
  <2>4. Adds(items, role, b, out)
    BY <1>2, <2>2 DEF Adds
  <2> QED
    BY <2>2, <2>3, <2>4
<1>3. CASE ~ Turns(items, role)
  <2>1. items # <<>> /\ Last(items).role = role
    BY <1>3 DEF Turns
  <2>2. PICK f \in Seq(AMessages), e \in AMessages : items = Append(f, e)
    BY <2>1, Ended
  <2>3. Last(items) = e
    BY <2>2 DEF Last
  <2>4. e.role = role
    BY <2>1, <2>3
  <2>5. e = AMessage(role, e.content) /\ e.content \in Seq(ABlocks)
    BY <2>4 DEF AMessages, AMessage
  <2> DEFINE c == e.content
  <2>6. out = Append(f, AMessage(role, c \o b))
    <3>1. Add("anthropic", Append(f, AMessage(role, c)), role, b) = Append(f, AMessage(role, c \o b))
      BY <2>5, AddsToLast
    <3> QED
      BY <2>2, <2>5, <3>1
  <2>7. AMessage(role, c \o b) \in AMessages
    <3>1. c \o b \in Seq(ABlocks)
      BY <2>5, ConcatProperties
    <3> HIDE DEF c
    <3> QED
      BY <3>1 DEF AMessages, AMessage
  <2>8. Adds(items, role, b, out)
    <3>1. c \in Seq(ABlocks) /\ items = Append(f, AMessage(role, c))
      BY <2>2, <2>5
    <3> HIDE DEF c
    <3> QED
      BY <2>6, <3>1, Zenon DEF Adds
  <2>9. out \in Seq(AMessages)
    <3> DEFINE m == AMessage(role, c \o b)
    <3>1. m \in AMessages /\ out = Append(f, m)
      BY <2>6, <2>7
    <3> HIDE DEF m
    <3>2. Append(f, m) \in Seq(AMessages)
      BY <2>2, <3>1, AppendProperties
    <3> QED
      BY <3>1, <3>2
  <2> QED
    BY <2>8, <2>9
<1> QED
  BY <1>1, <1>2, <1>3

\* Blocks that are added one after the other are added together.
LEMMA AddTwice ==
  ASSUME NEW items \in Seq(AMessages), NEW role \in {"user", "assistant"}, NEW a \in Seq(ABlocks), NEW b \in Seq(ABlocks)
  PROVE  Add("anthropic", Add("anthropic", items, role, a), role, b) = Add("anthropic", items, role, a \o b)
<1> DEFINE out == Add("anthropic", items, role, a)
<1>1. Adds(items, role, a, out) /\ out \in Seq(AMessages)
  BY AddAdds
<1>2. a \o b \in Seq(ABlocks)
  BY ConcatProperties
<1>3. CASE a = <<>>
  <2>1. a \o b = b
    BY <1>3, ConcatEmptySeq
  <2>2. Add("anthropic", items, role, <<>>) = items
    BY DEF Add
  <2> QED
    BY <1>3, <2>1, <2>2
<1>4. ASSUME NEW f \in Seq(AMessages), NEW c \in Seq(ABlocks),
             items = Append(f, AMessage(role, c)), out = Append(f, AMessage(role, c \o a))
      PROVE  Add("anthropic", out, role, b) = Add("anthropic", items, role, a \o b)
  <2>1. c \o a \in Seq(ABlocks)
    BY ConcatProperties
  <2> DEFINE ca == c \o a
             ab == a \o b
  <2> HIDE DEF out
  <2>2. ca \o b = c \o ab
    <3>1. Associates(c, a, b)
      BY ConcatTwo
    <3> QED
      BY <3>1 DEF Associates, ca, ab
  <2>3. ca \in Seq(ABlocks) /\ ab \in Seq(ABlocks)
    BY <1>2, <2>1
  <2> HIDE DEF ca, ab
  <2>4. Add("anthropic", Append(f, AMessage(role, ca)), role, b) = Append(f, AMessage(role, ca \o b))
    BY <2>3, AddsToLast
  <2>5. Add("anthropic", Append(f, AMessage(role, c)), role, ab) = Append(f, AMessage(role, c \o ab))
    BY <2>3, AddsToLast
  <2> QED
    BY <1>4, <2>2, <2>4, <2>5 DEF ca, ab
<1>5. ASSUME a # <<>>, Turns(items, role), out = Append(items, AMessage(role, a))
      PROVE  Add("anthropic", out, role, b) = Add("anthropic", items, role, a \o b)
  <2> HIDE DEF out
  <2>1. Add("anthropic", Append(items, AMessage(role, a)), role, b) = Append(items, AMessage(role, a \o b))
    BY AddsToLast
  <2>2. a \o b # <<>>
    BY <1>5, ConcatEmptySeq
  <2>3. Add("anthropic", items, role, a \o b) = Append(items, AMessage(role, a \o b))
    BY <1>5, <2>2, AddsMessage
  <2> QED
    BY <1>5, <2>1, <2>3
<1> HIDE DEF out
<1>6. Add("anthropic", out, role, b) = Add("anthropic", items, role, a \o b)
  BY <1>1, <1>3, <1>4, <1>5 DEF Adds, out
<1> QED
  BY <1>6 DEF out

-----------------------------------------------------------------------------
\* What a message becomes for Anthropic: the blocks of its parts, added to the last message of
\* its role.
Speaking == {"user", "assistant"}
RoleParts(role) == IF role = "assistant" THEN AnswerParts ELSE ResultSet \cup PlainSet
BlockFor(p) ==
  CASE p.kind = "tool" -> ToolUse(p.id, Input(p.arguments))
    [] p.kind = "result" -> ToolResult(p.id, ContentParts("anthropic", "user", p.content), p.failed)
    [] p.kind = "image" -> PictureBlock("image", p.url)
    [] OTHER -> TextBlock("text", p.text)
BlockAs(role) == [p \in RoleParts(role) |-> BlockFor(p)]
Blocks(role, parts) == Map(BlockAs(role), parts)

\* A part becomes a block.
LEMMA BlockOf ==
  ASSUME NEW role \in Speaking
  PROVE  Gives(BlockAs(role), RoleParts(role), ABlocks)
<1>1. ASSUME NEW p \in PlainSet PROVE BlockFor(p) \in PlainBlocks
  BY DEF BlockFor, PlainSet, TextSet, ImageSet, PictureBlock, TextBlock, PlainBlocks, TextBlocks, PictureBlocks
<1>2. ASSUME NEW p \in ResultSet PROVE BlockFor(p) \in ResultBlocks
  <2> DEFINE c == ContentParts("anthropic", "user", p.content)
  <2>1. p.content \in Seq(PlainSet) /\ p.kind = "result" /\ p.id \in Int /\ p.failed \in BOOLEAN
    BY DEF ResultSet
  <2>2. "result" \in Whos /\ 0 \in Int
    BY DEF Whos
  <2>3. c \in Seq(PlainBlocks)
    BY <2>1, <2>2, ContentWritten
  <2> HIDE DEF c
  <2>4. ToolResult(p.id, c, p.failed) \in ResultBlocks
    BY <2>1, <2>3 DEF ToolResult, ResultBlocks
  <2> QED
    BY <2>1, <2>4 DEF BlockFor, c
<1>3. ASSUME NEW p \in TextParted PROVE BlockFor(p) \in PlainBlocks
  <2>1. p.text \in Seq(Int) /\ p.kind \notin {"tool", "result", "image"}
    BY SeqOfMore DEF TextParted, WordSeq
  <2> QED
    BY <2>1 DEF BlockFor, TextBlock, PlainBlocks, TextBlocks
<1>4. ASSUME NEW p \in ToolParted PROVE BlockFor(p) \in AnswerBlocks
  BY DEF BlockFor, ToolParted, ToolUse, Input, Arguments, AnswerBlocks, UseTyped
<1> QED
  BY <1>1, <1>2, <1>3, <1>4 DEF Gives, BlockAs, RoleParts, AnswerParts, ABlocks

\* The plain blocks of a content, one more.
LEMMA ContentMore ==
  ASSUME NEW role, NEW q \in Seq(PlainSet), NEW p \in PlainSet
  PROVE  /\ ContentParts("anthropic", role, Append(q, p)) = ContentParts("anthropic", role, q) \o <<BlockFor(p)>>
         /\ ContentParts("anthropic", role, <<>>) = <<>>
         /\ ContentParts("anthropic", role, q) \in Seq(ABlocks)
<1> DEFINE h == [x \in PlainSet |-> IF x.kind = "image" THEN PictureBlock("image", x.url) ELSE TextBlock("text", x.text)]
<1>1. \A s \in Seq(PlainSet) : ContentParts("anthropic", role, s) = Map(h, s)
  BY MembersIn DEF ContentParts, Map
<1>2. h[p] = BlockFor(p)
  BY DEF BlockFor, PlainSet, TextSet, ImageSet
<1>3. Gives(h, PlainSet, ABlocks)
  BY DEF Gives, PlainSet, TextSet, ImageSet, PictureBlock, TextBlock, PlainBlocks, TextBlocks, PictureBlocks, ABlocks
<1> HIDE DEF h
<1>4. Map(h, Append(q, p)) = Append(Map(h, q), h[p])
  BY MapAppend
<1>5. Map(h, q) \in Seq(ABlocks) /\ h[p] \in ABlocks
  BY <1>3, MapType DEF Gives
<1>6. Append(Map(h, q), h[p]) = Map(h, q) \o <<h[p]>>
  BY <1>5, AppendIsConcat
<1>7. Append(q, p) \in Seq(PlainSet) /\ <<>> \in Seq(PlainSet)
  BY AppendProperties, EmptySeq
<1> QED
  BY <1>1, <1>2, <1>4, <1>5, <1>6, <1>7, MapEmpty

\* Where writeMessages is: the blocks that are added, and those that are pending.
Blocked(acc, items, role, parts) ==
  \E b \in Seq(ABlocks), q \in Seq(PlainSet) :
    /\ acc = Within(Add("anthropic", items, role, b), q, <<>>, <<>>)
    /\ b \o ContentParts("anthropic", role, q) = Blocks(role, parts)

\* What was pending is added.
LEMMA BlockedFlushed ==
  ASSUME NEW items \in Seq(AMessages), NEW role \in Speaking, NEW parts, NEW acc, Blocked(acc, items, role, parts)
  PROVE  Flush("anthropic", role, acc) = Within(Add("anthropic", items, role, Blocks(role, parts)), <<>>, <<>>, <<>>)
<1>1. PICK b \in Seq(ABlocks), q \in Seq(PlainSet) :
        /\ acc = Within(Add("anthropic", items, role, b), q, <<>>, <<>>)
        /\ b \o ContentParts("anthropic", role, q) = Blocks(role, parts)
  BY DEF Blocked
<1> DEFINE c == ContentParts("anthropic", role, q)
           x == Add("anthropic", items, role, b)
<1>2. c \in Seq(ABlocks) /\ (q = <<>> => c = <<>>)
  <2>1. \A p \in PlainSet : c \in Seq(ABlocks) /\ ContentParts("anthropic", role, <<>>) = <<>>
    BY ContentMore
  <2>2. Image(0) \in PlainSet
    BY DEF Image, PlainSet, ImageSet
  <2> QED
    BY <2>1, <2>2
<1>3. Add("anthropic", x, role, c) = Add("anthropic", items, role, b \o c)
  BY <1>2, AddTwice DEF Speaking
<1>4. CASE q = <<>>
  <2>1. b \o <<>> = b
    BY ConcatEmptySeq
  <2>2. Flush("anthropic", role, acc) = acc
    BY <1>1, <1>4 DEF Flush, Within
  <2>3. Blocks(role, parts) = b
    BY <1>1, <1>2, <1>4, <2>1
  <2> QED
    BY <1>1, <1>4, <2>2, <2>3
<1>5. CASE q # <<>>
  <2> HIDE DEF x, c
  <2>1. Flush("anthropic", role, Within(x, q, <<>>, <<>>)) = Within(Add("anthropic", x, role, c), <<>>, <<>>, <<>>)
    BY <1>5 DEF Flush, Within, c
  <2> QED
    BY <1>1, <1>3, <2>1 DEF x, c
<1> QED
  BY <1>4, <1>5

\* A block that is added by itself.
LEMMA BlockAdded ==
  ASSUME NEW items, NEW role, NEW s, NEW e,
         NEW x, x = Add("anthropic", items, role, Blocks(role, s) \o <<e>>),
         Blocks(role, s) \in Seq(ABlocks), e \in ABlocks, NEW parts, Blocks(role, parts) = Blocks(role, s) \o <<e>>
  PROVE  Blocked(Within(x, <<>>, <<>>, <<>>), items, role, parts)
<1>1. <<>> \in Seq(PlainSet) /\ ContentParts("anthropic", role, <<>>) = <<>>
  BY EmptySeq DEF ContentParts
<1>2. Blocks(role, s) \o <<e>> \in Seq(ABlocks)
  BY ConcatProperties
<1>3. (Blocks(role, s) \o <<e>>) \o <<>> = Blocks(role, s) \o <<e>>
  BY <1>2, ConcatEmptySeq
<1> QED
  BY <1>1, <1>2, <1>3 DEF Blocked

\* A part more that is pending.
LEMMA OnePartMore ==
  ASSUME NEW x, NEW q, NEW t, NEW c, NEW e
  PROVE  [Within(x, q, t, c) EXCEPT !.pending = Append(@, e)] = Within(x, Append(q, e), t, c)
BY DEF Within

\* So it is after every part.
LEMMA AnthropicCollects ==
  ASSUME NEW items \in Seq(AMessages), NEW role \in Speaking, NEW parts \in Seq(RoleParts(role))
  PROVE  Blocked(WriteParts("anthropic", role, items, parts), items, role, parts)
<1> DEFINE S == RoleParts(role)
           P == {s \in Seq(S) : Blocked(WriteParts("anthropic", role, items, s), items, role, s)}
<1>1. <<>> \in P
  <2>1. WriteParts("anthropic", role, items, <<>>) = Within(items, <<>>, <<>>, <<>>)
    BY PartsNone DEF Started, Within
  <2>2. Blocks(role, <<>>) = <<>> /\ ContentParts("anthropic", role, <<>>) = <<>> /\ <<>> \o <<>> = <<>>
    BY MapEmpty DEF Blocks, ContentParts
  <2>3. Add("anthropic", items, role, <<>>) = items
    BY DEF Add
  <2>4. <<>> \in Seq(ABlocks) /\ <<>> \in Seq(PlainSet) /\ <<>> \in Seq(S)
    BY EmptySeq
  <2>5. Blocked(Within(items, <<>>, <<>>, <<>>), items, role, <<>>)
    BY <2>2, <2>3, <2>4 DEF Blocked
  <2> QED
    BY <2>1, <2>4, <2>5
<1>2. ASSUME NEW s \in Seq(S), NEW p \in S, s \in P PROVE Append(s, p) \in P
  <2> DEFINE acc == WriteParts("anthropic", role, items, s)
             next == WritePart("anthropic", role, acc, p)
             flushed == Flush("anthropic", role, acc)
             B == Blocks(role, s)
             e == BlockFor(p)
             x == Add("anthropic", items, role, B)
  <2>1. Blocked(acc, items, role, s) /\ Append(s, p) \in Seq(S)
    BY <1>2, AppendProperties
  <2>2. WriteParts("anthropic", role, items, Append(s, p)) = next
    BY PartsMore
  <2>3. B \in Seq(ABlocks) /\ e \in ABlocks
    BY BlockOf, MapType DEF Blocks, Gives, BlockAs
  <2>4. Blocks(role, Append(s, p)) = B \o <<e>>
    <3>1. Map(BlockAs(role), Append(s, p)) = Append(B, e)
      BY MapAppend DEF Blocks, BlockAs
    <3> HIDE DEF B, e
    <3>2. Append(B, e) = B \o <<e>>
      BY <2>3, AppendIsConcat
    <3> QED
      BY <3>1, <3>2 DEF Blocks
  <2> HIDE DEF acc, e
  <2>5. flushed = Within(x, <<>>, <<>>, <<>>)
    BY <2>1, BlockedFlushed
  <2>6. ASSUME p.kind \in {"tool", "result"} PROVE Blocked(next, items, role, Append(s, p))
    <3> DEFINE y == Add("anthropic", x, role, <<e>>)
    <3>1. next = Within(y, <<>>, <<>>, <<>>)
      <4>1. p.kind = "tool" => role = "assistant"
        BY DEF RoleParts, ResultSet, PlainSet, TextSet, ImageSet, Speaking
      <4>2. p.kind = "result" => role = "user"
        BY DEF RoleParts, AnswerParts, TextParted, ToolParted, Speaking
      <4>3. next = [flushed EXCEPT !.items = Add("anthropic", @, role, <<e>>)]
        BY <2>6, <4>1, <4>2 DEF WritePart, WriteCall, WriteResult, BlockFor, e
      <4> HIDE DEF next, flushed, x
      <4>4. [Within(x, <<>>, <<>>, <<>>) EXCEPT !.items = Add("anthropic", @, role, <<e>>)]
              = Within(Add("anthropic", x, role, <<e>>), <<>>, <<>>, <<>>)
        BY DEF Within
      <4> QED
        BY <2>5, <4>3, <4>4
    <3>2. <<e>> \in Seq(ABlocks)
      BY <2>3
    <3> HIDE DEF B, next
    <3>3. y = Add("anthropic", items, role, B \o <<e>>)
      BY <2>3, <3>2, AddTwice DEF Speaking
    <3> HIDE DEF y
    <3>4. Blocked(Within(y, <<>>, <<>>, <<>>), items, role, Append(s, p))
      BY <2>3, <2>4, <3>3, BlockAdded DEF B
    <3> QED
      BY <3>1, <3>4
  <2>7. ASSUME p.kind \notin {"tool", "result"} PROVE Blocked(next, items, role, Append(s, p))
    <3> DEFINE r == IF p.kind = "thinking" THEN Text(p.text) ELSE p
    <3>1. PICK b \in Seq(ABlocks), q \in Seq(PlainSet) :
            /\ acc = Within(Add("anthropic", items, role, b), q, <<>>, <<>>)
            /\ b \o ContentParts("anthropic", role, q) = B
      BY <2>1 DEF Blocked
    <3> DEFINE c == ContentParts("anthropic", role, q)
               z == Add("anthropic", items, role, b)
    <3>2. next = Within(z, Append(q, r), <<>>, <<>>)
      <4>1. WritePart("anthropic", role, acc, p) = [acc EXCEPT !.pending = Append(@, r)]
        BY <2>7 DEF WritePart, WriteThinking
      <4> HIDE DEF r, z
      <4>2. [Within(z, q, <<>>, <<>>) EXCEPT !.pending = Append(@, r)] = Within(z, Append(q, r), <<>>, <<>>)
        BY OnePartMore
      <4> QED
        BY <3>1, <4>1, <4>2 DEF z
    <3>3. r \in PlainSet /\ BlockFor(r) = e
      <4>1. CASE p \in ResultSet \cup PlainSet
        <5>1. p \in PlainSet /\ p.kind # "thinking"
          BY <2>7, <4>1 DEF ResultSet, PlainSet, TextSet, ImageSet
        <5> QED
          BY <5>1 DEF e
      <4>2. CASE p \in AnswerParts
        <5>1. p \in TextParted
          BY <2>7, <4>2 DEF AnswerParts, ToolParted
        <5>2. p.text \in Seq(Int)
          BY <5>1, SeqOfMore DEF TextParted, WordSeq
        <5>3. p = [kind |-> p.kind, text |-> p.text] /\ p.kind \in {"text", "refusal", "thinking"}
          BY <5>1 DEF TextParted
        <5>4. r \in TextSet
          BY <5>2, <5>3 DEF Text, TextSet
        <5> QED
          BY <5>3, <5>4 DEF PlainSet, BlockFor, Text, e
      <4> QED
        BY <4>1, <4>2 DEF RoleParts
    <3> HIDE DEF r, next, z
    <3>4. /\ ContentParts("anthropic", role, Append(q, r)) = c \o <<e>>
          /\ c \in Seq(ABlocks)
      BY <3>3, ContentMore
    <3> DEFINE d == ContentParts("anthropic", role, Append(q, r))
    <3>5. (b \o c) \o <<e>> = b \o (c \o <<e>>)
      <4>1. <<e>> \in Seq(ABlocks)
        BY <2>3
      <4> DEFINE y == <<e>>
      <4>2. b \in Seq(ABlocks) /\ c \in Seq(ABlocks) /\ y \in Seq(ABlocks)
        BY <3>4, <4>1
      <4> HIDE DEF c, y
      <4>3. Associates(b, c, y)
        BY <4>2, ConcatTwo
      <4> QED
        BY <4>3 DEF Associates, y
    <3> HIDE DEF c, d
    <3>6. b \o d = Blocks(role, Append(s, p))
      BY <2>4, <3>1, <3>4, <3>5 DEF c, d
    <3>7. Append(q, r) \in Seq(PlainSet)
      BY <3>3, AppendProperties
    <3> QED
      BY <3>2, <3>6, <3>7 DEF Blocked, z, d
  <2> QED
    BY <2>1, <2>2, <2>6, <2>7
<1> HIDE DEF P
<1>3. Seq(S) \subseteq P
  BY <1>1, <1>2, SeqInduction
<1>4. parts \in P
  BY <1>3
<1> QED
  BY <1>4 DEF P

\* A message is its blocks, added.
LEMMA AnthropicAdds ==
  ASSUME NEW items \in Seq(AMessages), NEW role \in Speaking, NEW parts \in Seq(RoleParts(role))
  PROVE  /\ WriteMessage("anthropic", items, Message(role, parts)) = Add("anthropic", items, role, Blocks(role, parts))
         /\ Blocks(role, parts) \in Seq(ABlocks)
         /\ Add("anthropic", items, role, Blocks(role, parts)) \in Seq(AMessages)
<1> DEFINE m == Message(role, parts)
           acc == WriteParts("anthropic", role, items, parts)
           x == Add("anthropic", items, role, Blocks(role, parts))
<1>1. m.role = role /\ m.parts = parts
  BY DEF Message
<1>2. WriteMessage("anthropic", items, m) = Flush("anthropic", role, acc).items
  BY <1>1 DEF WriteMessage
<1>3. Blocked(acc, items, role, parts)
  BY AnthropicCollects
<1>4. Blocks(role, parts) \in Seq(ABlocks)
  BY BlockOf, MapType DEF Blocks
<1> HIDE DEF acc
<1>5. Flush("anthropic", role, acc) = Within(x, <<>>, <<>>, <<>>)
  BY <1>3, BlockedFlushed
<1>6. Within(x, <<>>, <<>>, <<>>).items = x
  BY DEF Within
<1>7. x \in Seq(AMessages)
  BY <1>4, AddAdds DEF Speaking
<1> QED
  BY <1>2, <1>4, <1>5, <1>6, <1>7

-----------------------------------------------------------------------------
\* What messages for Anthropic tell: what their blocks do, one after the other.
BlockTold(role) == [b \in ABlocks |-> AnthropicFacts(role, b)]
BlocksSay(role, blocks) == FlattenSeq(Map(BlockTold(role), blocks))

\* The facts of a block.
LEMMA BlockFactsTyped ==
  ASSUME NEW role \in Speaking
  PROVE  Gives(BlockTold(role), ABlocks, Seq(AllFacts))
<1>0. role \in Whos /\ Speaker(role) = role /\ NoId \in Int /\ "result" \in Whos
  BY DEF Speaking, Whos, Speaker, NoId
<1>1. ASSUME NEW b \in PlainBlocks PROVE AnthropicFacts(role, b) \in Seq(AllFacts)
  <2>1. b.type \in PlainTypes /\ BlockFacts(role, NoId, b) \in Seq(AllFacts)
    BY <1>0, PlainRead, PlainTold
  <2> QED
    BY <1>0, <2>1 DEF AnthropicFacts, PlainTypes
<1>2. ASSUME NEW b \in OpaqueBlock PROVE AnthropicFacts(role, b) \in Seq(AllFacts)
  <2> DEFINE w == b.text
  <2>1. w \in Seq(Int) /\ b.type = "redacted_thinking"
    BY SeqOfMore DEF OpaqueBlock, WordSeq
  <2>2. AnthropicFacts(role, b) = FlattenSeq([i \in DOMAIN w |-> <<Fact(role, NoId, w[i])>>])
    BY <1>0, <2>1 DEF AnthropicFacts, BlockFacts, FlattenEach
  <2> DEFINE said1 == FlattenSeq([i \in DOMAIN w |-> <<Fact(role, NoId, w[i])>>])
  <2> HIDE DEF w
  <2>3. Utter(role, NoId, w) \in Seq(AllFacts) /\ said1 = Utter(role, NoId, w)
    BY <1>0, <2>1, Utters
  <2> HIDE DEF said1
  <2> QED
    BY <2>2, <2>3 DEF said1
<1>3. ASSUME NEW b \in ThinkingTyped PROVE AnthropicFacts(role, b) \in Seq(AllFacts)
  <2> DEFINE w == b.thinking
  <2>1. w \in Seq(Int) /\ b.type = "thinking"
    BY SeqOfMore DEF ThinkingTyped, WordSeq
  <2>2. AnthropicFacts(role, b) = FlattenSeq([i \in DOMAIN w |-> <<Fact(role, NoId, w[i])>>])
    BY <1>0, <2>1 DEF AnthropicFacts, BlockFacts, FlattenEach
  <2> DEFINE said1 == FlattenSeq([i \in DOMAIN w |-> <<Fact(role, NoId, w[i])>>])
  <2> HIDE DEF w
  <2>3. Utter(role, NoId, w) \in Seq(AllFacts) /\ said1 = Utter(role, NoId, w)
    BY <1>0, <2>1, Utters
  <2> HIDE DEF said1
  <2> QED
    BY <2>2, <2>3 DEF said1
<1>4. ASSUME NEW b \in UseTyped PROVE AnthropicFacts(role, b) \in Seq(AllFacts)
  <2>1. b.type = "tool_use" /\ b.id \in Int
    BY DEF UseTyped
  <2>2. Fact("call", NoId, b.id) \in AllFacts
    BY <2>1 DEF Fact, AllFacts, Whos, NoId
  <2>3. AnthropicFacts(role, b) = <<Fact("call", NoId, b.id)>>
    BY <2>1 DEF AnthropicFacts
  <2> QED
    BY <2>2, <2>3
<1>5. ASSUME NEW b \in ResultBlocks PROVE AnthropicFacts(role, b) \in Seq(AllFacts)
  <2> DEFINE c == b.content
             id == b.tool_use_id
  <2>1. b.type = "tool_result" /\ c \in Seq(PlainBlocks) /\ id \in Int
    BY DEF ResultBlocks
  <2>2. AnthropicFacts(role, b) = (IF b.is_error THEN <<Fact("result", id, ToolError)>> ELSE <<>>)
                                    \o ContentFacts("result", id, c)
    BY <2>1 DEF AnthropicFacts
  <2> HIDE DEF c, id
  <2>3. Parts(c) \in Seq(PlainSet) /\ ContentFacts("result", id, c) = PlainSaid("result", id, Parts(c))
    BY <1>0, <2>1, ContentRead
  <2>4. ContentFacts("result", id, c) \in Seq(AllFacts)
    BY <1>0, <2>1, <2>3, PlainsTold
  <2>5. Fact("result", id, ToolError) \in AllFacts
    BY <2>1 DEF Fact, AllFacts, Whos, ToolError
  <2> DEFINE x == IF b.is_error THEN <<Fact("result", id, ToolError)>> ELSE <<>>
  <2>6. x \in Seq(AllFacts)
    BY <2>5, EmptySeq
  <2> HIDE DEF x
  <2> QED
    BY <2>2, <2>4, <2>6, ConcatProperties DEF x
<1>6. ABlocks = PlainBlocks \cup OpaqueBlock \cup ThinkingTyped \cup UseTyped \cup ResultBlocks \cup TextTyped
  BY DEF ABlocks, AnswerBlocks
<1>7. TextTyped \subseteq PlainBlocks
  <2> SUFFICES ASSUME NEW b \in TextTyped PROVE b \in PlainBlocks
    OBVIOUS
  <2>1. b.text \in Seq(Int)
    BY SeqOfMore DEF TextTyped, WordSeq
  <2> QED
    BY <2>1 DEF TextTyped, PlainBlocks, TextBlocks
<1> QED
  BY <1>1, <1>2, <1>3, <1>4, <1>5, <1>6, <1>7 DEF Gives, BlockTold

\* Several blocks.
LEMMA BlocksTell ==
  ASSUME NEW role \in Speaking
  PROVE  /\ BlocksSay(role, <<>>) = <<>>
         /\ \A a \in Seq(ABlocks) : BlocksSay(role, a) \in Seq(AllFacts)
         /\ \A a, b \in Seq(ABlocks) : BlocksSay(role, a \o b) = BlocksSay(role, a) \o BlocksSay(role, b)
         /\ \A a \in Seq(ABlocks) : Told("anthropic", AMessage(role, a)) = BlocksSay(role, a)
<1>1. Gives(BlockTold(role), ABlocks, Seq(AllFacts))
  BY BlockFactsTyped
<1>2. BlocksSay(role, <<>>) = <<>>
  BY MapEmpty, FlattenEmpty DEF BlocksSay
<1>3. \A a \in Seq(ABlocks) : BlocksSay(role, a) \in Seq(AllFacts)
  BY <1>1, FlattenMapType DEF BlocksSay
<1>4. ASSUME NEW a \in Seq(ABlocks), NEW b \in Seq(ABlocks)
      PROVE  BlocksSay(role, a \o b) = BlocksSay(role, a) \o BlocksSay(role, b)
  BY <1>1, FlattenMapConcat DEF BlocksSay, Splits
<1>5. ASSUME NEW a \in Seq(ABlocks)
      PROVE  Told("anthropic", AMessage(role, a)) = BlocksSay(role, a)
  <2>1. Told("anthropic", AMessage(role, a)) = FlattenSeq([i \in DOMAIN a |-> AnthropicFacts(role, a[i])])
    BY DEF Told, AMessage, FlattenEach
  <2>2. [i \in DOMAIN a |-> AnthropicFacts(role, a[i])] = Map(BlockTold(role), a)
    BY MembersIn DEF Map, BlockTold
  <2> QED
    BY <2>1, <2>2 DEF BlocksSay
<1> QED
  BY <1>2, <1>3, <1>4, <1>5

\* What messages for Anthropic tell is typed,
LEMMA AMessagesTell ==
  ASSUME NEW items \in Seq(AMessages)
  PROVE  Sequence(items) /\ Tolds("anthropic", items) \in Seq(Seq(AllFacts))
<1>1. ASSUME NEW m \in AMessages PROVE Told("anthropic", m) \in Seq(AllFacts)
  <2>1. m.role \in Speaking /\ m.content \in Seq(ABlocks) /\ m = AMessage(m.role, m.content)
    BY DEF AMessages, AMessage, Speaking
  <2> QED
    BY <2>1, BlocksTell
<1>2. Len(items) \in Nat /\ DOMAIN items = 1 .. Len(items) /\ \A i \in DOMAIN items : items[i] \in AMessages
  BY LenProperties, MembersIn
<1>3. Tolds("anthropic", items) \in Seq(Seq(AllFacts))
  BY <1>1, <1>2 DEF Tolds
<1> QED
  BY <1>3, IsSequence

\* and blocks that are added tell what they do after all that was told.
LEMMA AddTells ==
  ASSUME NEW items \in Seq(AMessages), NEW role \in Speaking, NEW b \in Seq(ABlocks), NEW out,
         out = Add("anthropic", items, role, b)
  PROVE  FlattenSeq(Tolds("anthropic", out)) = FlattenSeq(Tolds("anthropic", items)) \o BlocksSay(role, b)
<1> DEFINE T(x) == Tolds("anthropic", x)
           d == BlocksSay(role, b)
<1>1. Adds(items, role, b, out) /\ out \in Seq(AMessages)
  BY AddAdds DEF Speaking
<1>2. T(items) \in Seq(Seq(AllFacts)) /\ d \in Seq(AllFacts)
  BY AMessagesTell, BlocksTell
<1>0. ASSUME NEW f \in Seq(AMessages), NEW c \in Seq(ABlocks)
      PROVE  FlattenSeq(T(Append(f, AMessage(role, c)))) = FlattenSeq(T(f)) \o BlocksSay(role, c)
  <2> DEFINE F == T(f)
             e == BlocksSay(role, c)
  <2>1. Sequence(f) /\ F \in Seq(Seq(AllFacts)) /\ e \in Seq(AllFacts) /\ Told("anthropic", AMessage(role, c)) = e
    BY AMessagesTell, BlocksTell
  <2>2. T(Append(f, AMessage(role, c))) = Append(F, e)
    BY <2>1, ToldsAppend
  <2> HIDE DEF F, e
  <2>3. FlattenSeq(Append(F, e)) = FlattenSeq(F) \o e
    BY <2>1, FlattenAppend
  <2> QED
    BY <2>2, <2>3 DEF F, e
<1>3. ASSUME b = <<>>, out = items PROVE FlattenSeq(T(out)) = FlattenSeq(T(items)) \o d
  <2>1. d = <<>>
    BY <1>3, BlocksTell
  <2> DEFINE x == FlattenSeq(T(items))
  <2>2. x \in Seq(AllFacts)
    BY <1>2, FlattenType
  <2> HIDE DEF x
  <2>3. x \o <<>> = x
    BY <2>2, ConcatEmptySeq
  <2> QED
    BY <1>3, <2>1, <2>3 DEF x
<1>4. ASSUME NEW f \in Seq(AMessages), NEW c \in Seq(ABlocks),
             items = Append(f, AMessage(role, c)), out = Append(f, AMessage(role, c \o b))
      PROVE  FlattenSeq(T(out)) = FlattenSeq(T(items)) \o d
  <2> DEFINE e == BlocksSay(role, c)
             x == FlattenSeq(T(f))
             cb == c \o b
  <2>1. cb \in Seq(ABlocks)
    BY ConcatProperties
  <2>2. BlocksSay(role, cb) = e \o d /\ e \in Seq(AllFacts)
    BY BlocksTell
  <2> HIDE DEF cb
  <2>3. FlattenSeq(T(Append(f, AMessage(role, cb)))) = x \o BlocksSay(role, cb)
    BY <1>0, <2>1
  <2>4. FlattenSeq(T(Append(f, AMessage(role, c)))) = x \o e
    BY <1>0
  <2>5. x \in Seq(AllFacts)
    BY AMessagesTell, FlattenType
  <2>9. x \in Seq(AllFacts) /\ e \in Seq(AllFacts) /\ d \in Seq(AllFacts)
    BY <1>2, <2>2, <2>5
  <2> HIDE DEF x, e, d, T
  <2>6. (x \o e) \o d = x \o (e \o d)
    <3>1. Associates(x, e, d)
      BY <2>9, ConcatTwo
    <3> QED
      BY <3>1 DEF Associates
  <2> QED
    BY <1>4, <2>2, <2>3, <2>4, <2>6 DEF cb
<1>5. ASSUME out = Append(items, AMessage(role, b)) PROVE FlattenSeq(T(out)) = FlattenSeq(T(items)) \o d
  BY <1>0, <1>5
<1> HIDE DEF T, d
<1> HIDE DEF T, d
<1>6. FlattenSeq(T(out)) = FlattenSeq(T(items)) \o d
  <2>1. CASE \E f \in Seq(AMessages), c \in Seq(ABlocks) :
               items = Append(f, AMessage(role, c)) /\ out = Append(f, AMessage(role, c \o b))
    <3>1. PICK f \in Seq(AMessages), c \in Seq(ABlocks) :
            items = Append(f, AMessage(role, c)) /\ out = Append(f, AMessage(role, c \o b))
      BY <2>1
    <3> QED
      BY <1>4, <3>1
  <2> QED
    BY <1>1, <1>3, <1>5, <2>1 DEF Adds
<1> QED
  BY <1>6 DEF T, d

\* The blocks of an answer tell what its parts do,
LEMMA AssistantBlocks ==
  ASSUME NEW parts \in Seq(AnswerParts)
  PROVE  BlocksSay("assistant", Blocks("assistant", parts)) = Assisted(parts)
<1> DEFINE f == BlockAs("assistant")
           g == BlockTold("assistant")
<1>0. "assistant" \in Speaking /\ RoleParts("assistant") = AnswerParts /\ "assistant" \in Whos /\ NoId \in Int
      /\ Speaker("assistant") = "assistant"
  BY DEF Speaking, RoleParts, Whos, NoId, Speaker
<1>1. Gives(f, AnswerParts, ABlocks)
  BY <1>0, BlockOf
<1>2. ASSUME NEW p \in AnswerParts PROVE AsTold[p] = g[f[p]]
  <2>1. f[p] = BlockFor(p)
    BY <1>0 DEF BlockAs
  <2>2. g[f[p]] = AnthropicFacts("assistant", BlockFor(p))
    <3>1. f[p] \in ABlocks
      BY <1>1 DEF Gives
    <3> HIDE DEF f
    <3> QED
      BY <2>1, <3>1 DEF BlockTold
  <2>3. CASE p.kind = "tool"
    BY <2>2, <2>3 DEF AsTold, AnthropicFacts, BlockFor, ToolUse
  <2>4. CASE p.kind # "tool"
    <3> DEFINE w == p.text
               b == TextBlock("text", w)
    <3>1. w \in Seq(Int) /\ p.kind \in {"text", "refusal", "thinking"}
      BY <2>4, PartSpeaks
    <3>2. BlockFor(p) = b
      BY <3>1 DEF BlockFor
    <3>3. AsTold[p] = Utter("assistant", NoId, w)
      BY <2>4 DEF AsTold
    <3> HIDE DEF w
    <3>4. b.type = "text" /\ b.text = w
      BY DEF TextBlock
    <3> HIDE DEF b
    <3>5. AnthropicFacts("assistant", b) = FlattenSeq([i \in DOMAIN w |-> <<Fact("assistant", NoId, w[i])>>])
      BY <1>0, <3>4 DEF AnthropicFacts, BlockFacts, FlattenEach
    <3>6. AnthropicFacts("assistant", b) = Utter("assistant", NoId, w)
      BY <1>0, <3>1, <3>5, Utters
    <3> QED
      BY <2>2, <3>2, <3>3, <3>6
  <2> QED
    BY <2>3, <2>4
<1>3. After(AsTold, g, f, AnswerParts)
  BY <1>2 DEF After
<1> HIDE DEF f, g
<1>4. Map(g, Map(f, parts)) = Map(AsTold, parts)
  BY <1>3, MapMap
<1> QED
  BY <1>4 DEF BlocksSay, Blocks, Assisted, f, g

\* and those of the user his results and the rest.
LEMMA UserBlocksSay ==
  ASSUME NEW results \in Seq(ResultSet), NEW plain \in Seq(PlainSet)
  PROVE  /\ results \o plain \in Seq(RoleParts("user"))
         /\ BlocksSay("user", Blocks("user", results \o plain))
              = FlattenSeq(Map(ResultAs, results)) \o PlainSaid("user", NoId, plain)
<1> DEFINE f == BlockAs("user")
           g == BlockTold("user")
           h == [p \in RoleParts("user") |-> IF p.kind = "result" THEN ResultWords(p) ELSE PlainWords("user", NoId, p)]
           S == RoleParts("user")
<1>0. "user" \in Speaking /\ S = ResultSet \cup PlainSet /\ "user" \in Whos /\ NoId \in Int /\ Speaker("user") = "user"
  BY DEF Speaking, RoleParts, Whos, NoId, Speaker
<1>1. Gives(f, S, ABlocks)
  BY <1>0, BlockOf
<1>2. ASSUME NEW p \in S PROVE h[p] = g[f[p]] /\ h[p] \in Seq(AllFacts)
  <2>1. f[p] = BlockFor(p)
    BY DEF BlockAs
  <2>2. g[f[p]] = AnthropicFacts("user", BlockFor(p))
    <3>1. f[p] \in ABlocks
      BY <1>1 DEF Gives
    <3> HIDE DEF f
    <3> QED
      BY <2>1, <3>1 DEF BlockTold
  <2>3. CASE p \in ResultSet
    <3>1. p.kind = "result"
      BY <2>3 DEF ResultSet
    <3>2. BlockFor(p) = ToolResult(p.id, ContentParts("anthropic", "user", p.content), p.failed)
      BY <3>1 DEF BlockFor
    <3>3. AnthropicFacts("user", BlockFor(p)) = ResultWords(p) /\ ResultWords(p) \in Seq(AllFacts)
      BY <2>3, <3>2, ResultBlocked, ResultTold
    <3> QED
      BY <2>2, <3>1, <3>3
  <2>4. CASE p \in PlainSet
    <3> DEFINE b == BlockFor(p)
    <3>1. p.kind \notin {"result", "tool"} /\ PlainWords("user", NoId, p) \in Seq(AllFacts)
      BY <1>0, <2>4, PlainTold DEF PlainSet, TextSet, ImageSet
    <3>2. b = IF p.kind = "image" THEN PictureBlock("image", p.url) ELSE TextBlock("text", p.text)
      BY <3>1 DEF BlockFor
    <3>3. b \in PlainBlocks /\ PlainWords("user", NoId, PlainPart(b)) = PlainWords("user", NoId, p)
      <4>1. CASE p \in TextSet
        BY <3>2, <4>1 DEF TextSet, PlainBlocks, TextBlocks, TextBlock, PlainPart, Text, PlainWords
      <4>2. CASE p \in ImageSet
        BY <3>2, <4>2 DEF ImageSet, PlainBlocks, PictureBlocks, PictureBlock, PlainPart, Image, PlainWords
      <4> QED
        BY <2>4, <4>1, <4>2 DEF PlainSet
    <3> HIDE DEF b
    <3>4. b.type \in PlainTypes /\ BlockFacts("user", NoId, b) = PlainWords("user", NoId, PlainPart(b))
      BY <1>0, <3>3, PlainRead
    <3>5. AnthropicFacts("user", b) = BlockFacts("user", NoId, b)
      BY <1>0, <3>4 DEF AnthropicFacts, PlainTypes
    <3> QED
      BY <2>2, <3>1, <3>3, <3>4, <3>5 DEF b
  <2> QED
    BY <1>0, <2>3, <2>4
<1>3. After(h, g, f, S) /\ Gives(h, S, Seq(AllFacts))
  BY <1>2 DEF After, Gives
<1>4. results \in Seq(S) /\ plain \in Seq(S)
  BY <1>0, SeqOfMore
<1>5. results \o plain \in Seq(S)
  BY <1>4, ConcatProperties
<1>6. Map(h, results) = Map(ResultAs, results)
  <2>1. \A i \in DOMAIN results : results[i] \in ResultSet
    BY MembersIn
  <2>2. \A p \in ResultSet : h[p] = ResultAs[p]
    BY <1>0 DEF ResultAs, ResultSet
  <2> HIDE DEF h
  <2> QED
    BY <2>1, <2>2 DEF Map
<1>7. FlattenSeq(Map(h, plain)) = PlainSaid("user", NoId, plain)
  <2>1. \A i \in DOMAIN plain : plain[i] \in PlainSet
    BY MembersIn
  <2>2. \A p \in PlainSet : h[p] = PlainWords("user", NoId, p)
    BY <1>0 DEF PlainSet, TextSet, ImageSet
  <2> HIDE DEF h
  <2>3. Map(h, plain) = [i \in DOMAIN plain |-> PlainWords("user", NoId, plain[i])]
    BY <2>1, <2>2 DEF Map
  <2> QED
    BY <2>3 DEF PlainSaid
<1> HIDE DEF f, g, h, S
<1>8. Map(g, Map(f, results \o plain)) = Map(h, results \o plain)
  <2> DEFINE rp == results \o plain
  <2>1. rp \in Seq(S)
    BY <1>5
  <2> HIDE DEF rp
  <2>2. Map(g, Map(f, rp)) = Map(h, rp)
    BY <1>3, <2>1, MapMap
  <2> QED
    BY <2>2 DEF rp
<1>9. FlattenSeq(Map(h, results \o plain)) = FlattenSeq(Map(h, results)) \o FlattenSeq(Map(h, plain))
  BY <1>3, <1>4, FlattenMapConcat DEF Splits
<1> QED
  BY <1>5, <1>6, <1>7, <1>8, <1>9 DEF BlocksSay, Blocks, f, g, S

-----------------------------------------------------------------------------
\* What the client writes, and what it is read as: each result for itself, and what the user says
\* with them; for Anthropic all in one message.
Reads(protocol, ms) == [i \in DOMAIN ms |-> ReadMessage(protocol, ms[i])]
RoleMessages(role) == [role : {role}, parts : Seq(RoleParts(role))]
Systems == [role : {"system", "developer"}, parts : Seq(PlainSet)]
ReadSet == RoleMessages("user") \cup RoleMessages("assistant") \cup Systems

\* Several messages are read one by one.
LEMMA ReadsConcat ==
  ASSUME NEW p, NEW a, NEW b, Sequence(a), Sequence(b)
  PROVE  Reads(p, a \o b) = Reads(p, a) \o Reads(p, b)
<1> DEFINE S == ToSet(a) \cup ToSet(b)
           h == [m \in S |-> ReadMessage(p, m)]
<1>1. a \in Seq(S) /\ b \in Seq(S)
  BY SeqOfMore DEF Sequence
<1> HIDE DEF S
<1>2. a \o b \in Seq(S)
  BY <1>1, ConcatProperties
<1>3. ASSUME NEW s \in Seq(S) PROVE Reads(p, s) = Map(h, s)
  <2>1. \A i \in DOMAIN s : s[i] \in S
    BY MembersIn
  <2> QED
    BY <2>1 DEF Reads, Map
<1> HIDE DEF h
<1>4. Map(h, a \o b) = Map(h, a) \o Map(h, b)
  BY <1>1, MapConcat
<1>5. Reads(p, a) = Map(h, a) /\ Reads(p, b) = Map(h, b) /\ Reads(p, a \o b) = Map(h, a \o b)
  BY <1>1, <1>2, <1>3
<1> QED
  BY <1>4, <1>5

ResultsFor(ids, content, failed) == [i \in DOMAIN ids |-> Result(ids[i], Parts(content), failed)]
Apart == [p \in ResultSet |-> Message("user", <<p>>)]
Beyond(plain) == IF plain = <<>> THEN <<>> ELSE <<Message("user", plain)>>
UserWrites(c, blocks) ==
  CASE c = "chat" -> ChatMessage("user", blocks, <<>>, <<>>)
    [] c = "responses" -> MessageItem("user", blocks)
    [] OTHER -> AMessage("user", blocks)
OutcomeOf(c, id, content) == IF c = "chat" THEN ToolMessage(id, content) ELSE OutputItem(id, content)
Outcomes(c, ids, content) == [i \in DOMAIN ids |-> OutcomeOf(c, ids[i], content)]
Also(c, more) == IF more = <<>> THEN <<>> ELSE <<UserWrites(c, more)>>
ToolResults(ids, content, failed) == [i \in DOMAIN ids |-> ToolResult(ids[i], content, failed)]
Spoke(c, ids, content, failed, more) ==
  IF c = "anthropic" THEN <<UserWrites(c, ToolResults(ids, content, failed) \o more)>>
                     ELSE Outcomes(c, ids, content) \o Also(c, more)

\* The results of calls.
LEMMA ResultsTyped ==
  ASSUME NEW ids \in Seq(Nat), NEW content \in Seq(PlainBlocks), NEW failed \in BOOLEAN,
         NEW results, results = ResultsFor(ids, content, failed)
  PROVE  /\ results \in Seq(ResultSet) /\ Len(results) = Len(ids) /\ DOMAIN results = DOMAIN ids
         /\ \A i \in DOMAIN ids : /\ results[i].id = ids[i] /\ results[i].content = Parts(content)
                                 /\ results[i].failed = failed
<1> DEFINE parts == Parts(content)
<1>1. parts \in Seq(PlainSet)
  BY ContentRead DEF Whos, NoId
<1>2. Len(ids) \in Nat /\ DOMAIN ids = 1 .. Len(ids) /\ \A i \in DOMAIN ids : ids[i] \in Nat
  BY LenProperties, MembersIn
<1> HIDE DEF parts
<1>3. \A i \in DOMAIN ids : Result(ids[i], parts, failed) \in ResultSet
  BY <1>1, <1>2 DEF Result, ResultSet
<1>4. results = [i \in 1 .. Len(ids) |-> Result(ids[i], parts, failed)]
  BY <1>2 DEF ResultsFor, parts
<1>5. results \in Seq(ResultSet)
  <2> DEFINE n == Len(ids)
             r(i) == Result(ids[i], parts, failed)
  <2>1. n \in Nat /\ results = [i \in 1 .. n |-> r(i)] /\ \A i \in 1 .. n : r(i) \in ResultSet
    BY <1>2, <1>3, <1>4
  <2> HIDE DEF n, r
  <2>2. results \in [1 .. n -> ResultSet]
    BY <2>1
  <2> QED
    BY <2>1, <2>2
<1>6. Len(results) = Len(ids) /\ DOMAIN results = DOMAIN ids
  BY <1>2, <1>4, <1>5, LenProperties
<1> QED
  BY <1>2, <1>4, <1>5, <1>6 DEF parts, Result

\* A result of an OpenAI client is read as one and tells it,
LEMMA OutcomeRead ==
  ASSUME NEW c \in OpenAI, NEW content \in Seq(PlainBlocks), NEW p \in ResultSet,
         p.content = Parts(content), ~ p.failed, NEW m, m = OutcomeOf(c, p.id, content)
  PROVE  /\ ReadMessage(c, m) = <<Message("user", <<p>>)>>
         /\ Told(c, m) = ResultWords(p)
<1> DEFINE parts == Parts(content)
           id == p.id
<1>0. id \in Int
  BY DEF ResultSet
<1>1. parts \in Seq(PlainSet) /\ ContentFacts("result", id, content) = PlainSaid("result", id, parts)
  BY <1>0, ContentRead DEF Whos
<1>10. p = Result(id, parts, FALSE)
  BY DEF Result, ResultSet
<1> HIDE DEF parts
<1>2. p.content = parts /\ p.failed = FALSE
  BY DEF ResultSet, parts
<1> HIDE DEF id
<1>3. ResultWords(p) = PlainSaid("result", id, parts)
  <2>1. PlainSaid("result", id, parts) \in Seq(AllFacts)
    BY <1>0, <1>1, PlainsTold DEF Whos
  <2> DEFINE w == PlainSaid("result", id, parts)
  <2>2. ResultWords(p) = <<>> \o w
    BY <1>2 DEF ResultWords, id
  <2> HIDE DEF w
  <2>3. <<>> \o w = w
    BY <2>1, ConcatEmptySeq DEF w
  <2> QED
    BY <2>2, <2>3 DEF w
<1>4. CASE c = "chat"
  <2>1. m.role = "tool" /\ m.tool_call_id = id /\ m.content = content
    BY <1>4 DEF OutcomeOf, ToolMessage, ChatMessage, id
  <2>2. ReadMessage(c, m) = <<Message("user", <<p>>)>>
    BY <1>4, <1>10, <2>1 DEF ReadMessage, parts
  <2>3. Told(c, m) = ContentFacts("result", id, content)
    BY <1>4, <2>1 DEF Told, ChatFacts
  <2> QED
    BY <1>1, <1>3, <2>2, <2>3
<1>5. CASE c = "responses"
  <2>1. m.type = "function_call_output" /\ m.call_id = id /\ m.output = content
    BY <1>5 DEF OutcomeOf, OutputItem, id
  <2>2. ReadMessage(c, m) = <<Message("user", <<p>>)>>
    BY <1>5, <1>10, <2>1 DEF ReadMessage, parts
  <2>3. Told(c, m) = ContentFacts("result", id, content)
    BY <1>5, <2>1 DEF Told, ResponsesFacts
  <2> QED
    BY <1>1, <1>3, <2>2, <2>3
<1> QED
  BY <1>4, <1>5 DEF OpenAI

\* and so does a message of its user.
LEMMA UserRead ==
  ASSUME NEW c \in OpenAI, NEW blocks \in Seq(PlainBlocks), NEW m, m = UserWrites(c, blocks)
  PROVE  /\ ReadMessage(c, m) = <<Message("user", Parts(blocks))>>
         /\ Told(c, m) = PlainSaid("user", NoId, Parts(blocks))
<1> DEFINE parts == Parts(blocks)
<1>1. parts \in Seq(PlainSet) /\ ContentFacts("user", NoId, blocks) = PlainSaid("user", NoId, parts)
  BY ContentRead DEF Whos, NoId
<1> HIDE DEF parts
<1>2. CASE c = "chat"
  <2>1. m.role = "user" /\ m.content = blocks /\ m.reasoning_content = <<>> /\ m.tool_calls = <<>>
    BY <1>2 DEF UserWrites, ChatMessage
  <2>2. ThinkingOf(<<>>) = <<>> /\ ToolsOf(<<>>) = <<>>
    BY DEF ThinkingOf, ToolsOf
  <2>3. ReadMessage(c, m) = <<Message("user", <<>> \o parts \o <<>>)>>
    BY <1>2, <2>1, <2>2 DEF ReadMessage, parts
  <2>4. <<>> \o parts \o <<>> = parts
    BY <1>1, ConcatEmptySeq
  <2> DEFINE w == PlainSaid("user", NoId, parts)
             Said(x) == <<Fact("assistant", NoId, x)>>
             Called(x) == <<Fact("call", NoId, x.id)>>
  <2>6. w \in Seq(AllFacts)
    BY <1>1, PlainsTold DEF Whos, NoId
  <2>7. Told(c, m) = FlattenEach(Said, <<>>) \o ContentFacts("user", NoId, blocks) \o FlattenEach(Called, <<>>)
    BY <1>2, <2>1 DEF Told, ChatFacts, Speaker
  <2>8. FlattenEach(Said, <<>>) = <<>> /\ FlattenEach(Called, <<>>) = <<>>
    <3>1. [i \in DOMAIN <<>> |-> Said(<<>>[i])] = <<>> /\ [i \in DOMAIN <<>> |-> Called(<<>>[i])] = <<>>
      OBVIOUS
    <3> HIDE DEF Said, Called
    <3> QED
      BY <3>1, FlattenEmpty DEF FlattenEach
  <2> HIDE DEF w, Said, Called
  <2>9. <<>> \o w \o <<>> = w
    BY <2>6, ConcatEmptySeq
  <2> QED
    BY <1>1, <2>3, <2>4, <2>7, <2>8, <2>9 DEF parts, w
<1>3. CASE c = "responses"
  <2>1. m.type = "message" /\ m.role = "user" /\ m.content = blocks
    BY <1>3 DEF UserWrites, MessageItem
  <2>2. ReadMessage(c, m) = <<Message("user", parts)>>
    BY <1>3, <2>1 DEF ReadMessage, parts
  <2>3. Told(c, m) = ContentFacts("user", NoId, blocks)
    BY <1>3, <2>1 DEF Told, ResponsesFacts, Speaker
  <2> QED
    BY <1>1, <2>2, <2>3 DEF parts
<1> QED
  BY <1>2, <1>3 DEF OpenAI

\* What the client writes for the results and its own words
LEMMA OutcomesRead ==
  ASSUME NEW c \in OpenAI, NEW ids \in Seq(Nat), NEW content \in Seq(PlainBlocks),
         NEW failed \in BOOLEAN, ~ failed, NEW results, results = ResultsFor(ids, content, failed),
         NEW new, new = Outcomes(c, ids, content)
  PROVE  /\ Sequence(new) /\ Reads(c, new) \in Seq(Seq(ReadSet))
         /\ FlattenSeq(Reads(c, new)) = Map(Apart, results)
         /\ Tolds(c, new) = Map(ResultAs, results)
<1>1. /\ results \in Seq(ResultSet) /\ Len(results) = Len(ids) /\ DOMAIN results = DOMAIN ids
      /\ \A i \in DOMAIN ids : /\ results[i].id = ids[i] /\ results[i].content = Parts(content)
                              /\ results[i].failed = failed
  BY ResultsTyped
<1>2. Len(ids) \in Nat /\ DOMAIN ids = 1 .. Len(ids) /\ \A i \in DOMAIN ids : ids[i] \in Nat /\ results[i] \in ResultSet
  BY <1>1, LenProperties, MembersIn
<1>3. DOMAIN new = DOMAIN ids /\ \A i \in DOMAIN ids : new[i] = OutcomeOf(c, ids[i], content)
  BY DEF Outcomes
<1>4. Sequence(new)
  <2> DEFINE S == {OutcomeOf(c, ids[i], content) : i \in DOMAIN ids}
  <2>1. new \in Seq(S)
    BY <1>2 DEF Outcomes
  <2> HIDE DEF S
  <2> QED
    BY <2>1, IsSequence
<1>5. \A i \in DOMAIN ids : /\ ReadMessage(c, new[i]) = <<Message("user", <<results[i]>>)>>
                            /\ Told(c, new[i]) = ResultWords(results[i])
  <2> TAKE i \in DOMAIN ids
  <2>1. /\ results[i] \in ResultSet /\ results[i].content = Parts(content) /\ ~ results[i].failed
        /\ new[i] = OutcomeOf(c, results[i].id, content)
    BY <1>1, <1>2, <1>3
  <2> QED
    BY <2>1, OutcomeRead
<1> DEFINE f == [p \in ResultSet |-> <<Apart[p]>>]
<1>6. Reads(c, new) = Map(f, results)
  <2>1. \A i \in DOMAIN ids : ReadMessage(c, new[i]) = f[results[i]]
    BY <1>2, <1>5 DEF Apart
  <2> HIDE DEF f
  <2> QED
    BY <1>1, <1>3, <2>1 DEF Reads, Map
<1>7. Gives(f, ResultSet, Seq(ReadSet)) /\ Alone(f, Apart, ResultSet)
  <2>1. ASSUME NEW p \in ResultSet PROVE Apart[p] \in ReadSet /\ f[p] = <<Apart[p]>>
    <3>1. Apart[p] = Message("user", <<p>>)
      BY DEF Apart
    <3>2. <<p>> \in Seq(RoleParts("user"))
      BY DEF RoleParts
    <3>3. Message("user", <<p>>) \in RoleMessages("user")
      BY <3>2 DEF Message, RoleMessages
    <3> QED
      BY <3>1, <3>3 DEF ReadSet
  <2> HIDE DEF f
  <2>2. \A p \in ResultSet : f[p] \in Seq(ReadSet)
    <3> TAKE p \in ResultSet
    <3> DEFINE e == Apart[p]
    <3>1. e \in ReadSet /\ f[p] = <<e>>
      BY <2>1
    <3> HIDE DEF e
    <3> QED
      BY <3>1
  <2> QED
    BY <2>1, <2>2 DEF Gives, Alone
<1> HIDE DEF f
<1>8. Reads(c, new) \in Seq(Seq(ReadSet))
  BY <1>1, <1>6, <1>7, MapType
<1>9. FlattenSeq(Reads(c, new)) = Map(Apart, results)
  <2>1. FlattenSeq(Map(f, results)) = Map(Apart, results)
    BY <1>1, <1>7, FlattenSingles
  <2> QED
    BY <1>6, <2>1
<1>10. Tolds(c, new) = Map(ResultAs, results)
  <2>1. \A i \in DOMAIN ids : Told(c, new[i]) = ResultAs[results[i]]
    BY <1>2, <1>5 DEF ResultAs
  <2> QED
    BY <1>1, <1>3, <2>1 DEF Tolds, Map
<1> QED
  BY <1>4, <1>8, <1>9, <1>10

\* is read as that,
LEMMA AlsoRead ==
  ASSUME NEW c \in OpenAI, NEW more \in Seq(PlainBlocks), NEW new, new = Also(c, more),
         NEW plain, plain = Parts(more)
  PROVE  /\ Sequence(new) /\ Reads(c, new) \in Seq(Seq(ReadSet)) /\ plain \in Seq(PlainSet)
         /\ FlattenSeq(Reads(c, new)) = Beyond(plain)
         /\ Tolds(c, new) = IF plain = <<>> THEN <<>> ELSE <<PlainSaid("user", NoId, plain)>>
<1>1. plain \in Seq(PlainSet) /\ Len(plain) = Len(more) /\ Len(more) \in Nat
  BY ContentRead, LenProperties DEF Whos, NoId
<1>2. more = <<>> <=> plain = <<>>
  BY <1>1, EmptySeq
<1>3. CASE more = <<>>
  <2>1. new = <<>> /\ plain = <<>>
    BY <1>2, <1>3 DEF Also
  <2>2. Reads(c, new) = <<>> /\ Tolds(c, new) = <<>>
    BY <2>1 DEF Reads, Tolds
  <2>3. <<>> \in Seq(Seq(ReadSet)) /\ FlattenSeq(<<>>) = <<>> /\ Sequence(<<>>)
    BY FlattenEmpty, NoneHeard
  <2> QED
    BY <1>1, <2>1, <2>2, <2>3 DEF Beyond
<1>4. CASE more # <<>>
  <2> DEFINE m == UserWrites(c, more)
             r == Message("user", plain)
  <2>1. new = <<m>>
    BY <1>4 DEF Also
  <2>2. ReadMessage(c, m) = <<r>> /\ Told(c, m) = PlainSaid("user", NoId, plain)
    BY UserRead
  <2>3. r \in ReadSet
    <3>1. plain \in Seq(RoleParts("user"))
      BY <1>1, SeqOfMore DEF RoleParts
    <3> QED
      BY <3>1 DEF Message, RoleMessages, ReadSet
  <2> HIDE DEF m, r
  <2>4. Reads(c, new) = << <<r>> >> /\ Tolds(c, new) = <<PlainSaid("user", NoId, plain)>>
    BY <2>1, <2>2 DEF Reads, Tolds
  <2>5. <<r>> \in Seq(ReadSet)
    BY <2>3
  <2> DEFINE s == <<r>>
  <2>6. <<s>> \in Seq(Seq(ReadSet)) /\ FlattenSeq(<<s>>) = s
    <3>1. s \in Seq(ReadSet)
      BY <2>5
    <3> HIDE DEF s
    <3> QED
      BY <3>1, FlattenOne
  <2>7. Sequence(<<m>>)
    <3>1. <<m>> \in Seq({m})
      OBVIOUS
    <3> QED
      BY <3>1, IsSequence
  <2> QED
    BY <1>1, <1>2, <1>4, <2>1, <2>4, <2>6, <2>7 DEF Beyond, r
<1> QED
  BY <1>3, <1>4

\* What is read of what the user says
UserIsRead(c, new, results, plain) ==
  /\ Reads(c, new) \in Seq(Seq(ReadSet))
  /\ FlattenSeq(Reads(c, new)) = IF c = "anthropic" THEN <<Message("user", results \o plain)>>
                                 ELSE Map(Apart, results) \o Beyond(plain)
\* for a client of OpenAI's protocols
LEMMA SpokeOpenAI ==
  ASSUME NEW c \in OpenAI, NEW ids \in Seq(Nat), NEW content \in Seq(PlainBlocks), NEW more \in Seq(PlainBlocks),
         NEW failed \in BOOLEAN, ~ failed,
         NEW results, results = ResultsFor(ids, content, failed), NEW plain, plain = Parts(more),
         NEW new, new = Spoke(c, ids, content, failed, more)
  PROVE  /\ Sequence(new) /\ UserIsRead(c, new, results, plain)
         /\ Tolds(c, new) = OutsOf("user", results, plain)
<1> DEFINE a == Outcomes(c, ids, content)
           b == Also(c, more)
<1>1. new = a \o b
  BY DEF Spoke, OpenAI
<1>2. /\ Sequence(a) /\ Reads(c, a) \in Seq(Seq(ReadSet))
      /\ FlattenSeq(Reads(c, a)) = Map(Apart, results)
      /\ Tolds(c, a) = Map(ResultAs, results)
  BY OutcomesRead
<1>3. /\ Sequence(b) /\ Reads(c, b) \in Seq(Seq(ReadSet)) /\ plain \in Seq(PlainSet)
      /\ FlattenSeq(Reads(c, b)) = Beyond(plain)
      /\ Tolds(c, b) = IF plain = <<>> THEN <<>> ELSE <<PlainSaid("user", NoId, plain)>>
  BY AlsoRead
<1> HIDE DEF a, b
<1>4. Sequence(new) /\ Tolds(c, new) = Tolds(c, a) \o Tolds(c, b)
  <2>1. Sequence(a) /\ Sequence(b)
    BY <1>2, <1>3
  <2>2. Sequence(a \o b) /\ Tolds(c, a \o b) = Tolds(c, a) \o Tolds(c, b)
    BY <2>1, ToldsConcat
  <2> QED
    BY <1>1, <2>2
<1> DEFINE x == Reads(c, a)
           y == Reads(c, b)
<1>5. Reads(c, new) = x \o y
  <2>1. Sequence(a) /\ Sequence(b)
    BY <1>2, <1>3
  <2> QED
    BY <1>1, <2>1, ReadsConcat
<1>6. x \in Seq(Seq(ReadSet)) /\ y \in Seq(Seq(ReadSet))
  BY <1>2, <1>3
<1>7. FlattenSeq(x) = Map(Apart, results) /\ FlattenSeq(y) = Beyond(plain)
  BY <1>2, <1>3
<1> HIDE DEF x, y
<1>8. x \o y \in Seq(Seq(ReadSet)) /\ FlattenSeq(x \o y) = FlattenSeq(x) \o FlattenSeq(y)
  BY <1>6, FlattenConcat, ConcatProperties
<1>9. UserIsRead(c, new, results, plain)
  BY <1>5, <1>7, <1>8 DEF UserIsRead, OpenAI
<1> QED
  BY <1>2, <1>3, <1>4, <1>9 DEF OutsOf

\* What the blocks of an Anthropic user message are.
Answering(blocks, results, plain) ==
  /\ blocks \in Seq(ABlocks)
  /\ BlocksSay("user", blocks) = FlattenSeq(Map(ResultAs, results)) \o PlainSaid("user", NoId, plain)
  /\ \A k \in DOMAIN results :
       k \in DOMAIN blocks /\ blocks[k].type = "tool_result" /\ blocks[k].tool_use_id = results[k].id
  /\ blocks = <<>> <=> results = <<>> /\ plain = <<>>

\* The members of two sequences, one after the other.
LEMMA Joined ==
  ASSUME NEW S, NEW a \in Seq(S), NEW b \in Seq(S), NEW n, n = Len(a), NEW m, m = Len(b), NEW c, c = a \o b
  PROVE  /\ c \in Seq(S) /\ n \in Nat /\ m \in Nat /\ Len(c) = n + m /\ DOMAIN c = 1 .. n + m
         /\ DOMAIN a = 1 .. n /\ DOMAIN b = 1 .. m
         /\ \A i \in 1 .. n : c[i] = a[i]
         /\ \A i \in 1 .. m : c[n + i] = b[i]
         /\ \A i \in n + 1 .. n + m : c[i] = b[i - n]
<1>1. n \in Nat /\ m \in Nat /\ DOMAIN a = 1 .. n /\ DOMAIN b = 1 .. m
  BY LenProperties
<1>2. c \in Seq(S) /\ Len(c) = Len(a) + Len(b)
      /\ \A i \in 1 .. Len(a) + Len(b) : c[i] = IF i <= Len(a) THEN a[i] ELSE b[i - Len(a)]
  BY ConcatProperties
<1>3. c \in Seq(S) /\ Len(c) = n + m
      /\ \A i \in 1 .. n + m : c[i] = IF i <= n THEN a[i] ELSE b[i - n]
  BY <1>2
<1>4. DOMAIN c = 1 .. n + m
  BY <1>1, <1>3, LenProperties
<1>5. \A i \in 1 .. n : c[i] = a[i]
  BY <1>1, <1>3
<1>6. \A i \in n + 1 .. n + m : c[i] = b[i - n]
  BY <1>1, <1>3
<1>7. \A i \in 1 .. m : c[n + i] = b[i]
  <2> TAKE i \in 1 .. m
  <2> DEFINE k == n + i
  <2>1. k \in n + 1 .. n + m /\ k - n = i
    BY <1>1
  <2> HIDE DEF k
  <2>2. c[k] = b[k - n]
    BY <1>6, <2>1
  <2> QED
    BY <2>1, <2>2 DEF k
<1> QED
  BY <1>1, <1>3, <1>4, <1>5, <1>6, <1>7

\* The block of a result is read as it and tells it,
LEMMA ToolResultRead ==
  ASSUME NEW id \in Nat, NEW content \in Seq(PlainBlocks), NEW failed \in BOOLEAN,
         NEW p \in ResultSet, p.id = id, p.content = Parts(content), p.failed = failed,
         NEW b, b = ToolResult(id, content, failed)
  PROVE  /\ b \in ABlocks /\ b.type = "tool_result" /\ b.tool_use_id = id
         /\ Part(b) = p /\ BlockTold("user")[b] = ResultWords(p)
<1> DEFINE parts == Parts(content)
<1>1. parts \in Seq(PlainSet) /\ PlainParts(content) = parts /\ ContentFacts("result", id, content) = PlainSaid("result", id, parts)
  BY ContentRead DEF Whos
<1>2. p = Result(id, parts, failed)
  BY DEF Result, ResultSet
<1> HIDE DEF parts
<1>3. b.type = "tool_result" /\ b.tool_use_id = id /\ b.content = content /\ b.is_error = failed /\ b \in ResultBlocks
  BY DEF ToolResult, ResultBlocks
<1>4. b \in ABlocks
  BY <1>3 DEF ABlocks
<1>5. Part(b) = p
  BY <1>1, <1>2, <1>3 DEF Part
<1>6. BlockTold("user")[b] = AnthropicFacts("user", b)
  BY <1>4 DEF BlockTold
<1>7. AnthropicFacts("user", b) = (IF failed THEN <<Fact("result", id, ToolError)>> ELSE <<>>) \o ContentFacts("result", id, content)
  BY <1>3 DEF AnthropicFacts
<1>8. ResultWords(p) = (IF failed THEN <<Fact("result", id, ToolError)>> ELSE <<>>) \o PlainSaid("result", id, parts)
  BY DEF ResultWords, parts
<1> QED
  BY <1>1, <1>3, <1>4, <1>5, <1>6, <1>7, <1>8

\* and so does a plain block of the user.
LEMMA PlainBlockRead ==
  ASSUME NEW b \in PlainBlocks
  PROVE  /\ b \in ABlocks /\ Part(b) \in PlainSet
         /\ BlockTold("user")[b] = PlainWords("user", NoId, Part(b))
<1>1. /\ PlainPart(b) \in PlainSet /\ Part(b) = PlainPart(b) /\ b.type \in PlainTypes
      /\ BlockFacts("user", NoId, b) = PlainWords("user", NoId, PlainPart(b))
  BY PlainRead DEF Whos, NoId
<1>2. b.type \notin {"tool_use", "tool_result"}
  BY <1>1 DEF PlainTypes
<1>3. AnthropicFacts("user", b) = BlockFacts("user", NoId, b)
  BY <1>2 DEF AnthropicFacts, Speaker
<1>4. b \in ABlocks
  BY DEF ABlocks
<1> QED
  BY <1>1, <1>3, <1>4 DEF BlockTold

\* What an Anthropic client writes is one message.
LEMMA SpokeAnthropic ==
  ASSUME NEW ids \in Seq(Nat), NEW content \in Seq(PlainBlocks), NEW more \in Seq(PlainBlocks),
         NEW failed \in BOOLEAN, NEW results, results = ResultsFor(ids, content, failed),
         NEW plain, plain = Parts(more), NEW new, new = Spoke("anthropic", ids, content, failed, more)
  PROVE  /\ UserIsRead("anthropic", new, results, plain)
         /\ \E blocks : new = <<AMessage("user", blocks)>> /\ Answering(blocks, results, plain)
<1> DEFINE a == ToolResults(ids, content, failed)
           B == a \o more
           m == AMessage("user", B)
<1>1. new = <<m>>
  BY DEF Spoke, UserWrites
<1>2. /\ results \in Seq(ResultSet) /\ Len(results) = Len(ids) /\ DOMAIN results = DOMAIN ids
      /\ \A i \in DOMAIN ids : /\ results[i].id = ids[i] /\ results[i].content = Parts(content)
                              /\ results[i].failed = failed
  BY ResultsTyped
<1>3. plain \in Seq(PlainSet) /\ Len(plain) = Len(more) /\ Len(more) \in Nat
  BY ContentRead, LenProperties DEF Whos, NoId
<1>4. Len(ids) \in Nat /\ DOMAIN ids = 1 .. Len(ids) /\ \A i \in DOMAIN ids : ids[i] \in Nat /\ results[i] \in ResultSet
  BY <1>2, LenProperties, MembersIn
<1>5. DOMAIN a = DOMAIN ids /\ \A i \in DOMAIN ids : a[i] = ToolResult(ids[i], content, failed)
  BY DEF ToolResults
<1>6. \A i \in DOMAIN ids : /\ a[i] \in ABlocks /\ a[i].type = "tool_result" /\ a[i].tool_use_id = ids[i]
                            /\ Part(a[i]) = results[i] /\ BlockTold("user")[a[i]] = ResultWords(results[i])
  <2> TAKE i \in DOMAIN ids
  <2> DEFINE p == results[i]
             id == ids[i]
  <2>1. id \in Nat /\ p \in ResultSet /\ p.id = id /\ p.content = Parts(content) /\ p.failed = failed
        /\ a[i] = ToolResult(id, content, failed)
    BY <1>2, <1>4, <1>5
  <2> HIDE DEF p, id, a
  <2> QED
    BY <2>1, ToolResultRead DEF p, id
<1>7. a = [i \in 1 .. Len(ids) |-> ToolResult(ids[i], content, failed)]
  BY <1>4 DEF ToolResults
<1> HIDE DEF a
<1>8. a \in Seq(ABlocks) /\ Len(a) = Len(ids)
  <2>1. \A i \in 1 .. Len(ids) : ToolResult(ids[i], content, failed) \in ABlocks
    BY <1>4, <1>5, <1>6
  <2> QED
    BY <1>4, <1>7, <2>1
<1>9. DOMAIN more = 1 .. Len(more) /\ \A i \in DOMAIN more : more[i] \in PlainBlocks
  BY LenProperties, MembersIn
<1>10. \A i \in DOMAIN more : /\ more[i] \in ABlocks /\ BlockTold("user")[more[i]] = PlainWords("user", NoId, Part(more[i]))
  BY <1>9, PlainBlockRead
<1>11. more \in Seq(ABlocks)
  BY SeqOfMore DEF ABlocks
<1>12. /\ B \in Seq(ABlocks) /\ Len(B) = Len(ids) + Len(more) /\ DOMAIN B = 1 .. Len(ids) + Len(more)
       /\ \A i \in 1 .. Len(ids) : B[i] = a[i]
       /\ \A i \in Len(ids) + 1 .. Len(ids) + Len(more) : B[i] = more[i - Len(ids)]
  <2> DEFINE n == Len(ids)
             k == Len(more)
  <2>1. n = Len(a) /\ k = Len(more) /\ B = a \o more
    BY <1>8
  <2> HIDE DEF n, k, B
  <2>2. /\ B \in Seq(ABlocks) /\ Len(B) = n + k /\ DOMAIN B = 1 .. n + k
        /\ \A i \in 1 .. n : B[i] = a[i]
        /\ \A i \in n + 1 .. n + k : B[i] = more[i - n]
    <3>1. a \in Seq(ABlocks) /\ more \in Seq(ABlocks)
      BY <1>8, <1>11
    <3>2. /\ B \in Seq(ABlocks) /\ n \in Nat /\ k \in Nat /\ Len(B) = n + k /\ DOMAIN B = 1 .. n + k
          /\ DOMAIN a = 1 .. n /\ DOMAIN more = 1 .. k
          /\ \A i \in 1 .. n : B[i] = a[i]
          /\ \A i \in 1 .. k : B[n + i] = more[i]
          /\ \A i \in n + 1 .. n + k : B[i] = more[i - n]
      BY <2>1, <3>1, Joined
    <3> QED
      BY <3>2
  <2> QED
    BY <2>2 DEF n, k
<1>13. DOMAIN B = 1 .. Len(ids) + Len(more)
  BY <1>12
<1>14. DOMAIN plain = DOMAIN more /\ \A i \in DOMAIN more : plain[i] = Part(more[i])
  BY DEF Parts
<1> HIDE DEF B
<1>15. Parts(B) = results \o plain
  <2> DEFINE S == RoleParts("user")
             q == results \o plain
  <2>1. results \in Seq(S) /\ plain \in Seq(S)
    BY <1>2, <1>3, SeqOfMore DEF RoleParts
  <2> HIDE DEF S
  <2>2. /\ q \in Seq(S) /\ Len(q) = Len(ids) + Len(more)
        /\ \A i \in 1 .. Len(ids) : q[i] = results[i]
        /\ \A i \in Len(ids) + 1 .. Len(ids) + Len(more) : q[i] = plain[i - Len(ids)]
    <3> DEFINE n == Len(ids)
               k == Len(more)
    <3>1. n = Len(results) /\ k = Len(plain)
      BY <1>2, <1>3
    <3> HIDE DEF n, k
    <3>2. /\ q \in Seq(S) /\ Len(q) = n + k
          /\ \A i \in 1 .. n : q[i] = results[i]
          /\ \A i \in n + 1 .. n + k : q[i] = plain[i - n]
      BY <2>1, <3>1, Joined
    <3> QED
      BY <3>2 DEF n, k
  <2>3. DOMAIN q = 1 .. Len(ids) + Len(more) /\ q = [i \in DOMAIN q |-> q[i]]
    BY <2>2, LenProperties
  <2> HIDE DEF q
  <2>4. \A i \in 1 .. Len(ids) + Len(more) : Part(B[i]) = q[i]
    <3> TAKE i \in 1 .. Len(ids) + Len(more)
    <3>1. CASE i \in 1 .. Len(ids)
      BY <1>4, <1>6, <1>12, <2>2, <3>1
    <3>2. CASE i \in Len(ids) + 1 .. Len(ids) + Len(more)
      <4>1. i - Len(ids) \in DOMAIN more
        BY <1>3, <1>4, <1>9, <3>2
      <4> QED
        BY <1>12, <1>14, <2>2, <3>2, <4>1
    <3> QED
      BY <1>3, <1>4, <3>1, <3>2
  <2>5. Parts(B) = q
    BY <1>13, <2>3, <2>4 DEF Parts
  <2> QED
    BY <2>5 DEF q
<1>16. ReadMessage("anthropic", m) = <<Message("user", results \o plain)>>
  <2>1. m.role = "user" /\ m.content = B
    BY DEF AMessage
  <2> HIDE DEF m
  <2> QED
    BY <1>15, <2>1 DEF ReadMessage
<1>17. UserIsRead("anthropic", new, results, plain)
  <2> DEFINE r == Message("user", results \o plain)
             s == <<r>>
  <2>1. r \in ReadSet
    <3> DEFINE q == results \o plain
    <3>1. results \in Seq(RoleParts("user")) /\ plain \in Seq(RoleParts("user"))
      BY <1>2, <1>3, SeqOfMore DEF RoleParts
    <3>2. q \in Seq(RoleParts("user"))
      BY <3>1, ConcatProperties
    <3> HIDE DEF q
    <3>3. Message("user", q) \in ReadSet
      BY <3>2 DEF Message, RoleMessages, ReadSet
    <3> QED
      BY <3>3 DEF q
  <2> HIDE DEF m, r
  <2>2. s \in Seq(ReadSet)
    BY <2>1
  <2>3. Reads("anthropic", new) = <<s>>
    BY <1>1, <1>16 DEF Reads, r
  <2> HIDE DEF s
  <2>4. <<s>> \in Seq(Seq(ReadSet)) /\ FlattenSeq(<<s>>) = s
    BY <2>2, FlattenOne
  <2> QED
    BY <2>3, <2>4 DEF UserIsRead, s, r
<1>18. BlocksSay("user", B) = BlocksSay("user", a) \o BlocksSay("user", more)
  BY <1>8, <1>11, BlocksTell DEF B, Speaking
<1>19. BlocksSay("user", a) = FlattenSeq(Map(ResultAs, results))
  <2>1. \A i \in DOMAIN ids : BlockTold("user")[a[i]] = ResultAs[results[i]]
    BY <1>4, <1>6 DEF ResultAs
  <2>2. Map(BlockTold("user"), a) = Map(ResultAs, results)
    BY <1>2, <1>5, <2>1 DEF Map
  <2> QED
    BY <2>2 DEF BlocksSay
<1>20. BlocksSay("user", more) = PlainSaid("user", NoId, plain)
  <2>1. Map(BlockTold("user"), more) = [i \in DOMAIN plain |-> PlainWords("user", NoId, plain[i])]
    BY <1>10, <1>14 DEF Map
  <2> QED
    BY <2>1 DEF BlocksSay, PlainSaid
<1>21. \A k \in DOMAIN results :
         k \in DOMAIN B /\ B[k].type = "tool_result" /\ B[k].tool_use_id = results[k].id
  <2> TAKE k \in DOMAIN results
  <2>1. k \in 1 .. Len(ids) + Len(more) /\ k <= Len(ids) /\ k \in DOMAIN ids
    BY <1>2, <1>3, <1>4
  <2>2. B[k] = a[k]
    BY <1>12, <2>1
  <2> QED
    BY <1>2, <1>6, <1>13, <2>1, <2>2
<1>22. B = <<>> <=> results = <<>> /\ plain = <<>>
  <2>1. B = <<>> <=> Len(B) = 0
    BY <1>12, EmptySeq
  <2>2. results = <<>> <=> Len(ids) = 0
    BY <1>2, EmptySeq
  <2>3. plain = <<>> <=> Len(more) = 0
    BY <1>3, EmptySeq
  <2> QED
    BY <1>3, <1>4, <1>12, <2>1, <2>2, <2>3
<1>23. Answering(B, results, plain)
  BY <1>12, <1>18, <1>19, <1>20, <1>21, <1>22 DEF Answering
<1> QED
  BY <1>1, <1>17, <1>23

\* A content that has words.
Wordy(content) == \A by \in Whos, of \in Int : ContentFacts(by, of, content) # <<>>
\* What a user says is plain and not nothing.
LEMMA Uttered ==
  ASSUME client \in Protocols, NEW text \in Nat, NEW picture \in BOOLEAN, NEW blocks,
         blocks = UserBlocks(text, picture)
  PROVE  /\ blocks \in Seq(PlainBlocks) /\ blocks # <<>> /\ Len(blocks) \in Nat
         /\ Wordy(blocks)
<1> DEFINE type == CASE client = "chat" -> "text" [] client = "responses" -> "input_text" [] OTHER -> "text"
           other == CASE client = "chat" -> "image_url" [] client = "responses" -> "input_image" [] OTHER -> "image"
           a == TextBlock(type, <<text>>)
           b == PictureBlock(other, text + 1)
           rest == IF picture THEN <<b>> ELSE <<>>
<1>1. blocks = <<a>> \o rest
  BY DEF UserBlocks
<1>2. type \in {"text", "input_text"} /\ other \in {"image_url", "input_image", "image"}
  OBVIOUS
<1> HIDE DEF type, other
<1>3. a \in TextBlocks /\ a.type # "refusal" /\ a.text = <<text>>
  <2>1. <<text>> \in Seq(Int)
    OBVIOUS
  <2> QED
    BY <1>2, <2>1 DEF TextBlock, TextBlocks
<1>4. b \in PictureBlocks
  BY <1>2 DEF PictureBlock, PictureBlocks
<1> HIDE DEF a, b
<1>5. <<a>> \in Seq(PlainBlocks) /\ rest \in Seq(PlainBlocks)
  <2>1. a \in PlainBlocks /\ b \in PlainBlocks
    BY <1>3, <1>4 DEF PlainBlocks
  <2> QED
    BY <2>1
<1>6. <<a>>[1] = a /\ Len(<<a>>) = 1
  OBVIOUS
<1> HIDE DEF rest
<1>7. /\ blocks \in Seq(PlainBlocks) /\ Len(blocks) = 1 + Len(rest) /\ Len(rest) \in Nat
      /\ \A i \in 1 .. 1 : blocks[i] = <<a>>[i]
  <2> DEFINE x == <<a>>
             n == 1
             k == Len(rest)
  <2>1. x \in Seq(PlainBlocks) /\ n = Len(x) /\ k = Len(rest) /\ blocks = x \o rest
    BY <1>1, <1>5, <1>6
  <2> HIDE DEF x, n, k
  <2>2. /\ blocks \in Seq(PlainBlocks) /\ n \in Nat /\ k \in Nat /\ Len(blocks) = n + k
        /\ \A i \in 1 .. n : blocks[i] = x[i]
    BY <1>5, <2>1, Joined
  <2> QED
    BY <2>2 DEF x, n, k
<1>8. blocks[1] = a /\ 1 \in DOMAIN blocks
  BY <1>6, <1>7, LenProperties
<1>9. blocks # <<>>
  BY <1>7, EmptySeq
<1>10. ASSUME NEW by \in Whos, NEW of \in Int PROVE ContentFacts(by, of, blocks) # <<>>
  <2> DEFINE parts == Parts(blocks)
             ss == [i \in DOMAIN parts |-> PlainWords(by, of, parts[i])]
  <2>1. parts \in Seq(PlainSet) /\ ContentFacts(by, of, blocks) = PlainSaid(by, of, parts) /\ Len(parts) = Len(blocks)
    BY <1>7, ContentRead
  <2>2. DOMAIN parts = 1 .. Len(parts) /\ Len(parts) \in Nat /\ DOMAIN parts = DOMAIN blocks
    BY <2>1, LenProperties DEF Parts
  <2>3. parts[1] = Part(a)
    BY <1>8 DEF Parts
  <2> HIDE DEF parts
  <2>4. PlainWords(by, of, parts[1]) = Utter(by, of, <<text>>)
    <3>1. Part(a) = PlainPart(a) /\ a \in PlainBlocks
      BY <1>3, PlainRead DEF PlainBlocks, Whos
    <3>2. PlainPart(a) = Text(<<text>>)
      BY <1>2, <1>3 DEF PlainPart, a, TextBlock
    <3> QED
      BY <2>3, <3>1, <3>2 DEF PlainWords, Text
  <2>5. Utter(by, of, <<text>>) # <<>>
    <3> DEFINE t == <<text>>
    <3>1. t \in Seq(Int) /\ Len(t) = 1
      OBVIOUS
    <3> HIDE DEF t
    <3>2. Utter(by, of, t) \in Seq(AllFacts) /\ Len(Utter(by, of, t)) = 1
      BY <3>1, Utters
    <3> DEFINE u == Utter(by, of, t)
    <3> HIDE DEF u
    <3>3. u \in Seq(AllFacts) /\ Len(u) # 0
      BY <3>2 DEF u
    <3>4. u # <<>>
      BY <3>3, EmptySeq
    <3> QED
      BY <3>4 DEF t, u
  <2>6. ss \in Seq(Seq(AllFacts))
    <3>1. \A i \in 1 .. Len(parts) : PlainWords(by, of, parts[i]) \in Seq(AllFacts)
      BY <2>1, <2>2, MembersIn, PlainTold
    <3> QED
      BY <2>2, <3>1
  <2>7. 1 \in DOMAIN ss /\ ss[1] # <<>>
    BY <1>8, <2>2, <2>4, <2>5
  <2>8. PlainSaid(by, of, parts) = FlattenSeq(ss)
    BY DEF PlainSaid
  <2> HIDE DEF ss
  <2>9. FlattenSeq(ss) # <<>>
    BY <2>6, <2>7, FlattenNone
  <2> QED
    BY <2>1, <2>8, <2>9
<1> QED
  BY <1>7, <1>9, <1>10 DEF Wordy

\* What the client says of results: as they tell it, and for each something.
Reported(ids, content, failed) ==
  FlattenSeq([i \in DOMAIN ids |->
    (IF failed THEN <<Fact("result", ids[i], ToolError)>> ELSE <<>>) \o ContentFacts("result", ids[i], content)])

\* Results with readable content are told so, and none of them is silent.
LEMMA ResultsSaid ==
  ASSUME NEW ids \in Seq(Nat), NEW content \in Seq(PlainBlocks), NEW failed \in BOOLEAN,
         Wordy(content), NEW results, results = ResultsFor(ids, content, failed)
  PROVE  /\ Reported(ids, content, failed) = FlattenSeq(Map(ResultAs, results))
         /\ \A i \in DOMAIN results : results[i].id = ids[i] /\ ResultWords(results[i]) # <<>>
<1>1. /\ results \in Seq(ResultSet) /\ Len(results) = Len(ids) /\ DOMAIN results = DOMAIN ids
      /\ \A i \in DOMAIN ids : /\ results[i].id = ids[i] /\ results[i].content = Parts(content)
                              /\ results[i].failed = failed
  BY ResultsTyped
<1>2. \A i \in DOMAIN ids : ids[i] \in Nat /\ results[i] \in ResultSet
  BY <1>1, MembersIn
<1>3. ASSUME NEW i \in DOMAIN ids
      PROVE  /\ (IF failed THEN <<Fact("result", ids[i], ToolError)>> ELSE <<>>) \o ContentFacts("result", ids[i], content)
                  = ResultWords(results[i])
             /\ ResultWords(results[i]) # <<>>
  <2> DEFINE id == ids[i]
             w == ContentFacts("result", id, content)
             f == IF failed THEN <<Fact("result", id, ToolError)>> ELSE <<>>
             p == results[i]
  <2>1. id \in Nat /\ id \in Int /\ "result" \in Whos /\ p.id = id /\ p.content = Parts(content) /\ p.failed = failed
    BY <1>1, <1>2 DEF Whos
  <2> HIDE DEF id, p
  <2>2. w = PlainSaid("result", id, Parts(content)) /\ Parts(content) \in Seq(PlainSet) /\ w # <<>>
    BY <2>1, ContentRead DEF Wordy
  <2>3. f \o w = ResultWords(p)
    BY <2>1, <2>2 DEF ResultWords
  <2>4. w \in Seq(AllFacts)
    BY <2>1, <2>2, PlainsTold
  <2>5. f \in Seq(AllFacts)
    <3>1. Fact("result", id, ToolError) \in AllFacts
      BY <2>1 DEF Fact, AllFacts, ToolError
    <3> DEFINE e == Fact("result", id, ToolError)
    <3> HIDE DEF e
    <3>2. <<e>> \in Seq(AllFacts)
      BY <3>1 DEF e
    <3> QED
      BY <3>2 DEF e
  <2> HIDE DEF f, w
  <2>6. f \o w # <<>>
    <3>1. Len(f \o w) = Len(f) + Len(w) /\ Len(f) \in Nat /\ Len(w) \in Nat /\ Len(w) # 0
      BY <2>2, <2>4, <2>5, ConcatProperties, LenProperties, EmptySeq
    <3>2. Len(f \o w) # 0 /\ f \o w \in Seq(AllFacts)
      BY <2>4, <2>5, <3>1, ConcatProperties
    <3> QED
      BY <3>2, EmptySeq
  <2> QED
    BY <2>3, <2>6 DEF f, w, id, p
<1>4. \A i \in DOMAIN ids : ResultAs[results[i]] = ResultWords(results[i])
  BY <1>2 DEF ResultAs
<1> DEFINE Of(id) == (IF failed THEN <<Fact("result", id, ToolError)>> ELSE <<>>) \o ContentFacts("result", id, content)
<1>5. \A i \in DOMAIN ids : Of(ids[i]) = ResultWords(results[i])
  BY <1>3
<1> HIDE DEF Of
<1>6. [i \in DOMAIN ids |-> Of(ids[i])] = Map(ResultAs, results)
  BY <1>1, <1>4, <1>5 DEF Map
<1> QED
  BY <1>1, <1>3, <1>6 DEF Of, Reported
=============================================================================
