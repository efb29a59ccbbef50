---------------------------- MODULE ProcessProofs ----------------------------
(***************************************************************************)
(* What is proved of the program's processes, one after the other or at    *)
(* once: of their log in memory (RuntimeLog) and of their launches on one  *)
(* data directory (Launch).  The two share no state; neither part uses a   *)
(* definition of the other.                                                *)
(*                                                                         *)
(* The runtime log and its page, for every capacity and any number of      *)
(* entries, restarts, failed polls and lost bodies.  What the page keeps   *)
(* is determined by numbers alone: the ring, a reply and the page are each *)
(* a run of one process's entries up to a last number (IsRun), and what    *)
(* has to be kept is how those last numbers are ordered.                   *)
(*                                                                         *)
(* Launches, for any number of them and of secrets.  One inductive         *)
(* invariant, LaunchInv, carries their properties.  Its heart is           *)
(* KeySettled: unless two launches raced, a launch that is creating the    *)
(* key is the only one, the file is whole as soon as any launch uses a     *)
(* generated key, and that key, the file's and the database's are then     *)
(* one and the same.                                                       *)
(***************************************************************************)
EXTENDS RuntimeLog, Launch, SequenceTheorems, TLAPS

-----------------------------------------------------------------------------
(* Runs of entries.                                                        *)

\* s holds entries of process p, one after the other, the last one numbered n.
IsRun(s, p, n) ==
  /\ s \in Seq(Entry)
  /\ \A k \in 1 .. Len(s) : s[k].process = p /\ s[k].id = n - Len(s) + k

(* The last entries of a run are a run, as long as asked for or all of it. *)
LEMMA NewestOfRun ==
  ASSUME NEW s \in Seq(Entry), NEW p, NEW n \in Nat, IsRun(s, p, n), NEW c \in Nat
  PROVE  /\ IsRun(Newest(s, c), p, n)
         /\ Len(Newest(s, c)) = IF Len(s) > c THEN c ELSE Len(s)
<1> DEFINE first == IF Len(s) > c THEN Len(s) - c + 1 ELSE 1
           t == SubSeq(s, first, Len(s))
<1>1. Len(s) \in Nat /\ first \in Nat /\ first >= 1
  BY SMT
<1>2. Len(s) - first + 1 = IF Len(s) > c THEN c ELSE Len(s)
  BY <1>1, SMT
<1>3. \A k \in first .. Len(s) : s[k] \in Entry
  BY <1>1, SMT
<1> HIDE DEF first
<1>4. /\ t \in Seq(Entry)
      /\ Len(t) = IF first <= Len(s) THEN Len(s) - first + 1 ELSE 0
      /\ \A k \in 1 .. Len(s) - first + 1 : t[k] = s[first + k - 1]
  BY <1>1, <1>3, SubSeqProperties
<1> HIDE DEF t
<1>5. Len(t) = Len(s) - first + 1 /\ Len(t) \in Nat
  BY <1>1, <1>2, <1>4, SMT
<1>6. \A k \in 1 .. Len(t) : t[k].process = p /\ t[k].id = n - Len(t) + k
  <2> SUFFICES ASSUME NEW k \in 1 .. Len(t)
               PROVE  t[k].process = p /\ t[k].id = n - Len(t) + k
    OBVIOUS
  <2>1. t[k] = s[first + k - 1] /\ first + k - 1 \in 1 .. Len(s)
    BY <1>1, <1>4, <1>5, SMT
  <2>2. t[k].process = p /\ t[k].id = n - Len(s) + (first + k - 1)
    BY <2>1 DEF IsRun
  <2>3. n - Len(s) + (first + k - 1) = n - Len(t) + k
    BY <1>1, <1>5, SMT
  <2> QED
    BY <2>2, <2>3
<1>7. t = Newest(s, c)
  BY DEF t, first, Newest
<1> QED
  BY <1>2, <1>4, <1>5, <1>6, <1>7 DEF IsRun

(* A run that starts where another ends continues it.                      *)
LEMMA RunsJoin ==
  ASSUME NEW s, NEW t, NEW p, NEW m \in Nat, NEW n \in Nat,
         IsRun(s, p, m), IsRun(t, p, n), n - Len(t) = m
  PROVE  IsRun(s \o t, p, n) /\ Len(s \o t) = Len(s) + Len(t)
<1>1. s \in Seq(Entry) /\ t \in Seq(Entry)
  BY DEF IsRun
<1>2. s \o t \in Seq(Entry) /\ Len(s \o t) = Len(s) + Len(t)
  BY <1>1, SMT
<1>3. ASSUME NEW k \in 1 .. Len(s \o t)
      PROVE  (s \o t)[k].process = p /\ (s \o t)[k].id = n - Len(s \o t) + k
  <2>1. CASE k <= Len(s)
    <3>1. (s \o t)[k] = s[k] /\ k \in 1 .. Len(s)
      BY <1>1, <2>1, SMT
    <3>2. s[k].process = p /\ s[k].id = m - Len(s) + k
      BY <3>1 DEF IsRun
    <3> QED
      BY <1>1, <1>2, <3>1, <3>2, SMT
  <2>2. CASE k > Len(s)
    <3>1. (s \o t)[k] = t[k - Len(s)] /\ k - Len(s) \in 1 .. Len(t)
      BY <1>1, <1>2, <2>2, SMT
    <3>2. t[k - Len(s)].process = p /\ t[k - Len(s)].id = n - Len(t) + (k - Len(s))
      BY <3>1 DEF IsRun
    <3> QED
      BY <1>1, <1>2, <3>1, <3>2, SMT
  <2> QED
    BY <1>1, <1>2, <2>1, <2>2, SMT
<1> QED
  BY <1>2, <1>3 DEF IsRun

(* A reply that is as long as the page keeps replaces what is before it.   *)
LEMMA NewestOfFull ==
  ASSUME NEW s \in Seq(Entry), NEW t \in Seq(Entry), Len(t) = Capacity
  PROVE  Newest(s \o t, Capacity) = t
<1>1. Capacity \in Nat \ {0}
  BY RuntimeLogAssumption
<1>2. Len(s \o t) = Len(s) + Len(t) /\ Len(s) \in Nat
  BY SMT
<1> DEFINE first == IF Len(s \o t) > Capacity THEN Len(s \o t) - Capacity + 1 ELSE 1
           u == SubSeq(s \o t, first, Len(s \o t))
<1>3. first = Len(s) + 1
  BY <1>1, <1>2, SMT
<1>4. u \in Seq(Entry) /\ Len(u) = Capacity
  BY <1>1, <1>2, <1>3, SMT
<1>5. \A k \in 1 .. Capacity : u[k] = t[k]
  <2> SUFFICES ASSUME NEW k \in 1 .. Capacity PROVE u[k] = t[k]
    OBVIOUS
  <2>1. u[k] = (s \o t)[Len(s) + k]
    BY <1>1, <1>2, <1>3, SMT
  <2>2. (s \o t)[Len(s) + k] = t[k]
    BY <1>1, <1>2, SMT
  <2> QED
    BY <2>1, <2>2
<1>6. u = t
  <2> HIDE DEF u
  <2> QED
    BY <1>4, <1>5, SeqEqual
<1> QED
  BY <1>6 DEF Newest

(* The entries of a run numbered after a number are all of it, or start    *)
(* with the next number.                                                   *)
LEMMA TailOfRun ==
  ASSUME IsRun(items, process, next), next \in Nat, NEW after \in Nat
  PROVE  LET d == ItemsAfter(after) IN
         /\ IsRun(d, process, next)
         /\ Len(d) <= Len(items)
         /\ \/ after < next - Len(items) /\ d = items
            \/ next <= after /\ d = <<>>
            \/ next - Len(items) <= after /\ after < next /\ Len(d) = next - after
<1>1. items \in Seq(Entry) /\ Len(items) \in Nat
  BY SMT DEF IsRun
<1> DEFINE Splits(k) == \A j \in 1 .. Len(items) : j >= k <=> items[j].id >= after + 1
           want == IF after < next - Len(items) THEN 1
                   ELSE IF next <= after THEN Len(items) + 1
                   ELSE after + 1 - next + Len(items)
           first == CHOOSE k \in 1 .. Len(items) + 1 : Splits(k)
<1>2. want \in 1 .. Len(items) + 1
  BY <1>1, SMT
<1>3. \A j \in 1 .. Len(items) : items[j].id = next - Len(items) + j
  BY DEF IsRun
<1>4. Splits(want)
  BY <1>1, <1>3, SMT
<1>5. first \in 1 .. Len(items) + 1 /\ Splits(first)
  BY <1>2, <1>4
<1>6. first = want
  <2> HIDE DEF first, want
  <2>1. CASE first < want
    <3>1. first \in 1 .. Len(items) /\ first >= first /\ ~ (first >= want)
      BY <1>1, <1>2, <1>5, <2>1, SMT
    <3> QED
      BY <1>4, <1>5, <3>1
  <2>2. CASE want < first
    <3>1. want \in 1 .. Len(items) /\ want >= want /\ ~ (want >= first)
      BY <1>1, <1>2, <1>5, <2>2, SMT
    <3> QED
      BY <1>4, <1>5, <3>1
  <2> QED
    BY <1>1, <1>2, <1>5, <2>1, <2>2, SMT
<1> DEFINE d == SubSeq(items, want, Len(items))
<1>7. ItemsAfter(after) = d
  BY <1>6 DEF ItemsAfter, TailFrom
<1>8. d \in Seq(Entry) /\ Len(d) = Len(items) + 1 - want
  <2> HIDE DEF want
  <2>1. \A k \in want .. Len(items) : items[k] \in Entry
    BY <1>1, <1>2, SMT
  <2>2. want \in Int /\ Len(items) \in Int
    BY <1>1, <1>2, SMT
  <2>3. d \in Seq(Entry) /\ Len(d) = IF want <= Len(items) THEN Len(items) - want + 1 ELSE 0
    BY <2>1, <2>2, SubSeqProperties
  <2> QED
    BY <1>1, <1>2, <2>2, <2>3, SMT
<1>9. \A k \in 1 .. Len(d) : d[k].process = process /\ d[k].id = next - Len(d) + k
  <2> SUFFICES ASSUME NEW k \in 1 .. Len(d)
               PROVE  d[k].process = process /\ d[k].id = next - Len(d) + k
    OBVIOUS
  <2> HIDE DEF want
  <2>1. d[k] = items[want + k - 1] /\ want + k - 1 \in 1 .. Len(items)
    BY <1>1, <1>2, <1>8, SMT
  <2>2. d[k].process = process /\ d[k].id = next - Len(items) + (want + k - 1)
    BY <2>1 DEF IsRun
  <2> QED
    BY <1>1, <1>2, <1>8, <2>2, SMT
<1>10. IsRun(d, process, next) /\ Len(d) <= Len(items)
  <2> HIDE DEF d, want
  <2>1. IsRun(d, process, next)
    BY <1>8, <1>9 DEF IsRun
  <2> QED
    BY <1>1, <1>2, <1>8, <2>1, SMT
<1>11. CASE after < next - Len(items)
  <2>1. want = 1
    BY <1>11
  <2>2. d = items
    <3> HIDE DEF want
    <3> QED
      BY <1>1, <2>1, SubSeqFull
  <2> QED
    BY <1>7, <1>10, <1>11, <2>2
<1>12. CASE next <= after
  <2>1. want = Len(items) + 1
    BY <1>1, <1>12, SMT
  <2>2. Len(d) = 0
    BY <1>1, <1>8, <2>1, SMT
  <2>3. d = <<>>
    <3> HIDE DEF d
    <3> QED
      BY <1>8, <2>2, EmptySeq, SMT
  <2> QED
    BY <1>7, <1>10, <1>12, <2>3
<1>13. CASE next - Len(items) <= after /\ after < next
  <2>1. Len(d) = next - after
    BY <1>1, <1>8, <1>13, SMT
  <2> QED
    BY <1>7, <1>10, <1>13, <2>1
<1> QED
  BY <1>1, <1>11, <1>12, <1>13, SMT

(* The number of a run that is not empty is at least its length, and the   *)
(* number of its last entry.                                               *)
LEMMA RunNumber ==
  ASSUME NEW s, NEW p, NEW n \in Nat, IsRun(s, p, n), Len(s) > 0
  PROVE  n >= Len(s) /\ n \in 1 .. MaxEntries /\ s[Len(s)].id = n /\ s # <<>>
<1>1. s \in Seq(Entry) /\ Len(s) \in Nat
  BY SMT DEF IsRun
<1>2. 1 \in 1 .. Len(s) /\ Len(s) \in 1 .. Len(s)
  BY <1>1, SMT
<1>3. s[1] \in Entry /\ s[Len(s)] \in Entry
  BY <1>1, <1>2, SMT
<1>4. s[1].id = n - Len(s) + 1 /\ s[Len(s)].id = n - Len(s) + Len(s)
  BY <1>2 DEF IsRun
<1>5. s # <<>>
  BY SMT
<1> QED
  BY <1>1, <1>3, <1>4, <1>5, RuntimeLogAssumption, SMT DEF Entry

LEMMA EmptyRun == ASSUME NEW p, NEW n \in Nat PROVE IsRun(<<>>, p, n) /\ Len(<<>>) = 0
  BY SMT DEF IsRun

LEMMA NoEntries == ASSUME NEW s \in Seq(Entry), Len(s) = 0 PROVE s = <<>>
  BY SMT

LEMMA RunBelow == ASSUME NEW s, NEW p, NEW n, IsRun(s, p, n), s = <<>>, NEW m \in Nat
                  PROVE  IsRun(s, p, m)
  BY EmptyRun

(* A run ends with its number, and has none when it is empty.              *)
LEMMA LastIdOfRun ==
  ASSUME NEW s, NEW p, NEW n \in Nat, IsRun(s, p, n)
  PROVE  /\ IsRun(s, p, LastId(s))
         /\ LastId(s) \in 0 .. MaxEntries
         /\ LastId(s) = IF Len(s) = 0 THEN 0 ELSE n
         /\ s = <<>> <=> LastId(s) = 0
<1>1. s \in Seq(Entry) /\ Len(s) \in Nat
  BY SMT DEF IsRun
<1>2. CASE Len(s) = 0
  <2>1. s = <<>> /\ LastId(s) = 0
    BY <1>1, <1>2, NoEntries DEF LastId
  <2> QED
    BY <1>2, <2>1, EmptyRun, RuntimeLogAssumption, SMT
<1>3. CASE Len(s) > 0
  <2>1. s # <<>> /\ n \in 1 .. MaxEntries /\ s[Len(s)].id = n
    BY <1>3, RunNumber
  <2>2. LastId(s) = n
    BY <2>1 DEF LastId
  <2> QED
    BY <1>3, <2>1, <2>2, RuntimeLogAssumption, SMT
<1> QED
  BY <1>1, <1>2, <1>3, SMT

-----------------------------------------------------------------------------
(* The inductive invariant.                                                *)

\* A log of which all is kept that the capacity allows, up to number n.
Full(s, n) == Len(s) = Capacity \/ Len(s) = n

\* The ring holds the last entries of the running process.
RingInv == IsRun(items, process, next) /\ Full(items, next)

\* The page's entries are a run that ends with the number it asks from, and
\* all of one process: the one its last reply came from.
HeldInv ==
  /\ IsRun(logs, source.process, lastLogId)
  /\ logs = <<>> <=> lastLogId = 0
  /\ lastLogId <= source.next
  /\ generation = NoGeneration => logs = <<>>
  /\ generation \in Nat => generation = source.process
  /\ ~ patched /\ source.process # 0 => lastLogId = source.next /\ Full(logs, source.next)

\* That reply is not newer than the log.
PastInv ==
  /\ source.process <= process
  /\ source.process = process => source.next <= next

\* A request asks from the page's last number; a reply under way was made after
\* the one before it, and what it holds follows the number asked from or is as
\* much as the page keeps.
CallInv ==
  /\ busy => call.after = lastLogId
  /\ call.phase = "answered" =>
       /\ IsRun(call.data, call.process, call.next)
       /\ call.process <= process
       /\ call.process = process => call.next <= next
       /\ source.process = call.process => source.next <= call.next
       /\ \/ Len(call.data) = Capacity
          \/ call.after <= call.next /\ Len(call.data) = call.next - call.after
          \/ call.next <= call.after /\ Len(call.data) = 0

IInv == TypeOK /\ RingInv /\ HeldInv /\ PastInv /\ CallInv /\ OnePollDue

-----------------------------------------------------------------------------
(* The server.                                                             *)

LEMMA InitInv == Init => IInv
<1> SUFFICES ASSUME Init PROVE IInv
  OBVIOUS
<1> USE DEF Init
<1>1. <<>> \in EntrySeq(Capacity)
  BY RuntimeLogAssumption, SMT DEF EntrySeq
<1>2. call \in Calls
  BY DEF Calls
<1>3. TypeOK
  <2>1. /\ process \in 1 .. MaxProcesses /\ next \in 0 .. MaxEntries
        /\ lastLogId \in 0 .. MaxEntries
        /\ source \in [process : 0 .. MaxProcesses, next : 0 .. MaxEntries]
    BY RuntimeLogAssumption, SMT
  <2> QED
    BY <1>1, <1>2, <2>1 DEF TypeOK
<1>4. RingInv /\ HeldInv
  <2>1. IsRun(items, process, next) /\ IsRun(logs, source.process, lastLogId)
    BY EmptyRun
  <2> QED
    BY <2>1, EmptyRun, RuntimeLogAssumption, SMT DEF RingInv, HeldInv, Full
<1>5. PastInv /\ CallInv
  BY SMT DEF PastInv, CallInv, busy, Idle
<1>6. OnePollDue
  BY DEF OnePollDue, busy, Idle
<1> QED
  BY <1>3, <1>4, <1>5, <1>6 DEF IInv

LEMMA AddInv == ASSUME IInv, add PROVE IInv'
<1> DEFINE e == [process |-> process, id |-> next + 1]
           s == IF Len(items) = Capacity THEN Tail(items) ELSE items
<1>1. /\ items \in Seq(Entry) /\ Len(items) \in Nat /\ Len(items) <= Capacity
      /\ next \in Nat /\ process \in 1 .. MaxProcesses /\ next + 1 \in 1 .. MaxEntries
      /\ Capacity \in Nat \ {0}
  BY RuntimeLogAssumption, SMT DEF IInv, TypeOK, EntrySeq, add
<1>2. e \in Entry
  BY <1>1 DEF Entry
<1>3. next' = next + 1 /\ items' = Append(s, e) /\ process' = process
  BY DEF add, Keep
<1>4. IsRun(items, process, next) /\ Full(items, next)
  BY DEF IInv, RingInv
<1>5. /\ s \in Seq(Entry) /\ Len(s) \in Nat /\ Len(s) < Capacity
      /\ Len(s) = next \/ Len(s) = Capacity - 1
      /\ \A k \in 1 .. Len(s) : s[k].process = process /\ s[k].id = next - Len(s) + k
  <2>1. CASE Len(items) = Capacity
    <3>1. s = Tail(items) /\ items # <<>>
      BY <1>1, <2>1, EmptySeq, SMT
    <3>2. /\ s \in Seq(Entry) /\ Len(s) = Capacity - 1
          /\ \A k \in 1 .. Len(s) : s[k] = items[k + 1] /\ k + 1 \in 1 .. Len(items)
      <4> HIDE DEF s
      <4>1. /\ s \in Seq(Entry) /\ Len(s) = Len(items) - 1
            /\ \A k \in 1 .. Len(s) : s[k] = items[k + 1]
        BY <1>1, <3>1, HeadTailProperties
      <4> QED
        BY <1>1, <2>1, <4>1, SMT
    <3>3. ASSUME NEW k \in 1 .. Len(s)
          PROVE  s[k].process = process /\ s[k].id = next - Len(s) + k
      <4>1. s[k].process = process /\ s[k].id = next - Len(items) + (k + 1)
        BY <1>4, <3>2 DEF IsRun
      <4> HIDE DEF s
      <4> QED
        BY <1>1, <2>1, <3>2, <4>1, SMT
    <3> HIDE DEF s
    <3> QED
      BY <1>1, <3>2, <3>3, SMT
  <2>2. CASE Len(items) # Capacity
    <3>1. s = items
      BY <2>2
    <3>2. \A k \in 1 .. Len(items) :
            items[k].process = process /\ items[k].id = next - Len(items) + k
      BY <1>4 DEF IsRun
    <3>3. Len(items) = next
      BY <1>4, <2>2 DEF Full
    <3> HIDE DEF s
    <3>4. Len(s) < Capacity /\ Len(s) = next
      BY <1>1, <2>2, <3>1, <3>3, SMT
    <3> QED
      BY <1>1, <3>1, <3>2, <3>4
  <2> QED
    BY <2>1, <2>2
<1> HIDE DEF e, s
<1>6. items' \in Seq(Entry) /\ Len(items') = Len(s) + 1
  BY <1>2, <1>3, <1>5, SMT
<1>7. \A k \in 1 .. Len(items') : items'[k] = IF k <= Len(s) THEN s[k] ELSE e
  BY <1>2, <1>3, <1>5, <1>6, SMT
<1>8. IsRun(items', process', next')
  <2>1. e.process = process /\ e.id = next + 1
    BY DEF e
  <2>2. ASSUME NEW k \in 1 .. Len(items')
        PROVE  items'[k].process = process /\ items'[k].id = (next + 1) - Len(items') + k
    <3>1. CASE k <= Len(s)
      <4>1. items'[k] = s[k] /\ k \in 1 .. Len(s)
        BY <1>5, <1>6, <1>7, <3>1, SMT
      <4>2. s[k].process = process /\ s[k].id = next - Len(s) + k
        BY <1>5, <4>1
      <4> QED
        BY <1>1, <1>5, <1>6, <4>1, <4>2, SMT
    <3>2. CASE k > Len(s)
      <4>1. items'[k] = e /\ k = Len(items')
        BY <1>5, <1>6, <1>7, <3>2, SMT
      <4> QED
        BY <1>1, <2>1, <4>1, SMT
    <3> QED
      BY <1>5, <1>6, <3>1, <3>2, SMT
  <2>3. \A k \in 1 .. Len(items') :
          items'[k].process = process /\ items'[k].id = (next + 1) - Len(items') + k
    BY <2>2
  <2>4. IsRun(items', process, next + 1)
    BY <1>6, <2>3 DEF IsRun
  <2> QED
    BY <1>3, <2>4
<1>9. RingInv'
  BY <1>1, <1>3, <1>5, <1>6, <1>8, SMT DEF RingInv, Full
<1>10. items' \in EntrySeq(Capacity) /\ next' \in 0 .. MaxEntries
  BY <1>1, <1>3, <1>5, <1>6, SMT DEF EntrySeq
<1>11. UNCHANGED <<process, pageVars, call>>
  BY DEF add
<1>12. TypeOK'
  BY <1>10, <1>11 DEF IInv, TypeOK, pageVars
<1>13. HeldInv' /\ OnePollDue'
  BY <1>11 DEF IInv, HeldInv, Full, OnePollDue, busy, pageVars
<1>14. PastInv'
  BY <1>1, <1>3, <1>11, SMT DEF IInv, PastInv, TypeOK, pageVars
<1>15. CallInv'
  <2>1. call.phase = "answered" => call.next \in Nat
    BY SMT DEF IInv, TypeOK, Calls, Idle
  <2> QED
    BY <1>1, <1>3, <1>11, <2>1, SMT DEF IInv, CallInv, busy, pageVars
<1> QED
  BY <1>9, <1>12, <1>13, <1>14, <1>15 DEF IInv

LEMMA RestartInv == ASSUME IInv, Restart PROVE IInv'
<1>1. /\ process' = process + 1 /\ next' = 0 /\ items' = <<>> /\ process < MaxProcesses
      /\ UNCHANGED <<pageVars, call>>
  BY DEF Restart
<1>2. process \in 1 .. MaxProcesses /\ MaxProcesses \in Nat /\ source.process \in Nat
  BY RuntimeLogAssumption, SMT DEF IInv, TypeOK
<1>3. call.phase = "answered" => call.process \in Nat
  BY SMT DEF IInv, TypeOK, Calls, Idle
<1>4. <<>> \in EntrySeq(Capacity)
  BY RuntimeLogAssumption, SMT DEF EntrySeq
<1>5. process' \in 1 .. MaxProcesses /\ next' \in 0 .. MaxEntries
  BY <1>1, <1>2, RuntimeLogAssumption, SMT
<1>6. TypeOK'
  BY <1>1, <1>4, <1>5 DEF IInv, TypeOK, pageVars
<1>7. RingInv'
  BY <1>1, EmptyRun DEF RingInv, Full
<1>8. HeldInv' /\ OnePollDue'
  BY <1>1 DEF IInv, HeldInv, Full, OnePollDue, busy, pageVars
<1>9. PastInv'
  BY <1>1, <1>2, SMT DEF IInv, PastInv, pageVars
<1>10. CallInv'
  BY <1>1, <1>2, <1>3, SMT DEF IInv, CallInv, busy, pageVars
<1> QED
  BY <1>6, <1>7, <1>8, <1>9, <1>10 DEF IInv

LEMMA ListInv == ASSUME IInv, listRuntimeLogs PROVE IInv'
<1> DEFINE d == ItemsAfter(call.after)
<1>1. /\ call.phase = "sent"
      /\ call' = Answered(call.by, call.after, process, next, d)
      /\ UNCHANGED <<serverVars, pageVars>>
  BY DEF listRuntimeLogs
<1>2. call.by \in {"poll", "button"} /\ call.after \in 0 .. MaxEntries
  BY <1>1, SMT DEF IInv, TypeOK, Calls, Idle
<1>3. /\ process \in 1 .. MaxProcesses /\ next \in 0 .. MaxEntries
      /\ Len(items) \in Nat /\ Len(items) <= Capacity /\ Capacity \in Nat
      /\ IsRun(items, process, next) /\ Full(items, next)
  BY RuntimeLogAssumption, SMT DEF IInv, RingInv, TypeOK, EntrySeq
<1>4. call.after \in Nat /\ next \in Nat
  BY <1>2, <1>3, SMT
<1>5. /\ IsRun(d, process, next)
      /\ Len(d) <= Len(items)
      /\ \/ call.after < next - Len(items) /\ d = items
         \/ next <= call.after /\ d = <<>>
         \/ next - Len(items) <= call.after /\ call.after < next /\ Len(d) = next - call.after
  BY <1>3, <1>4, TailOfRun
<1> HIDE DEF d
<1>6. d \in EntrySeq(Capacity)
  BY <1>3, <1>5, SMT DEF IsRun, EntrySeq
<1>7. /\ call'.phase = "answered" /\ call'.by = call.by /\ call'.after = call.after
      /\ call'.process = process /\ call'.next = next /\ call'.data = d
  BY <1>1 DEF Answered
<1>8. call' \in Calls
  BY <1>1, <1>2, <1>3, <1>6, SMT DEF Calls, Answered
<1>9. TypeOK'
  BY <1>1, <1>8 DEF IInv, TypeOK, serverVars, pageVars
<1>10. RingInv' /\ HeldInv' /\ PastInv'
  BY <1>1 DEF IInv, RingInv, HeldInv, PastInv, Full, serverVars, pageVars
<1>11. OnePollDue'
  <2>1. busy /\ busy'
    BY <1>1, <1>7 DEF busy
  <2> QED
    BY <1>1, <1>7, <2>1 DEF IInv, OnePollDue, pageVars
<1>12. \/ Len(d) = Capacity
       \/ call.after <= next /\ Len(d) = next - call.after
       \/ next <= call.after /\ Len(d) = 0
  <2>1. CASE call.after < next - Len(items) /\ d = items
    BY <1>3, <1>4, <2>1, SMT DEF Full
  <2>2. CASE next <= call.after /\ d = <<>>
    BY <2>2, EmptyRun
  <2>3. CASE next - Len(items) <= call.after /\ call.after < next /\ Len(d) = next - call.after
    BY <1>3, <1>4, <2>3, SMT
  <2> QED
    BY <1>5, <2>1, <2>2, <2>3
<1>13. CallInv'
  <2>1. UNCHANGED <<process, next, lastLogId, source>>
    BY <1>1 DEF serverVars, pageVars
  <2>2. call.after = lastLogId
    BY <1>1 DEF IInv, CallInv, busy
  <2>3. source.process = process => source.next <= next
    BY DEF IInv, PastInv
  <2>4. process <= process /\ next <= next
    BY <1>3, SMT
  <2> QED
    BY <1>5, <1>7, <1>12, <2>1, <2>2, <2>3, <2>4 DEF CallInv
<1> QED
  BY <1>9, <1>10, <1>11, <1>13 DEF IInv
-----------------------------------------------------------------------------
(* The page asks, gives up, and applies.                                   *)

(* A request, if one is made, asks from the page's last number.            *)
LEMMA Asking ==
  ASSUME IInv, UNCHANGED <<serverVars, logs, lastLogId, generation, source, patched>>,
         timer' \in BOOLEAN, mounted' \in BOOLEAN, hidden' \in BOOLEAN,
         call' = call \/ call' = Sent("poll", lastLogId) \/ call' = Sent("button", lastLogId)
  PROVE  TypeOK' /\ RingInv' /\ HeldInv' /\ PastInv' /\ CallInv'
<1>1. RingInv' /\ HeldInv' /\ PastInv'
  BY DEF IInv, RingInv, HeldInv, PastInv, Full, serverVars
<1>2. CASE call' = call
  <2>1. TypeOK'
    BY <1>2 DEF IInv, TypeOK, serverVars
  <2>2. CallInv'
    BY <1>2 DEF IInv, CallInv, busy, serverVars
  <2> QED
    BY <1>1, <2>1, <2>2
<1>3. CASE call' = Sent("poll", lastLogId) \/ call' = Sent("button", lastLogId)
  <2>1. lastLogId \in 0 .. MaxEntries
    BY DEF IInv, TypeOK
  <2>2. call' \in Calls /\ call'.phase = "sent" /\ call'.after = lastLogId
    BY <1>3, <2>1 DEF Calls, Sent
  <2>3. TypeOK'
    BY <2>2 DEF IInv, TypeOK, serverVars
  <2>4. CallInv'
    BY <2>2 DEF CallInv
  <2> QED
    BY <1>1, <2>3, <2>4
<1> QED
  BY <1>2, <1>3

(* A request that ends without a reply leaves the page as it was, but for  *)
(* a generation that is lost.                                              *)
LEMMA Ending ==
  ASSUME IInv, UNCHANGED <<serverVars, logs, lastLogId, source, patched>>,
         timer' \in BOOLEAN, mounted' \in BOOLEAN, hidden' \in BOOLEAN,
         call' = Idle, generation' \in {generation, Undefined}
  PROVE  TypeOK' /\ RingInv' /\ HeldInv' /\ PastInv' /\ CallInv'
<1>1. RingInv' /\ PastInv'
  BY DEF IInv, RingInv, PastInv, Full, serverVars
<1>2. generation' = Undefined => generation' # NoGeneration /\ generation' \notin Nat
  BY RuntimeLogAssumption
<1>3. HeldInv'
  BY <1>2 DEF IInv, HeldInv, Full
<1>4. TypeOK'
  BY DEF IInv, TypeOK, Calls, serverVars
<1>5. call'.phase = "idle"
  BY DEF Idle
<1>6. CallInv'
  BY <1>5 DEF CallInv, busy
<1> QED
  BY <1>1, <1>3, <1>4, <1>6

LEMMA CallsHaveMakers == IInv => (busy => call.by \in {"poll", "button"})
  BY DEF IInv, TypeOK, Calls, Idle, busy

LEMMA PollInv == ASSUME IInv, poll PROVE IInv'
<1>1. timer /\ UNCHANGED <<serverVars, mounted, hidden, logs, lastLogId, generation, source, patched>>
  BY DEF poll
<1>2. mounted \in BOOLEAN /\ hidden \in BOOLEAN
  BY DEF IInv, TypeOK
<1>3. CASE busy
  <2>1. timer' = TRUE /\ call' = call
    BY <1>3 DEF poll, PollUnlessBusy
  <2>2. TypeOK' /\ RingInv' /\ HeldInv' /\ PastInv' /\ CallInv'
    BY <1>1, <1>2, <2>1, Asking
  <2>3. OnePollDue'
    BY <1>1, <2>1 DEF IInv, OnePollDue, busy
  <2> QED
    BY <2>2, <2>3 DEF IInv
<1>4. CASE ~ busy
  <2>1. timer' = FALSE /\ call' = Sent("poll", lastLogId)
    BY <1>4 DEF poll, PollUnlessBusy
  <2>2. TypeOK' /\ RingInv' /\ HeldInv' /\ PastInv' /\ CallInv'
    BY <1>1, <1>2, <2>1, Asking
  <2>3. OnePollDue'
    BY <1>1, <2>1 DEF IInv, OnePollDue, busy, Sent
  <2> QED
    BY <2>2, <2>3 DEF IInv
<1> QED
  BY <1>3, <1>4

LEMMA ClickInv == ASSUME IInv, ClickRefresh PROVE IInv'
<1>1. ~ busy /\ call' = Sent("button", lastLogId) /\ UNCHANGED <<serverVars, pageVars>>
  BY DEF ClickRefresh
<1>2. UNCHANGED <<serverVars, logs, lastLogId, generation, source, patched, timer, mounted, hidden>>
  BY <1>1 DEF pageVars
<1>3. timer \in BOOLEAN /\ mounted \in BOOLEAN /\ hidden \in BOOLEAN
  BY DEF IInv, TypeOK
<1>4. TypeOK' /\ RingInv' /\ HeldInv' /\ PastInv' /\ CallInv'
  BY <1>1, <1>2, <1>3, Asking
<1>5. OnePollDue'
  BY <1>1, <1>2 DEF IInv, OnePollDue, busy, Sent
<1> QED
  BY <1>4, <1>5 DEF IInv

(* Show and Mount start polling where it was not due.                      *)
LEMMA ShowInv == ASSUME IInv, Show PROVE IInv'
<1>1. /\ hidden /\ hidden' = FALSE
      /\ UNCHANGED <<serverVars, mounted, logs, lastLogId, generation, source, patched>>
  BY DEF Show
<1>2. mounted \in BOOLEAN /\ timer \in BOOLEAN
  BY DEF IInv, TypeOK
<1>3. ~ timer /\ ~ (busy /\ call.by = "poll")
  BY <1>1 DEF IInv, OnePollDue
<1>4. \/ ~ mounted /\ timer' = timer /\ call' = call
      \/ mounted /\ busy /\ timer' = TRUE /\ call' = call
      \/ mounted /\ ~ busy /\ timer' = FALSE /\ call' = Sent("poll", lastLogId)
  BY <1>2 DEF Show, PollUnlessBusy
<1>5. TypeOK' /\ RingInv' /\ HeldInv' /\ PastInv' /\ CallInv'
  <2>1. timer' \in BOOLEAN /\ mounted' \in BOOLEAN /\ hidden' \in BOOLEAN
    BY <1>1, <1>2, <1>4
  <2> QED
    BY <1>1, <1>4, <2>1, Asking
<1>6. OnePollDue'
  BY <1>1, <1>3, <1>4 DEF OnePollDue, busy, Sent
<1> QED
  BY <1>5, <1>6 DEF IInv

LEMMA MountInv == ASSUME IInv, Mount PROVE IInv'
<1>1. /\ ~ mounted /\ mounted' = TRUE
      /\ UNCHANGED <<serverVars, hidden, logs, lastLogId, generation, source, patched>>
  BY DEF Mount
<1>2. hidden \in BOOLEAN /\ timer \in BOOLEAN
  BY DEF IInv, TypeOK
<1>3. ~ timer /\ ~ (busy /\ call.by = "poll")
  BY <1>1 DEF IInv, OnePollDue
<1>4. \/ hidden /\ timer' = timer /\ call' = call
      \/ ~ hidden /\ busy /\ timer' = TRUE /\ call' = call
      \/ ~ hidden /\ ~ busy /\ timer' = FALSE /\ call' = Sent("poll", lastLogId)
  BY <1>2 DEF Mount, PollUnlessBusy
<1>5. TypeOK' /\ RingInv' /\ HeldInv' /\ PastInv' /\ CallInv'
  <2>1. timer' \in BOOLEAN /\ mounted' \in BOOLEAN /\ hidden' \in BOOLEAN
    BY <1>1, <1>2, <1>4
  <2> QED
    BY <1>1, <1>4, <2>1, Asking
<1>6. OnePollDue'
  BY <1>1, <1>3, <1>4 DEF OnePollDue, busy, Sent
<1> QED
  BY <1>5, <1>6 DEF IInv

(* Who polled schedules the next poll, and nobody else.                    *)
LEMMA EndCallDue ==
  ASSUME IInv, busy, EndCall, UNCHANGED <<mounted, hidden>>
  PROVE  timer' \in BOOLEAN /\ OnePollDue'
<1>1. timer \in BOOLEAN /\ hidden \in BOOLEAN
  BY DEF IInv, TypeOK
<1>2. call'.phase = "idle" /\ timer' = (timer \/ (call.by = "poll" /\ ~ hidden))
  BY DEF EndCall, Idle
<1>3. timer' \in BOOLEAN
  BY <1>1, <1>2
<1>4. ~ busy'
  BY <1>2 DEF busy
<1>5. /\ ~ (timer /\ call.by = "poll")
      /\ (timer \/ call.by = "poll") <=> (mounted /\ ~ hidden)
  BY DEF IInv, OnePollDue
<1>6. timer' <=> (mounted /\ ~ hidden)
  BY <1>2, <1>5
<1>7. OnePollDue'
  BY <1>4, <1>6 DEF OnePollDue
<1> QED
  BY <1>3, <1>7

LEMMA CallFailsInv == ASSUME IInv, CallFails PROVE IInv'
<1>1. /\ busy /\ EndCall
      /\ UNCHANGED <<serverVars, mounted, hidden, logs, lastLogId, generation, source, patched>>
  BY DEF CallFails
<1>2. timer' \in BOOLEAN /\ OnePollDue'
  BY <1>1, EndCallDue
<1>3. call' = Idle /\ mounted' \in BOOLEAN /\ hidden' \in BOOLEAN
  BY <1>1 DEF EndCall, IInv, TypeOK
<1>4. TypeOK' /\ RingInv' /\ HeldInv' /\ PastInv' /\ CallInv'
  BY <1>1, <1>2, <1>3, Ending
<1> QED
  BY <1>2, <1>4 DEF IInv

LEMMA BodyLostInv == ASSUME IInv, BodyLost PROVE IInv'
<1>1. /\ call.phase = "answered" /\ EndCall /\ generation' = Undefined
      /\ UNCHANGED <<serverVars, mounted, hidden, logs, lastLogId, source, patched>>
  BY DEF BodyLost
<1>2. timer' \in BOOLEAN /\ OnePollDue'
  BY <1>1, EndCallDue DEF busy
<1>3. call' = Idle /\ mounted' \in BOOLEAN /\ hidden' \in BOOLEAN
  BY <1>1 DEF EndCall, IInv, TypeOK
<1>4. TypeOK' /\ RingInv' /\ HeldInv' /\ PastInv' /\ CallInv'
  BY <1>1, <1>2, <1>3, Ending
<1> QED
  BY <1>2, <1>4 DEF IInv

LEMMA HideInv == ASSUME IInv, Hide PROVE IInv'
<1>1. /\ hidden' = TRUE /\ timer' = FALSE /\ call' = Idle
      /\ generation' \in {generation, Undefined}
      /\ UNCHANGED <<serverVars, mounted, logs, lastLogId, source, patched>>
  BY DEF Hide
<1>2. mounted' \in BOOLEAN
  BY <1>1 DEF IInv, TypeOK
<1>3. TypeOK' /\ RingInv' /\ HeldInv' /\ PastInv' /\ CallInv'
  BY <1>1, <1>2, Ending
<1>4. OnePollDue'
  BY <1>1 DEF OnePollDue, busy, Idle
<1> QED
  BY <1>3, <1>4 DEF IInv

LEMMA UnmountInv == ASSUME IInv, Unmount PROVE IInv'
<1>1. /\ mounted' = FALSE /\ timer' = FALSE /\ call' = Idle /\ logs' = <<>> /\ lastLogId' = 0
      /\ generation' = NoGeneration /\ source' = [process |-> 0, next |-> 0] /\ patched' = FALSE
      /\ UNCHANGED <<serverVars, hidden>>
  BY DEF Unmount, FreshPage
<1>2. <<>> \in EntrySeq(Capacity)
  BY RuntimeLogAssumption, EmptySeq, SMT DEF EntrySeq
<1>3. /\ lastLogId' \in 0 .. MaxEntries
      /\ source' \in [process : 0 .. MaxProcesses, next : 0 .. MaxEntries]
      /\ source'.process = 0 /\ source'.next = 0
  BY <1>1, RuntimeLogAssumption, SMT
<1>4. TypeOK'
  BY <1>1, <1>2, <1>3 DEF IInv, TypeOK, Calls, serverVars
<1>5. RingInv'
  BY <1>1 DEF IInv, RingInv, Full, serverVars
<1>6. HeldInv'
  <2>1. IsRun(<<>>, 0, 0)
    BY EmptyRun
  <2>2. IsRun(logs', source'.process, lastLogId')
    BY <1>1, <1>3, <2>1
  <2>3. lastLogId' <= source'.next
    BY <1>1, <1>3, SMT
  <2> QED
    BY <1>1, <1>3, <2>2, <2>3, RuntimeLogAssumption DEF HeldInv, Full
<1>7. PastInv'
  <2>1. process' \in 1 .. MaxProcesses
    BY <1>1 DEF IInv, TypeOK, serverVars
  <2> QED
    BY <1>3, <2>1, SMT DEF PastInv
<1>8. CallInv' /\ OnePollDue'
  BY <1>1 DEF CallInv, OnePollDue, busy, Idle
<1> QED
  BY <1>4, <1>5, <1>6, <1>7, <1>8 DEF IInv

-----------------------------------------------------------------------------
(* A reply applied.                                                        *)

(* What the page keeps after a reply is the newest part of the log as it   *)
(* was when the server answered; all of it that the capacity allows, but   *)
(* for a page that was patched with the tail of another process's log.     *)
LEMMA Merged ==
  ASSUME IInv, call.phase = "answered"
  PROVE  LET m == Merge(call.data) IN
         /\ IsRun(m, call.process, call.next)
         /\ Len(m) <= Capacity
         /\ (call.after = 0 \/ ~ (GenerationChanged \/ patched)) =>
              Full(m, call.next) /\ (Len(m) = 0 => call.next = 0)
<1> DEFINE d == call.data
           q == call.process
           n == call.next
           a == call.after
           m == Merge(call.data)
<1>1. /\ d \in EntrySeq(Capacity) /\ q \in 1 .. MaxProcesses /\ n \in 0 .. MaxEntries
      /\ a \in 0 .. MaxEntries
  BY SMT DEF IInv, TypeOK, Calls, Idle
<1>2. /\ d \in Seq(Entry) /\ Len(d) \in Nat /\ Len(d) <= Capacity
      /\ q \in Nat /\ q # 0 /\ n \in Nat /\ a \in Nat /\ Capacity \in Nat \ {0}
  BY <1>1, RuntimeLogAssumption, SMT DEF EntrySeq
<1>3. /\ IsRun(d, q, n) /\ a = lastLogId
      /\ source.process = q => source.next <= n
      /\ \/ Len(d) = Capacity
         \/ a <= n /\ Len(d) = n - a
         \/ n <= a /\ Len(d) = 0
  BY DEF IInv, CallInv, busy
<1>4. /\ logs \in Seq(Entry) /\ Len(logs) \in Nat /\ Len(logs) <= Capacity
      /\ source.next \in Nat
  BY SMT DEF IInv, TypeOK, EntrySeq
<1> HIDE DEF d, q, n, a
<1>5. CASE a = 0 \/ GenerationChanged
  <2>1. m = Newest(d, Capacity)
    BY <1>5 DEF m, Merge, a, d
  <2>2. IsRun(m, q, n) /\ Len(m) = Len(d)
    <3> HIDE DEF m
    <3>1. IsRun(Newest(d, Capacity), q, n)
          /\ Len(Newest(d, Capacity)) = IF Len(d) > Capacity THEN Capacity ELSE Len(d)
      BY <1>2, <1>3, NewestOfRun
    <3> QED
      BY <1>2, <2>1, <3>1, SMT
  <2> HIDE DEF m
  <2>3. a = 0 => Len(m) = Capacity \/ Len(m) = n
    BY <1>2, <1>3, <2>2, SMT
  <2>4. a = 0 => Full(m, n) /\ (Len(m) = 0 => n = 0)
    BY <1>2, <2>3, SMT DEF Full
  <2>5. (a = 0 \/ ~ (GenerationChanged \/ patched)) => a = 0
    BY <1>5
  <2> QED
    BY <1>2, <2>2, <2>4, <2>5 DEF m, q, n, a
<1>6. CASE a # 0 /\ ~ GenerationChanged
  <2>1. m = Newest(logs \o d, Capacity)
    BY <1>6 DEF m, Merge, a, d
  <2> HIDE DEF m
  <2>2. logs # <<>> /\ lastLogId \in Nat /\ Len(logs) > 0
    BY <1>2, <1>3, <1>4, <1>6, NoEntries, SMT DEF IInv, HeldInv
  <2>3. generation # NoGeneration
    BY <2>2 DEF IInv, HeldInv
  <2>4. generation = q
    BY <1>6, <2>3 DEF GenerationChanged, q
  <2>5. source.process = q
    BY <1>2, <2>4 DEF IInv, HeldInv
  <2>6. /\ IsRun(logs, q, a) /\ a <= source.next /\ source.next <= n
        /\ ~ patched => a = source.next /\ Full(logs, source.next)
    BY <1>2, <1>3, <2>5 DEF IInv, HeldInv
  <2>7. CASE Len(d) = Capacity
    <3>1. m = d
      BY <1>2, <1>4, <2>1, <2>7, NewestOfFull
    <3> QED
      BY <1>2, <1>3, <2>7, <3>1, SMT DEF m, q, n, Full
  <2>8. CASE Len(d) # Capacity
    <3>1. n - Len(d) = a
      BY <1>2, <1>3, <1>4, <2>6, <2>8, SMT
    <3>2. IsRun(logs \o d, q, n) /\ Len(logs \o d) = Len(logs) + Len(d)
      BY <1>2, <1>3, <2>6, <3>1, RunsJoin
    <3>3. logs \o d \in Seq(Entry)
      BY <3>2 DEF IsRun
    <3>4. IsRun(m, q, n)
          /\ Len(m) = IF Len(logs \o d) > Capacity THEN Capacity ELSE Len(logs \o d)
      BY <1>2, <2>1, <3>2, <3>3, NewestOfRun
    <3>5. Len(m) <= Capacity /\ Len(m) # 0
      BY <1>2, <1>4, <2>2, <3>2, <3>4, SMT
    <3>6. ~ patched => Full(m, n)
      <4> SUFFICES ASSUME ~ patched PROVE Full(m, n)
        OBVIOUS
      <4>1. Len(logs) = Capacity \/ Len(logs) = a
        BY <2>6 DEF Full
      <4>2. Len(m) = Capacity \/ Len(m) = n
        BY <1>2, <1>4, <3>1, <3>2, <3>4, <4>1, SMT
      <4> QED
        BY <4>2 DEF Full
    <3>7. (a = 0 \/ ~ (GenerationChanged \/ patched)) => ~ patched
      BY <1>6
    <3> QED
      BY <3>4, <3>5, <3>6, <3>7 DEF m, q, n, a
  <2> QED
    BY <2>7, <2>8
<1> QED
  BY <1>5, <1>6

LEMMA ApplyReplyInv == ASSUME IInv, ApplyReply PROVE IInv'
<1> DEFINE m == Merge(call.data)
<1>1. /\ call.phase = "answered" /\ busy
      /\ logs' = m /\ lastLogId' = LastId(m) /\ generation' = call.process
      /\ source' = [process |-> call.process, next |-> call.next]
      /\ patched' = (call.after > 0 /\ (GenerationChanged \/ patched))
      /\ EndCall /\ UNCHANGED <<serverVars, mounted, hidden>>
  BY DEF ApplyReply, busy
<1>2. /\ call.process \in 1 .. MaxProcesses /\ call.next \in 0 .. MaxEntries
      /\ call.after \in 0 .. MaxEntries
  BY <1>1, SMT DEF IInv, TypeOK, Calls, Idle
<1>3. call.next \in Nat /\ call.process \in Nat /\ call.after \in Nat
  BY <1>2, SMT
<1>4. /\ IsRun(m, call.process, call.next) /\ Len(m) <= Capacity
      /\ (call.after = 0 \/ ~ (GenerationChanged \/ patched)) =>
           Full(m, call.next) /\ (Len(m) = 0 => call.next = 0)
  BY <1>1, Merged
<1> HIDE DEF m
<1>5. m \in Seq(Entry) /\ Len(m) \in Nat
  BY <1>4, SMT DEF IsRun
<1>6. /\ IsRun(m, call.process, LastId(m)) /\ LastId(m) \in 0 .. MaxEntries
      /\ LastId(m) = IF Len(m) = 0 THEN 0 ELSE call.next
      /\ m = <<>> <=> LastId(m) = 0
  BY <1>3, <1>4, LastIdOfRun
<1>7. timer' \in BOOLEAN /\ OnePollDue'
  BY <1>1, EndCallDue
<1>8. call' = Idle
  BY <1>1 DEF EndCall
<1>9. patched \in BOOLEAN /\ patched' \in BOOLEAN
  BY <1>1 DEF IInv, TypeOK
<1>10. TypeOK'
  <2>1. m \in EntrySeq(Capacity)
    BY <1>4, <1>5 DEF EntrySeq
  <2>2. source' \in [process : 0 .. MaxProcesses, next : 0 .. MaxEntries]
    BY <1>1, <1>2, SMT
  <2>3. UNCHANGED <<process, next, items, mounted, hidden>>
    BY <1>1 DEF serverVars
  <2>4. call' \in Calls
    BY <1>8 DEF Calls
  <2> QED
    BY <1>1, <1>2, <1>6, <1>7, <1>9, <2>1, <2>2, <2>3, <2>4 DEF IInv, TypeOK
<1>11. RingInv'
  BY <1>1 DEF IInv, RingInv, Full, serverVars
<1>12. source'.process = call.process /\ source'.next = call.next
  BY <1>1
<1>13. PastInv'
  BY <1>1, <1>12 DEF IInv, CallInv, PastInv, serverVars
<1>14. CallInv'
  BY <1>8 DEF CallInv, busy, Idle
<1>15. HeldInv'
  <2>1. IsRun(logs', source'.process, lastLogId') /\ (logs' = <<>> <=> lastLogId' = 0)
    BY <1>1, <1>6, <1>12
  <2>2. lastLogId' <= source'.next
    BY <1>1, <1>3, <1>5, <1>6, <1>12, SMT
  <2>3. generation' # NoGeneration
    BY <1>1, <1>3, RuntimeLogAssumption
  <2>4. ~ patched' => lastLogId' = source'.next /\ Full(logs', source'.next)
    <3> SUFFICES ASSUME ~ patched' PROVE lastLogId' = source'.next /\ Full(logs', source'.next)
      OBVIOUS
    <3>1. ~ (call.after > 0) \/ ~ (GenerationChanged \/ patched)
      BY <1>1
    <3>2. ~ (call.after > 0) => call.after = 0
      BY <1>3, SMT
    <3>3. Full(m, call.next) /\ (Len(m) = 0 => call.next = 0)
      BY <1>4, <3>1, <3>2
    <3>4. LastId(m) = call.next
      BY <1>5, <1>6, <3>3
    <3> QED
      BY <1>1, <1>12, <3>3, <3>4
  <2> QED
    BY <1>1, <1>12, <2>1, <2>2, <2>3, <2>4 DEF HeldInv
<1> QED
  BY <1>7, <1>10, <1>11, <1>13, <1>14, <1>15 DEF IInv

-----------------------------------------------------------------------------
(* The theorems.                                                           *)

LEMMA NextInv == ASSUME IInv, [Next]_vars PROVE IInv'
<1>1. CASE UNCHANGED vars
  BY <1>1 DEF IInv, TypeOK, RingInv, HeldInv, PastInv, CallInv, OnePollDue, Full, busy,
              vars, serverVars, pageVars
<1> QED
  BY <1>1, AddInv, RestartInv, ListInv, PollInv, ClickInv, ApplyReplyInv, CallFailsInv,
     BodyLostInv, HideInv, ShowInv, MountInv, UnmountInv
     DEF Next, Server, Page, Reader

\* What the log and the page keep true between any two steps.
THEOREM Invariant == Spec => []IInv
  BY InitInv, NextInv, PTL DEF Spec

\* Every variable keeps its type, and neither the ring nor the page exceeds the
\* capacity (runtime_logs.go:39, RuntimeLogs.vue:49).
THEOREM Typing == Spec => []TypeOK
<1>1. IInv => TypeOK
  BY DEF IInv
<1> QED
  BY <1>1, Invariant, PTL

\* Exactly one poll is due while the page is open in the foreground, and none
\* otherwise (RuntimeLogs.vue:70-86).
THEOREM PollsOnce == Spec => []OnePollDue
<1>1. IInv => OnePollDue
  BY DEF IInv
<1> QED
  BY <1>1, Invariant, PTL

\* The page keeps entries of one process without a gap or a repetition,
\* whatever the capacity and however many entries are evicted between two polls
\* (RuntimeLogs.vue:45-50).
THEOREM NoGaps == Spec => []Contiguous
<1>1. IInv => Contiguous
  <2> SUFFICES ASSUME IInv, NEW k \in 1 .. Len(logs) - 1
               PROVE  logs[k + 1].process = logs[k].process /\ logs[k + 1].id = logs[k].id + 1
    BY DEF Contiguous
  <2>1. Len(logs) \in Nat /\ lastLogId \in Nat
    BY SMT DEF IInv, TypeOK, EntrySeq
  <2>2. k \in 1 .. Len(logs) /\ k + 1 \in 1 .. Len(logs)
    BY <2>1, SMT
  <2>3. /\ logs[k].process = source.process /\ logs[k].id = lastLogId - Len(logs) + k
        /\ logs[k + 1].process = source.process
        /\ logs[k + 1].id = lastLogId - Len(logs) + (k + 1)
    BY <2>2 DEF IInv, HeldInv, IsRun
  <2> QED
    BY <2>1, <2>3, SMT
<1> QED
  BY <1>1, Invariant, PTL

\* A page that was not patched over a restart shows the newest entries there
\* were when its last reply was made (RuntimeLogs.vue:18, runtime_logs.go:69).
THEOREM NewestShown == Spec => []ShowsNewest
<1>1. IInv => ShowsNewest
  <2> DEFINE n == source.next
             w == IF n < Shown THEN n ELSE Shown
  <2> SUFFICES ASSUME IInv, source.process # 0, ~ patched
               PROVE  visibleLogs = NewestEntries(w)
    BY DEF ShowsNewest
  <2>1. /\ logs \in Seq(Entry) /\ Len(logs) \in Nat /\ n \in Nat
        /\ Shown \in Nat \ {0} /\ Shown <= Capacity /\ Capacity \in Nat
    BY RuntimeLogAssumption, SMT DEF IInv, TypeOK, EntrySeq
  <2>2. IsRun(logs, source.process, n) /\ Full(logs, n)
    BY DEF IInv, HeldInv
  <2>3. Len(logs) > 0 => n >= Len(logs)
    BY <2>1, <2>2, RunNumber
  <2>4. /\ IsRun(visibleLogs, source.process, n)
        /\ Len(visibleLogs) = IF Len(logs) > Shown THEN Shown ELSE Len(logs)
    BY <2>1, <2>2, NewestOfRun DEF visibleLogs
  <2>5. w \in Nat /\ Len(visibleLogs) = w
    BY <2>1, <2>2, <2>3, <2>4, SMT DEF Full
  <2> HIDE DEF n, w
  <2>6. visibleLogs \in Seq(Entry)
    BY <2>4 DEF IsRun
  <2>7. visibleLogs \in [1 .. w -> Entry]
    BY <2>5, <2>6, LenProperties
  <2>8. \A k \in 1 .. w : visibleLogs[k] = [process |-> source.process, id |-> n - w + k]
    <3> SUFFICES ASSUME NEW k \in 1 .. w
                 PROVE  visibleLogs[k] = [process |-> source.process, id |-> n - w + k]
      OBVIOUS
    <3>1. visibleLogs[k] \in Entry
      BY <2>7
    <3>2. visibleLogs[k].process = source.process /\ visibleLogs[k].id = n - w + k
      BY <2>4, <2>5 DEF IsRun
    <3> QED
      BY <3>1, <3>2 DEF Entry
  <2>9. visibleLogs = [k \in 1 .. w |-> [process |-> source.process, id |-> n - w + k]]
    BY <2>7, <2>8
  <2> QED
    BY <2>9 DEF NewestEntries, n
<1> QED
  BY <1>1, Invariant, PTL

-----------------------------------------------------------------------------
(* The launches.                                                           *)

Keyed == {"keyed", "imported"} \cup Holding

\* The creator is alone and has left no whole file; who uses a generated key
\* uses the file's.
KeySettled ==
    ~raced =>
        /\ \A l \in Launch : proc[l].at = "creating" => file = Missing
        /\ \A l \in Launch : proc[l].at = "filling" => file = Torn
        /\ \A l, m \in Launch :
               /\ proc[l].at \in {"creating", "filling"}
               /\ proc[m].at \in {"creating", "filling"}
               => l = m
        /\ \A l \in Launch :
               proc[l].at \in Keyed /\ ~proc[l].passphrase => proc[l].key = file

\* Where a launch's key comes from.
KeyOrigin ==
    \A l \in Launch :
        proc[l].at \in Keyed =>
            /\ proc[l].passphrase => proc[l].key = Passphrase
            /\ ~proc[l].passphrase => proc[l].key \in Generated

\* Who is to create the key was started without OMNI_MASTER_KEY.
CreatorsHaveNone ==
    \A l \in Launch : proc[l].at \in {"creating", "filling"} => ~proc[l].passphrase

\* What an older version sealed under a generated key opens with the file's.
LegacySettled ==
    legacy # Missing /\ legacy.key = Former => file = Former \/ raced

\* A database without a configuration has no secret.
NothingSealed == ~db.configured => db.key = NoKey

\* Who holds the configuration, or is importing one, can open the database.
HoldersOpen ==
    ~crossed => \A l \in Launch :
                    proc[l].at \in Holding => db.key \in {NoKey, proc[l].key}

LaunchInv == /\ LaunchTypeOK
        /\ KeySettled
        /\ KeyOrigin
        /\ CreatorsHaveNone
        /\ LegacySettled
        /\ NothingSealed
        /\ HoldersOpen
        /\ KeyFileOpensDatabase
        /\ LockedOutByChoice

-----------------------------------------------------------------------------

\* The names of keys and of what a file may be are all different.
LEMMA Names ==
    /\ NoKey \notin Keys
    /\ Passphrase \notin Generated
    /\ Missing # Torn
    /\ {Missing, Torn} \cap Keys = {}
BY LaunchAssumption DEF Keys, Generated

\* The initial states satisfy the invariant.
LEMMA InitInvariant == LaunchInit => LaunchInv
<1> SUFFICES ASSUME LaunchInit PROVE LaunchInv
  OBVIOUS
<1> USE Names DEF LaunchInit, Keys, Generated, Holding, Keyed
<1>1. \A l \in Launch : proc[l] \in ProcType /\ proc[l].at = "waiting"
  BY DEF ProcType
<1>2. LaunchTypeOK
  <2>1. proc \in [Launch -> ProcType]
    BY <1>1
  <2>2. db \in [configured: BOOLEAN, key: Keys \cup {NoKey}, secrets: SUBSET Secret]
    OBVIOUS
  <2>3. file \in Generated \cup {Missing, Torn} /\ legacy \in Legacy \cup {Missing}
    OBVIOUS
  <2>4. raced \in BOOLEAN /\ crossed \in BOOLEAN
    OBVIOUS
  <2> QED BY <2>1, <2>2, <2>3, <2>4 DEF LaunchTypeOK
<1>3. KeySettled /\ KeyOrigin /\ CreatorsHaveNone /\ LegacySettled /\ NothingSealed
  BY <1>1 DEF KeySettled, KeyOrigin, CreatorsHaveNone, LegacySettled, NothingSealed
<1>4. HoldersOpen /\ KeyFileOpensDatabase /\ LockedOutByChoice
  BY <1>1 DEF HoldersOpen, KeyFileOpensDatabase, LockedOutByChoice
<1> QED BY <1>2, <1>3, <1>4 DEF LaunchInv

\* A step of one launch that only moves it, without a key or before it has
\* one, to where nothing is asked of it or to where it has as much as before;
\* or that ends it.
LEMMA MoveInvariant ==
    ASSUME LaunchInv, NEW l \in Launch, NEW place,
           place \in {"reading", "invalid", "opening", "serving", "stopping", "ended"},
           place \in Holding => proc[l].at \in Holding,
           Goes(l, place) \/ (place = "ended" /\ Ends(l)),
           UNCHANGED <<file, db, raced, crossed>>, legacy' \in {legacy, Missing}
    PROVE  LaunchInv'
<1> USE Names DEF Goes, Ends, Keys, Generated, Holding, Keyed
<1>1. LaunchTypeOK'
  <2>1. proc' \in [Launch -> ProcType]
    BY DEF LaunchInv, LaunchTypeOK, ProcType
  <2> QED BY <2>1 DEF LaunchInv, LaunchTypeOK
<1>2. \A m \in Launch : m # l => proc'[m] = proc[m]
  BY DEF LaunchInv, LaunchTypeOK
<1>3. /\ proc'[l].at = place
      /\ proc'[l].key = proc[l].key \/ place = "ended"
      /\ proc'[l].passphrase = proc[l].passphrase
  BY DEF LaunchInv, LaunchTypeOK, ProcType
<1>4. KeySettled'
  BY <1>2, <1>3 DEF LaunchInv, KeySettled
<1>5. KeyOrigin' /\ CreatorsHaveNone' /\ LegacySettled' /\ NothingSealed'
  BY <1>2, <1>3 DEF LaunchInv, KeyOrigin, CreatorsHaveNone, LegacySettled, NothingSealed
<1>6. HoldersOpen'
  BY <1>2, <1>3 DEF LaunchInv, HoldersOpen
<1>7. KeyFileOpensDatabase' /\ LockedOutByChoice'
  BY <1>2, <1>3 DEF LaunchInv, KeyFileOpensDatabase, LockedOutByChoice
<1> QED BY <1>1, <1>4, <1>5, <1>6, <1>7 DEF LaunchInv

\* The launch that has imported config.json renames it and goes on.
LEMMA RetireInvariant ==
    ASSUME LaunchInv, NEW l \in Launch, Retire(l)
    PROVE  LaunchInv'
<1>1. CASE legacy = Missing
  BY <1>1, MoveInvariant DEF Retire, Holding
<1>2. CASE legacy # Missing
  <2> USE Names, <1>2 DEF Retire, Goes, Keys, Generated, Holding, Keyed
  <2>1. LaunchTypeOK'
    <3>1. proc' \in [Launch -> ProcType]
      BY DEF LaunchInv, LaunchTypeOK, ProcType
    <3> QED BY <3>1 DEF LaunchInv, LaunchTypeOK
  <2>2. \A m \in Launch : m # l => proc'[m] = proc[m]
    BY DEF LaunchInv, LaunchTypeOK
  <2>3. /\ proc[l].at = "imported"
        /\ proc'[l].at = "keyed"
        /\ proc'[l].key = proc[l].key
        /\ proc'[l].passphrase = proc[l].passphrase
    BY DEF LaunchInv, LaunchTypeOK, ProcType
  <2>4. KeySettled'
    BY <2>2, <2>3 DEF LaunchInv, KeySettled
  <2>5. KeyOrigin' /\ CreatorsHaveNone' /\ LegacySettled' /\ NothingSealed'
    BY <2>2, <2>3 DEF LaunchInv, KeyOrigin, CreatorsHaveNone, LegacySettled, NothingSealed
  <2>6. HoldersOpen'
    BY <2>2, <2>3 DEF LaunchInv, HoldersOpen
  <2>7. KeyFileOpensDatabase' /\ LockedOutByChoice'
    BY <2>2, <2>3 DEF LaunchInv, KeyFileOpensDatabase, LockedOutByChoice
  <2> QED BY <2>1, <2>4, <2>5, <2>6, <2>7 DEF LaunchInv
<1> QED BY <1>1, <1>2

\* Taking the passphrase, the file's key or a fresh one that was just stored.
LEMMA KeyInvariant ==
    ASSUME LaunchInv, NEW l \in Launch, UsePassphrase(l) \/ FillKey(l)
                                   \/ (ReadKey(l) /\ file \in Generated)
    PROVE  LaunchInv'
<1> USE Names DEF HasKey, Goes, Keys, Generated, Holding, Keyed
<1>1. PICK key \in Keys :
          /\ proc' = [proc EXCEPT ![l].at = "keyed", ![l].key = key]
          /\ proc[l].passphrase => key = Passphrase
          /\ ~proc[l].passphrase => key \in Generated /\ file' = key
          /\ file' = file \/ (proc[l].at = "filling" /\ file' = l)
          /\ file' \in Generated \cup {Missing, Torn}
          /\ UNCHANGED <<legacy, db, raced, crossed>>
  BY DEF LaunchInv, LaunchTypeOK, CreatorsHaveNone, UsePassphrase, FillKey, ReadKey
<1>2. LaunchTypeOK'
  <2>1. [proc[l] EXCEPT !.at = "keyed", !.key = key] \in ProcType
    <3>1. proc[l] \in ProcType
      BY DEF LaunchInv, LaunchTypeOK
    <3> QED BY <3>1 DEF ProcType
  <2>2. proc' = [proc EXCEPT ![l] = [proc[l] EXCEPT !.at = "keyed", !.key = key]]
    BY <1>1 DEF LaunchInv, LaunchTypeOK
  <2>3. proc' \in [Launch -> ProcType]
    BY <2>1, <2>2 DEF LaunchInv, LaunchTypeOK
  <2> QED BY <1>1, <2>3 DEF LaunchInv, LaunchTypeOK
<1>3. \A m \in Launch : m # l => proc'[m] = proc[m]
  BY <1>1 DEF LaunchInv, LaunchTypeOK
<1>4. /\ proc'[l].at = "keyed"
      /\ proc'[l].key = key
      /\ proc'[l].passphrase = proc[l].passphrase
  BY <1>1 DEF LaunchInv, LaunchTypeOK, ProcType
<1>5. KeySettled'
  <2> SUFFICES ASSUME ~raced PROVE KeySettled'
    BY <1>1 DEF KeySettled
  <2>1. CASE file' = file
    BY <1>1, <1>3, <1>4, <2>1 DEF LaunchInv, KeySettled
  <2>2. CASE proc[l].at = "filling" /\ file' = l
    <3>1. file = Torn
      BY <2>2 DEF LaunchInv, KeySettled
    <3>2. \A m \in Launch : proc[m].at \in Keyed => proc[m].passphrase
      BY <3>1 DEF LaunchInv, KeySettled, KeyOrigin
    <3>3. ~proc[l].passphrase /\ proc'[l].key = l /\ file' = l
      BY <1>1, <1>4, <2>2 DEF LaunchInv, CreatorsHaveNone
    <3>4. \A m \in Launch : proc'[m].at \notin {"creating", "filling"}
      BY <1>3, <1>4, <2>2 DEF LaunchInv, KeySettled
    <3>5. \A m \in Launch : proc'[m].at \in Keyed /\ ~proc'[m].passphrase => m = l
      BY <1>3, <3>2
    <3> QED BY <3>3, <3>4, <3>5 DEF KeySettled
  <2> QED BY <1>1, <2>1, <2>2
<1>6. KeyOrigin' /\ CreatorsHaveNone' /\ LegacySettled' /\ NothingSealed'
  <2>1. /\ proc[l].passphrase => proc'[l].key = Passphrase
        /\ ~proc[l].passphrase => proc'[l].key \in Generated
    BY <1>1, <1>4
  <2>2. KeyOrigin'
    BY <1>3, <1>4, <2>1 DEF LaunchInv, KeyOrigin
  <2>3. CreatorsHaveNone'
    BY <1>3, <1>4 DEF LaunchInv, CreatorsHaveNone
  <2>4. LegacySettled' /\ NothingSealed'
    BY <1>1 DEF LaunchInv, KeySettled, LegacySettled, NothingSealed
  <2> QED BY <2>2, <2>3, <2>4
<1>7. HoldersOpen'
  BY <1>1, <1>3, <1>4 DEF LaunchInv, HoldersOpen
<1>8. KeyFileOpensDatabase'
  BY <1>1 DEF LaunchInv, LaunchTypeOK, KeySettled, KeyFileOpensDatabase
<1>9. LockedOutByChoice'
  <2> SUFFICES ASSUME NEW m \in Launch, proc'[m].at = "locked"
               PROVE  raced' \/ proc'[m].passphrase # (proc'[m].met = Passphrase)
    BY DEF LockedOutByChoice
  <2>1. raced' = raced /\ proc'[m] = proc[m]
    BY <1>1, <1>3, <1>4
  <2> QED BY <2>1 DEF LaunchInv, LockedOutByChoice
<1> QED BY <1>2, <1>5, <1>6, <1>7, <1>8, <1>9 DEF LaunchInv

\* Finding the key missing, and truncating the file that is to hold it.
LEMMA CreateInvariant ==
    ASSUME LaunchInv, NEW l \in Launch, CreateKey(l) \/ (ReadKey(l) /\ file = Missing)
    PROVE  LaunchInv'
<1> USE Names DEF Goes, Keys, Generated, Holding, Keyed
<1>1. /\ ~proc[l].passphrase
      /\ UNCHANGED <<legacy, db, crossed>>
      /\ file' \in {file, Torn}
      /\ raced' \in BOOLEAN
      /\ raced => raced'
  BY DEF LaunchInv, LaunchTypeOK, CreatorsHaveNone, CreateKey, ReadKey, HasKey
<1>2. PICK place \in {"creating", "filling"} :
          /\ Goes(l, place)
          /\ place = "creating" =>
                /\ file = Missing
                /\ file' = file
                /\ raced' = (raced \/ \E m \in Launch \ {l} : proc[m].at = "creating")
          /\ place = "filling" =>
                /\ proc[l].at = "creating"
                /\ file' = Torn
                /\ raced' = raced
  BY DEF CreateKey, ReadKey
<1>3. LaunchTypeOK'
  BY <1>1, <1>2 DEF LaunchInv, LaunchTypeOK, ProcType
<1>4. \A m \in Launch : m # l => proc'[m] = proc[m]
  BY <1>2 DEF LaunchInv, LaunchTypeOK
<1>5. /\ proc'[l].at = place
      /\ proc'[l].key = proc[l].key
      /\ proc'[l].passphrase = proc[l].passphrase
  BY <1>2 DEF LaunchInv, LaunchTypeOK, ProcType
<1>6. KeySettled'
  <2> SUFFICES ASSUME ~raced' PROVE KeySettled'
    BY DEF KeySettled
  <2>1. file = Missing
    BY <1>1, <1>2 DEF LaunchInv, KeySettled
  <2>2. \A m \in Launch : proc[m].at \in Keyed => proc[m].passphrase
    BY <1>1, <2>1 DEF LaunchInv, KeySettled, KeyOrigin
  <2>3. \A m \in Launch \ {l} : proc[m].at \notin {"creating", "filling"}
    BY <1>1, <1>2, <2>1 DEF LaunchInv, KeySettled
  <2> QED BY <1>2, <1>4, <1>5, <2>1, <2>2, <2>3 DEF KeySettled
<1>7. KeyOrigin' /\ CreatorsHaveNone' /\ NothingSealed'
  BY <1>1, <1>4, <1>5 DEF LaunchInv, KeyOrigin, CreatorsHaveNone, NothingSealed
<1>8. HoldersOpen'
  BY <1>1, <1>4, <1>5 DEF LaunchInv, HoldersOpen
<1>9. KeyFileOpensDatabase'
  <2>1. CASE raced'
    BY <2>1 DEF KeyFileOpensDatabase
  <2>2. CASE ~raced'
    BY <1>1, <1>2, <2>2 DEF LaunchInv, LaunchTypeOK, KeySettled, KeyFileOpensDatabase
  <2> QED BY <2>1, <2>2
<1>10. LockedOutByChoice'
  BY <1>1, <1>4, <1>5 DEF LaunchInv, LockedOutByChoice
<1>11. LegacySettled'
  BY <1>1, <1>2 DEF LaunchInv, KeySettled, LegacySettled
<1> QED BY <1>3, <1>6, <1>7, <1>8, <1>9, <1>10, <1>11 DEF LaunchInv

\* Reading the database or config.json, or being turned away by what it holds.
LEMMA LoadInvariant ==
    ASSUME LaunchInv, NEW l \in Launch, Load(l) \/ ReadLegacy(l)
    PROVE  LaunchInv'
<1> USE Names DEF Keys, Generated, Holding, Keyed
<1>1. PICK sealed \in Keys \cup {NoKey}, secrets \in SUBSET Secret,
           place \in {"importing", "upgrading", "loaded"} :
          /\ UNCHANGED <<file, legacy, db, raced, crossed>>
          /\ sealed = db.key \/ (db.key = NoKey /\ legacy # Missing /\ sealed = legacy.key)
          /\ proc[l].at = "keyed"
          /\ \/ /\ sealed \in {NoKey, proc[l].key}
                /\ proc' = [proc EXCEPT ![l].at = place, ![l].secrets = secrets]
             \/ /\ sealed \notin {NoKey, proc[l].key}
                /\ proc' = [proc EXCEPT ![l].at = "locked", ![l].met = sealed]
  <2>1. CASE Load(l)
    <3>1. db.key \in Keys \cup {NoKey} /\ db.secrets \in SUBSET Secret
      BY DEF LaunchInv, LaunchTypeOK
    <3> QED BY <2>1, <3>1 DEF Load, Opens, TurnedAway
  <2>2. CASE ReadLegacy(l)
    <3>1. legacy \in Legacy /\ db.key = NoKey
      BY <2>2 DEF ReadLegacy, LaunchInv, LaunchTypeOK, NothingSealed
    <3>2. legacy.key \in Keys \cup {NoKey} /\ legacy.secrets \in SUBSET Secret
      BY <3>1, LaunchAssumption
    <3> QED BY <2>2, <3>1, <3>2 DEF ReadLegacy, Opens, TurnedAway
  <2> QED BY <2>1, <2>2
<1>2. LaunchTypeOK'
  <2>1. proc' \in [Launch -> ProcType]
    BY <1>1 DEF LaunchInv, LaunchTypeOK, ProcType
  <2> QED BY <1>1, <2>1 DEF LaunchInv, LaunchTypeOK
<1>3. \A m \in Launch : m # l => proc'[m] = proc[m]
  BY <1>1 DEF LaunchInv, LaunchTypeOK
<1>4. /\ proc'[l].key = proc[l].key
      /\ proc'[l].passphrase = proc[l].passphrase
      /\ \/ proc'[l].at = place /\ sealed \in {NoKey, proc[l].key}
         \/ /\ proc'[l].at = "locked"
            /\ proc'[l].met = sealed
            /\ sealed \notin {NoKey, proc[l].key}
  BY <1>1 DEF LaunchInv, LaunchTypeOK, ProcType
<1>5. KeySettled'
  BY <1>1, <1>3, <1>4 DEF LaunchInv, KeySettled
<1>6. KeyOrigin' /\ CreatorsHaveNone' /\ LegacySettled' /\ NothingSealed'
  BY <1>1, <1>3, <1>4 DEF LaunchInv, KeyOrigin, CreatorsHaveNone, LegacySettled, NothingSealed
<1>7. HoldersOpen'
  BY <1>1, <1>3, <1>4 DEF LaunchInv, HoldersOpen
<1>8. KeyFileOpensDatabase'
  BY <1>1 DEF LaunchInv, KeyFileOpensDatabase
<1>9. LockedOutByChoice'
  <2>1. sealed \in Generated => file = sealed \/ raced
    BY <1>1, LaunchAssumption DEF LaunchInv, LaunchTypeOK, KeyFileOpensDatabase, LegacySettled
  <2>2. sealed \notin {NoKey, proc[l].key} =>
            raced \/ proc[l].passphrase # (sealed = Passphrase)
    <3>1. proc[l].passphrase \in BOOLEAN
      BY DEF LaunchInv, LaunchTypeOK, ProcType
    <3> QED BY <1>1, <2>1, <3>1 DEF LaunchInv, KeySettled, KeyOrigin
  <2> QED BY <1>1, <1>3, <1>4, <2>2 DEF LaunchInv, LockedOutByChoice
<1> QED BY <1>2, <1>5, <1>6, <1>7, <1>8, <1>9 DEF LaunchInv

\* Writing the secrets of one launch under its key.
LEMMA WriteInvariant ==
    ASSUME LaunchInv, NEW l \in Launch, NEW secrets \in SUBSET Secret, NEW place \in Holding \cup {"imported"},
           proc[l].at \in Holding, Write(l, secrets, place)
    PROVE  LaunchInv'
<1> USE Names DEF Keys, Generated, Holding, Keyed
<1>1. LaunchTypeOK'
  <2>1. proc[l].key \in Keys
    BY DEF LaunchInv, KeyOrigin
  <2>2. db' \in [configured: BOOLEAN, key: Keys \cup {NoKey}, secrets: SUBSET Secret]
    BY <2>1 DEF Write
  <2>3. proc' \in [Launch -> ProcType]
    <3>1. [proc[l] EXCEPT !.at = place, !.secrets = secrets] \in ProcType
      <4>1. proc[l] \in ProcType
        BY DEF LaunchInv, LaunchTypeOK
      <4> QED BY <4>1 DEF ProcType
    <3>2. proc' = [proc EXCEPT ![l] = [proc[l] EXCEPT !.at = place, !.secrets = secrets]]
      BY DEF LaunchInv, LaunchTypeOK, Write
    <3> QED BY <3>1, <3>2 DEF LaunchInv, LaunchTypeOK
  <2>4. crossed' \in BOOLEAN
    BY DEF LaunchInv, LaunchTypeOK, Write
  <2> QED BY <2>2, <2>3, <2>4 DEF LaunchInv, LaunchTypeOK, Write
<1>2. \A m \in Launch : m # l => proc'[m] = proc[m]
  BY DEF LaunchInv, LaunchTypeOK, Write
<1>3. /\ proc'[l].at \in Holding \cup {"imported"}
      /\ proc'[l].key = proc[l].key
      /\ proc'[l].passphrase = proc[l].passphrase
  BY DEF LaunchInv, LaunchTypeOK, ProcType, Write
<1>4. /\ db'.key \in {NoKey, proc[l].key}
      /\ db'.configured
      /\ UNCHANGED <<file, legacy, raced>>
  BY DEF Write
<1>5. KeySettled'
  BY <1>2, <1>3, <1>4 DEF LaunchInv, KeySettled
<1>6. KeyOrigin' /\ CreatorsHaveNone' /\ LegacySettled' /\ NothingSealed'
  BY <1>2, <1>3, <1>4 DEF LaunchInv, KeyOrigin, CreatorsHaveNone, LegacySettled, NothingSealed
<1>7. HoldersOpen'
  <2> SUFFICES ASSUME ~crossed', NEW m \in Launch, proc'[m].at \in Holding
               PROVE  db'.key \in {NoKey, proc'[m].key}
    BY DEF HoldersOpen
  <2>1. m # l => proc[m].key = proc[l].key
    BY <1>2 DEF Write
  <2> QED BY <1>2, <1>3, <1>4, <2>1
<1>8. KeyFileOpensDatabase'
  BY <1>4 DEF LaunchInv, KeySettled, KeyOrigin, KeyFileOpensDatabase
<1>9. LockedOutByChoice'
  <2> SUFFICES ASSUME NEW m \in Launch, proc'[m].at = "locked"
               PROVE  raced' \/ proc'[m].passphrase # (proc'[m].met = Passphrase)
    BY DEF LockedOutByChoice
  <2>1. raced' = raced /\ proc'[m] = proc[m]
    BY <1>2, <1>3, <1>4
  <2> QED BY <2>1 DEF LaunchInv, LockedOutByChoice
<1> QED BY <1>1, <1>5, <1>6, <1>7, <1>8, <1>9 DEF LaunchInv

\* Every step preserves the invariant.
LEMMA NextInvariant == LaunchInv /\ [LaunchNext]_launchVars => LaunchInv'
<1> SUFFICES ASSUME LaunchInv, [LaunchNext]_launchVars PROVE LaunchInv'
  OBVIOUS
<1>1. ASSUME NEW l \in Launch, Start(l) PROVE LaunchInv'
  BY <1>1, MoveInvariant DEF Start, Holding
<1>2. ASSUME NEW l \in Launch, UsePassphrase(l) PROVE LaunchInv'
  BY <1>2, KeyInvariant
<1>3. ASSUME NEW l \in Launch, ReadKey(l) PROVE LaunchInv'
  <2>1. CASE file \in Generated
    BY <1>3, <2>1, KeyInvariant
  <2>2. CASE file = Missing
    BY <1>3, <2>2, CreateInvariant
  <2>3. CASE file = Torn
    BY <1>3, <2>3, Names, MoveInvariant DEF ReadKey, Holding, Keys, Generated
  <2> QED BY <2>1, <2>2, <2>3 DEF LaunchInv, LaunchTypeOK
<1>4. ASSUME NEW l \in Launch, CreateKey(l) PROVE LaunchInv'
  BY <1>4, CreateInvariant
<1>5. ASSUME NEW l \in Launch, FillKey(l) PROVE LaunchInv'
  BY <1>5, KeyInvariant
<1>6. ASSUME NEW l \in Launch, Load(l) \/ ReadLegacy(l) PROVE LaunchInv'
  BY <1>6, LoadInvariant
<1>7. ASSUME NEW l \in Launch, Import(l) PROVE LaunchInv'
  <2>1. proc[l].secrets \in SUBSET Secret
    BY DEF LaunchInv, LaunchTypeOK, ProcType
  <2> QED BY <1>7, <2>1, WriteInvariant DEF Import, Holding
<1>8. ASSUME NEW l \in Launch, Retire(l) PROVE LaunchInv'
  BY <1>8, RetireInvariant
<1>9. ASSUME NEW l \in Launch, Upgrade(l) PROVE LaunchInv'
  <2>1. (proc[l].secrets \ {ProxyToken}) \cup {AccessKey} \in SUBSET Secret
    BY LaunchAssumption DEF LaunchInv, LaunchTypeOK, ProcType
  <2> QED BY <1>9, <2>1, WriteInvariant DEF Upgrade, Holding
<1>10. ASSUME NEW l \in Launch, InitToken(l) PROVE LaunchInv'
  <2>1. CASE Write(l, proc[l].secrets \cup {AdminToken}, "opening")
    <3>1. proc[l].secrets \cup {AdminToken} \in SUBSET Secret
      BY LaunchAssumption DEF LaunchInv, LaunchTypeOK, ProcType
    <3> QED BY <1>10, <2>1, <3>1, WriteInvariant DEF InitToken, Holding
  <2>2. CASE Goes(l, "opening") /\ UNCHANGED <<file, legacy, db, raced, crossed>>
    BY <1>10, <2>2, MoveInvariant DEF InitToken, Holding
  <2> QED BY <1>10, <2>1, <2>2 DEF InitToken
<1>11. ASSUME NEW l \in Launch, Listen(l) PROVE LaunchInv'
  BY <1>11, MoveInvariant DEF Listen, Holding
<1>12. ASSUME NEW l \in Launch, Save(l) PROVE LaunchInv'
  <2>1. PICK secrets \in SUBSET Secret :
            Write(l, secrets, proc[l].at) /\ proc[l].at \in Holding
    BY <1>12 DEF Save, Holding
  <2> QED BY <2>1, WriteInvariant
<1>13. ASSUME NEW l \in Launch, Stop(l) \/ Close(l) \/ Crash(l) PROVE LaunchInv'
  BY <1>13, MoveInvariant DEF Stop, Close, Crash, Holding
<1>14. ASSUME UNCHANGED launchVars PROVE LaunchInv'
  BY <1>14 DEF launchVars, LaunchInv, LaunchTypeOK, KeySettled, KeyOrigin, CreatorsHaveNone,
               LegacySettled, NothingSealed, HoldersOpen, KeyFileOpensDatabase,
               LockedOutByChoice
<1> QED BY <1>1, <1>2, <1>3, <1>4, <1>5, <1>6, <1>7, <1>8, <1>9, <1>10, <1>11, <1>12,
           <1>13, <1>14 DEF LaunchNext

\* What starting and stopping keep true of the files.
THEOREM LaunchInvariant == LaunchSpec => []LaunchInv
BY InitInvariant, NextInvariant, PTL DEF LaunchSpec

(***************************************************************************)
(* However many launches there are, and whatever the crashes between their *)
(* steps: the key file opens what is sealed under a generated key.         *)
(***************************************************************************)
THEOREM KeyFileKept == LaunchSpec => []KeyFileOpensDatabase
<1>1. LaunchInv => KeyFileOpensDatabase
  BY DEF LaunchInv
<1> QED BY <1>1, LaunchInvariant, PTL

(***************************************************************************)
(* A launch is locked out of the database only by the choice of its        *)
(* OMNI_MASTER_KEY, or by two first launches at once.                      *)
(***************************************************************************)
THEOREM LockedOut == LaunchSpec => []LockedOutByChoice
<1>1. LaunchInv => LockedOutByChoice
  BY DEF LaunchInv
<1> QED BY <1>1, LaunchInvariant, PTL

(***************************************************************************)
(* Secrets never go from one key to another as long as no launch writes    *)
(* while another one, under another key, holds the configuration or        *)
(* imports one; whatever crashes, an import between its write and the      *)
(* renaming of its file included.                                          *)
(***************************************************************************)
THEOREM SameKey == LaunchSpec => SealedBySameKey
<1>1. ASSUME LaunchInv, NEW l \in Launch, NEW secrets, NEW place,
             proc[l].at \in Holding, Write(l, secrets, place)
      PROVE  db.key # NoKey /\ db'.key \notin {NoKey, db.key} => crossed
  BY <1>1 DEF LaunchInv, HoldersOpen, Write
<1>2. LaunchInv /\ [LaunchNext]_launchVars =>
          [db.key # NoKey /\ db'.key \notin {NoKey, db.key} => crossed]_launchVars
  <2> SUFFICES ASSUME LaunchInv, LaunchNext, ~UNCHANGED db
               PROVE  db.key # NoKey /\ db'.key \notin {NoKey, db.key} => crossed
    BY DEF launchVars
  <2>1. PICK l \in Launch :
            proc[l].at \in Holding /\ \E secrets, place : Write(l, secrets, place)
    BY DEF LaunchNext, Start, UsePassphrase, ReadKey, CreateKey, FillKey, Load,
           ReadLegacy, Import, Retire, Upgrade, InitToken, Listen, Save, Stop, Close, Crash, Holding
  <2> QED BY <1>1, <2>1
<1> QED BY <1>2, LaunchInvariant, PTL DEF LaunchSpec, SealedBySameKey
=============================================================================
