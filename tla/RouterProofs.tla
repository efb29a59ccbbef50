---------------------------- MODULE RouterProofs ----------------------------
(***************************************************************************)
(* Proofs about Router for every set of requests and names, every bound on *)
(* the target lists and every set of statuses.                             *)
(***************************************************************************)
EXTENDS Router, TLAPS

\* A request past its lock has at least one target, and its start is one.
RangeInv ==
  \A r \in Requests :
    /\ pc[r] = "advance" => length[r] > 0
    /\ pc[r] \in {"store", "call"} => start[r] < length[r]
    /\ pc[r] = "call" => offset[r] < length[r]

\* The mutex is held exactly while a start has been read and not yet stored,
\* and the cursor has not moved since.
MutexInv ==
  \A r \in Requests :
    pc[r] = "store" => /\ mutex = r
                       /\ start[r] = IF cursor[name[r]] >= length[r]
                                       THEN 0 ELSE cursor[name[r]]

\* The attempts walk the list from start, one after the other, with wrap-around.
Nth(r, i) == IF start[r] + i - 1 < length[r]
               THEN start[r] + i - 1 ELSE start[r] + i - 1 - length[r]

Walk(r) ==
  /\ pc[r] \in {"idle", "advance", "store"} => Len(attempts[r]) = 0 /\ offset[r] = 0
  /\ pc[r] \in {"idle", "advance"} => start[r] = 0
  /\ pc[r] = "call" => Len(attempts[r]) = offset[r]
  /\ Len(attempts[r]) > 0 => start[r] < length[r]
  /\ Len(attempts[r]) <= length[r]
  /\ \A i \in 1 .. Len(attempts[r]) : attempts[r][i].target = Nth(r, i)

WalkInv == \A r \in Requests : Walk(r)

\* What the attempts of a call in progress were, and why an ended one ended.
Failing(r) ==
  /\ pc[r] = "call" =>
       \A i \in 1 .. Len(attempts[r]) : /\ ~ attempts[r][i].ok
                                        /\ IsSwitchableStatus(attempts[r][i].status)
  /\ pc[r] \in {"idle", "advance", "store"} => last[r] = 503

OutcomeInv == \A r \in Requests : Failing(r)

\* The cursor is the successor of the last turn handed out.
CursorInv ==
  \A n \in Names : Len(turns[n]) > 0 =>
    LET t == turns[n][Len(turns[n])] IN cursor[n] = (t.start + 1) % t.length

\* Turns i and j of a stretch of equal lengths L are j - i apart, modulo L.
Turn == [start : 0 .. MaxTargets - 1, length : 1 .. MaxTargets]

Apart(s, i, j) ==
  s[j].start = IF s[i].start + (j - i) < s[i].length
                 THEN s[i].start + (j - i)
                 ELSE s[i].start + (j - i) - s[i].length

Rotates(s) ==
  /\ \A i \in 1 .. Len(s) : s[i].start < s[i].length
  /\ \A i, j \in 1 .. Len(s) :
       /\ i < j
       /\ \A k \in i .. j : s[k].length = s[i].length
       /\ j - i < s[i].length
       => Apart(s, i, j)

TurnsInv == \A n \in Names : Rotates(turns[n])

IInv == /\ TypeOK /\ RangeInv /\ MutexInv /\ WalkInv
        /\ OutcomeInv /\ FailoverDiscipline /\ CursorInv /\ TurnsInv
-----------------------------------------------------------------------------
\* Go's % on a sum below twice the divisor is one conditional subtraction.
LEMMA ModWrap ==
  ASSUME NEW L \in Nat \ {0}, NEW a \in Nat, a < 2 * L
  PROVE  a % L = IF a < L THEN a ELSE a - L
  BY SMT

\* The cursor advance returns to 0 at the end of the list.
LEMMA ModSuccessor ==
  ASSUME NEW L \in Nat \ {0}, NEW a \in Nat, a < L
  PROVE  (a + 1) % L = IF a + 1 < L THEN a + 1 ELSE 0
  BY SMT

\* A turn that succeeds the last one keeps a sequence of turns rotating.
LEMMA AppendTurn ==
  ASSUME NEW s \in Seq(Turn), Rotates(s), NEW t \in Turn, t.start < t.length,
         Len(s) > 0 /\ s[Len(s)].length = t.length =>
           t.start = IF s[Len(s)].start + 1 < t.length THEN s[Len(s)].start + 1 ELSE 0
  PROVE  Rotates(Append(s, t))
<1> DEFINE u == Append(s, t)
           k == Len(s)
<1>1. /\ k \in Nat /\ Len(u) = k + 1 /\ u[k + 1] = t
      /\ \A i \in 1 .. k : u[i] = s[i]
  OBVIOUS
<1>2. ASSUME NEW i \in 1 .. k PROVE s[i].start \in Nat /\ s[i].length \in Nat \ {0}
  <2>1. s[i] \in Turn
    OBVIOUS
  <2> QED
    BY <2>1, RouterAssumption DEF Turn
<1>3. t.start \in Nat /\ t.length \in Nat
  BY RouterAssumption DEF Turn
<1> HIDE DEF u
<1>4. ASSUME NEW i \in 1 .. Len(u) PROVE u[i].start < u[i].length
  <2>1. CASE i <= k
    BY <2>1, <1>1 DEF Rotates
  <2>2. CASE i = k + 1
    BY <2>2, <1>1
  <2> QED
    BY <2>1, <2>2, <1>1
<1>5. ASSUME NEW i \in 1 .. Len(u), NEW j \in 1 .. Len(u), i < j,
             \A x \in i .. j : u[x].length = u[i].length,
             j - i < u[i].length
      PROVE  Apart(u, i, j)
  <2>1. CASE j <= k
    <3>1. \A x \in i .. j : u[x] = s[x]
      BY <2>1, <1>1
    <3>2. \A x \in i .. j : s[x].length = s[i].length
      BY <3>1, <1>5
    <3>3. u[i] = s[i] /\ u[j] = s[j] /\ i \in 1 .. k /\ j \in 1 .. k
      BY <2>1, <1>1, <1>5
    <3>4. Apart(s, i, j)
      BY <3>2, <3>3, <1>5 DEF Rotates
    <3> QED
      BY <3>3, <3>4 DEF Apart
  <2>2. CASE j = k + 1
    <3>1. i \in 1 .. k /\ k \in 1 .. k /\ k \in i .. j /\ u[i] = s[i] /\ u[k] = s[k] /\ u[j] = t
      BY <2>2, <1>1, <1>5
    <3>2. s[k].length = s[i].length /\ t.length = s[i].length
      BY <3>1, <1>5, <2>2, <1>1
    <3>3. /\ s[i].start \in Nat /\ s[k].start \in Nat /\ s[i].length \in Nat
          /\ s[i].start < s[i].length /\ s[k].start < s[k].length
      BY <3>1, <1>2 DEF Rotates
    <3>4. t.start = IF s[k].start + 1 < t.length THEN s[k].start + 1 ELSE 0
      BY <3>1, <3>2, <1>1
    <3>5. CASE i = k
      BY <3>1, <3>2, <3>3, <3>4, <3>5, <2>2 DEF Apart
    <3>6. CASE i < k
      <4>1. \A x \in i .. k : s[x].length = s[i].length
        BY <3>1, <2>2, <1>1, <1>5
      <4>2. k - i < s[i].length
        BY <3>1, <2>2, <1>1, <1>5, <3>3
      <4>3. Apart(s, i, k)
        BY <4>1, <4>2, <3>1, <3>6 DEF Rotates
      <4>4. t.start = IF s[i].start + (j - i) < s[i].length
                        THEN s[i].start + (j - i) ELSE s[i].start + (j - i) - s[i].length
        <5> DEFINE d == k - i
                   L == s[i].length
                   a == s[i].start
                   b == s[k].start
                   c == t.start
        <5>1. d \in Nat /\ d + 1 < L /\ j - i = d + 1
          BY <3>1, <3>2, <3>3, <3>6, <2>2, <1>1, <1>5
        <5>2. b = IF a + d < L THEN a + d ELSE a + d - L
          BY <4>3 DEF Apart
        <5>3. c = IF b + 1 < L THEN b + 1 ELSE 0
          BY <3>2, <3>4
        <5>4. a \in Nat /\ b \in Nat /\ c \in Nat /\ L \in Nat /\ a < L /\ b < L
          BY <3>2, <3>3, <1>3
        <5> HIDE DEF a, b, c, d, L
        <5>5. c = IF a + (d + 1) < L THEN a + (d + 1) ELSE a + (d + 1) - L
          BY <5>1, <5>2, <5>3, <5>4
        <5> QED
          BY <5>1, <5>5 DEF a, c, L
      <4> QED
        BY <4>4, <3>1 DEF Apart
    <3> QED
      BY <3>1, <3>5, <3>6, <1>1
  <2> QED
    BY <2>1, <2>2, <1>1
<1> QED
  BY <1>4, <1>5 DEF Rotates, u

\* The status recorded of an outcome is a number.
LEMMA StatusType ==
  ASSUME NEW o \in Outcomes
  PROVE  o.status \in Nat /\ FailureStatus(o) \in Nat
<1>1. o.status \in Nat
  BY RouterAssumption DEF Outcomes
<1> QED
  BY <1>1 DEF FailureStatus

\* The walk visits the indices of its list without repeating one.
LEMMA NthDistinct ==
  ASSUME NEW r \in Requests, start[r] \in Nat, length[r] \in Nat, start[r] < length[r],
         NEW i \in Nat, NEW j \in Nat, i > 0, j > 0, i <= length[r], j <= length[r]
  PROVE  Nth(r, i) \in 0 .. length[r] - 1 /\ (Nth(r, i) = Nth(r, j) => i = j)
  BY DEF Nth

\* The target of the next call is one of the list, the one after offset steps.
LEMMA TargetIsNth ==
  ASSUME IInv, NEW r \in Requests, pc[r] = "call"
  PROVE  /\ Target(r) = Nth(r, Len(attempts[r]) + 1)
         /\ Target(r) \in 0 .. length[r] - 1
         /\ Target(r) \in 0 .. MaxTargets - 1
<1>1. /\ length[r] \in Nat \ {0} /\ start[r] \in Nat /\ offset[r] \in Nat
      /\ start[r] < length[r] /\ offset[r] < length[r]
      /\ length[r] <= MaxTargets /\ Len(attempts[r]) = offset[r]
  BY RouterAssumption DEF IInv, TypeOK, RangeInv, WalkInv, Walk
<1>2. Target(r) = IF start[r] + offset[r] < length[r] THEN start[r] + offset[r]
                  ELSE start[r] + offset[r] - length[r]
  <2>1. /\ start[r] + offset[r] \in Nat /\ start[r] + offset[r] < 2 * length[r]
    BY <1>1
  <2> DEFINE a == start[r] + offset[r]
  <2>2. a \in Nat /\ a < 2 * length[r]
    BY <2>1
  <2>3. Target(r) = a % length[r]
    BY DEF Target
  <2> HIDE DEF a
  <2>4. a % length[r] = IF a < length[r] THEN a ELSE a - length[r]
    BY <1>1, <2>2, ModWrap
  <2> QED
    BY <1>1, <2>1, <2>3, <2>4 DEF a
<1>3. Nth(r, offset[r] + 1) = IF start[r] + offset[r] < length[r] THEN start[r] + offset[r]
                              ELSE start[r] + offset[r] - length[r]
  BY <1>1 DEF Nth
<1> QED
  BY <1>1, <1>2, <1>3, RouterAssumption

\* A step that leaves a request alone preserves what is said of it.
LEMMA RequestFrame ==
  ASSUME NEW r \in Requests, Walk(r), Failing(r), Disciplined(r),
         pc'[r] = pc[r], start'[r] = start[r], offset'[r] = offset[r],
         length'[r] = length[r], last'[r] = last[r], attempts'[r] = attempts[r]
  PROVE  Walk(r)' /\ Failing(r)' /\ Disciplined(r)'
<1>1. Walk(r)'
  BY DEF Walk, Nth
<1>2. Failing(r)'
  BY DEF Failing
<1>3. Disciplined(r)'
  BY DEF Disciplined
<1> QED
  BY <1>1, <1>2, <1>3

\* The initial state satisfies the inductive invariant.
LEMMA InitIInv == Init => IInv
<1> SUFFICES ASSUME Init PROVE IInv
  OBVIOUS
<1>1. TypeOK
  BY RouterAssumption DEF Init, TypeOK
<1>2. RangeInv /\ MutexInv
  BY RouterAssumption DEF Init, RangeInv, MutexInv
<1>3. OutcomeInv
  BY RouterAssumption DEF Init, OutcomeInv, Failing
<1>4. CursorInv /\ TurnsInv
  BY RouterAssumption DEF Init, CursorInv, TurnsInv, Rotates
<1>5. ASSUME NEW r \in Requests
      PROVE  /\ pc[r] = "idle" /\ offset[r] = 0 /\ start[r] = 0
             /\ Len(attempts[r]) = 0 /\ length[r] \in Nat
  <2>1. attempts[r] = <<>> /\ pc[r] = "idle" /\ offset[r] = 0 /\ start[r] = 0
    BY DEF Init
  <2>2. length[r] \in Nat
    BY RouterAssumption DEF Init
  <2> QED
    BY <2>1, <2>2
<1>6. WalkInv
  <2> SUFFICES ASSUME NEW r \in Requests PROVE Walk(r)
    BY DEF WalkInv
  <2> QED
    BY <1>5 DEF Walk
<1>7. FailoverDiscipline
  <2> SUFFICES ASSUME NEW r \in Requests PROVE Disciplined(r)
    BY DEF FailoverDiscipline
  <2> QED
    BY <1>5 DEF Disciplined
<1> QED
  BY <1>1, <1>2, <1>3, <1>4, <1>6, <1>7 DEF IInv

-----------------------------------------------------------------------------
\* Entering Execute decides only whether there is anything to walk.
LEMMA EnterIInv == ASSUME IInv, NEW q \in Requests, Enter(q) PROVE IInv'
<1> USE RouterAssumption
<1>1. TypeOK'
  BY DEF IInv, TypeOK, Enter
<1>2. RangeInv'
  BY DEF IInv, TypeOK, RangeInv, Enter
<1>3. MutexInv'
  BY DEF IInv, TypeOK, MutexInv, Enter
<1>4. ASSUME NEW r \in Requests PROVE Walk(r)'
  BY DEF IInv, TypeOK, WalkInv, Walk, Nth, Enter
<1>5. ASSUME NEW r \in Requests PROVE Failing(r)'
  <2>1. CASE r = q
    <3>1. pc[r] = "idle" /\ pc'[r] # "call" /\ last' = last
      BY <2>1 DEF IInv, TypeOK, Enter
    <3>2. last[r] = 503
      BY <3>1 DEF IInv, OutcomeInv, Failing
    <3> QED
      BY <3>1, <3>2 DEF Failing
  <2>2. CASE r # q
    <3>1. /\ pc'[r] = pc[r] /\ start'[r] = start[r] /\ offset'[r] = offset[r]
          /\ length'[r] = length[r] /\ last'[r] = last[r] /\ attempts'[r] = attempts[r]
      BY <2>2 DEF IInv, TypeOK, Enter
    <3> QED
      BY <3>1, RequestFrame DEF IInv, WalkInv, OutcomeInv, FailoverDiscipline
  <2> QED
    BY <2>1, <2>2
<1>6. ASSUME NEW r \in Requests PROVE Disciplined(r)'
  <2>1. CASE r = q
    BY <2>1 DEF IInv, TypeOK, WalkInv, Walk, OutcomeInv, Failing, Disciplined, Enter
  <2>2. CASE r # q
    BY <2>2 DEF IInv, TypeOK, FailoverDiscipline, Disciplined, Enter
  <2> QED
    BY <2>1, <2>2
<1>7. CursorInv' /\ TurnsInv'
  BY DEF IInv, CursorInv, TurnsInv, Enter
<1> QED
  BY <1>1, <1>2, <1>3, <1>4, <1>5, <1>6, <1>7
     DEF IInv, WalkInv, OutcomeInv, FailoverDiscipline

\* Reading the cursor folds it into the reader's list and takes the mutex.
LEMMA ReadIInv == ASSUME IInv, NEW q \in Requests, ReadCursor(q) PROVE IInv'
<1> USE RouterAssumption
<1>1. TypeOK'
  <2>1. /\ name[q] \in Names /\ cursor[name[q]] \in 0 .. MaxTargets - 1
    BY DEF IInv, TypeOK
  <2>2. start' \in [Requests -> 0 .. MaxTargets - 1]
    BY <2>1 DEF IInv, TypeOK, ReadCursor
  <2> QED
    BY <2>2 DEF IInv, TypeOK, ReadCursor
<1>2. RangeInv'
  BY DEF IInv, TypeOK, RangeInv, ReadCursor
<1>3. MutexInv'
  BY DEF IInv, TypeOK, MutexInv, ReadCursor
<1>4. ASSUME NEW r \in Requests PROVE Walk(r)'
  <2>1. CASE r = q
    BY <2>1 DEF IInv, TypeOK, WalkInv, Walk, Nth, ReadCursor
  <2>2. CASE r # q
    BY <2>2 DEF IInv, TypeOK, WalkInv, Walk, Nth, ReadCursor
  <2> QED
    BY <2>1, <2>2
<1>5. ASSUME NEW r \in Requests PROVE Failing(r)'
  BY DEF IInv, TypeOK, OutcomeInv, Failing, ReadCursor
<1>6. ASSUME NEW r \in Requests PROVE Disciplined(r)'
  <2>1. CASE r = q
    BY <2>1 DEF IInv, TypeOK, WalkInv, Walk, FailoverDiscipline, Disciplined, ReadCursor
  <2>2. CASE r # q
    BY <2>2 DEF IInv, TypeOK, FailoverDiscipline, Disciplined, ReadCursor
  <2> QED
    BY <2>1, <2>2
<1>7. CursorInv' /\ TurnsInv'
  BY DEF IInv, CursorInv, TurnsInv, ReadCursor
<1> QED
  BY <1>1, <1>2, <1>3, <1>4, <1>5, <1>6, <1>7
     DEF IInv, WalkInv, OutcomeInv, FailoverDiscipline

\* Storing the cursor hands out the turn after the last one.
LEMMA StoreIInv == ASSUME IInv, NEW q \in Requests, StoreCursor(q) PROVE IInv'
<1> USE RouterAssumption
<1>1. /\ name[q] \in Names /\ length[q] \in 1 .. MaxTargets
      /\ start[q] \in 0 .. length[q] - 1 /\ mutex = q
  BY DEF IInv, TypeOK, RangeInv, MutexInv, StoreCursor
<1>2. start[q] = IF cursor[name[q]] >= length[q] THEN 0 ELSE cursor[name[q]]
  BY DEF IInv, MutexInv, StoreCursor
<1>3. /\ (start[q] + 1) % length[q] \in 0 .. MaxTargets - 1
      /\ (start[q] + 1) % length[q] = IF start[q] + 1 < length[q] THEN start[q] + 1 ELSE 0
  <2>1. start[q] \in Nat /\ start[q] < length[q] /\ length[q] \in Nat \ {0}
    BY <1>1
  <2>2. (start[q] + 1) % length[q] = IF start[q] + 1 < length[q] THEN start[q] + 1 ELSE 0
    BY <2>1, ModSuccessor
  <2> QED
    BY <1>1, <2>1, <2>2
<1> DEFINE n == name[q]
           t == [start |-> start[q], length |-> length[q]]
<1>4. /\ t \in [start : 0 .. MaxTargets - 1, length : 1 .. MaxTargets]
      /\ t \in Turn /\ t.start < t.length
  BY <1>1 DEF Turn
<1>5. /\ turns'[n] = Append(turns[n], t) /\ cursor'[n] = (start[q] + 1) % length[q]
      /\ \A m \in Names : m # n => turns'[m] = turns[m] /\ cursor'[m] = cursor[m]
  BY <1>1 DEF IInv, TypeOK, StoreCursor
<1>6. turns[n] \in Seq([start : 0 .. MaxTargets - 1, length : 1 .. MaxTargets])
  BY <1>1 DEF IInv, TypeOK
<1>7. TypeOK'
  <2>1. cursor' \in [Names -> 0 .. MaxTargets - 1]
    BY <1>1, <1>3 DEF IInv, TypeOK, StoreCursor
  <2>2. turns' \in [Names -> Seq([start : 0 .. MaxTargets - 1, length : 1 .. MaxTargets])]
    <3>1. Append(turns[n], t) \in Seq([start : 0 .. MaxTargets - 1, length : 1 .. MaxTargets])
      BY <1>4, <1>6
    <3> QED
      BY <3>1, <1>1 DEF IInv, TypeOK, StoreCursor
  <2> QED
    BY <2>1, <2>2 DEF IInv, TypeOK, StoreCursor
<1>8. RangeInv'
  BY DEF IInv, TypeOK, RangeInv, MutexInv, WalkInv, Walk, StoreCursor
<1>9. MutexInv'
  BY <1>1 DEF IInv, TypeOK, MutexInv, StoreCursor
<1>10. ASSUME NEW r \in Requests PROVE Walk(r)' /\ Failing(r)' /\ Disciplined(r)'
  <2>1. CASE r = q
    <3>1. pc[r] = "store" /\ pc'[r] = "call" /\ attempts' = attempts /\ length' = length
          /\ start' = start /\ offset' = offset /\ last' = last
      BY <2>1 DEF IInv, TypeOK, StoreCursor
    <3>2. Len(attempts[r]) = 0 /\ offset[r] = 0 /\ length[r] \in Nat
      BY <3>1 DEF IInv, TypeOK, WalkInv, Walk
    <3>3. \A i \in 1 .. Len(attempts[r]) - 1 : FALSE
      BY <3>2
    <3>4. Walk(r)'
      BY <3>1, <3>2 DEF Walk
    <3>5. Failing(r)'
      BY <3>1, <3>2 DEF Failing
    <3>6. Disciplined(r)'
      <4>1. /\ pc'[r] # "served" /\ pc'[r] # "failed"
            /\ \A i \in 1 .. Len(attempts'[r]) - 1 : FALSE
        BY <3>1, <3>3
      <4> QED
        BY <4>1 DEF Disciplined
    <3> QED
      BY <3>4, <3>5, <3>6
  <2>2. CASE r # q
    <3>1. /\ pc'[r] = pc[r] /\ start'[r] = start[r] /\ offset'[r] = offset[r]
          /\ length'[r] = length[r] /\ last'[r] = last[r] /\ attempts'[r] = attempts[r]
      BY <2>2 DEF IInv, TypeOK, StoreCursor
    <3> QED
      BY <3>1, RequestFrame DEF IInv, WalkInv, OutcomeInv, FailoverDiscipline
  <2> QED
    BY <2>1, <2>2
<1>11. CursorInv'
  <2> SUFFICES ASSUME NEW m \in Names, Len(turns'[m]) > 0
               PROVE  cursor'[m] = (turns'[m][Len(turns'[m])].start + 1)
                                     % turns'[m][Len(turns'[m])].length
    BY DEF CursorInv
  <2>1. CASE m = n
    <3>1. turns'[m][Len(turns'[m])] = t
      BY <1>4, <1>5, <1>6, <2>1
    <3> QED
      BY <3>1, <2>1, <1>5
  <2>2. CASE m # n
    BY <2>2, <1>5 DEF IInv, CursorInv
  <2> QED
    BY <2>1, <2>2
<1>12. ASSUME NEW m \in Names PROVE Rotates(turns'[m])
  <2>1. CASE m # n
    BY <2>1, <1>5 DEF IInv, TurnsInv
  <2>2. CASE m = n
    <3> DEFINE s == turns[n]
    <3>1. s \in Seq(Turn) /\ Rotates(s)
      BY <1>1, <1>6 DEF IInv, TurnsInv, Turn
    <3>2. ASSUME Len(s) > 0, s[Len(s)].length = t.length
          PROVE  t.start = IF s[Len(s)].start + 1 < t.length THEN s[Len(s)].start + 1 ELSE 0
      <4>1. /\ s[Len(s)].start \in Nat /\ s[Len(s)].start < length[q]
            /\ cursor[n] = (s[Len(s)].start + 1) % length[q]
        <5>1. Len(s) \in 1 .. Len(s) /\ s[Len(s)] \in Turn
          BY <3>1, <3>2
        <5>2. s[Len(s)].start \in Nat
          BY <5>1 DEF Turn
        <5>3. s[Len(s)].start < s[Len(s)].length
          BY <3>1, <5>1 DEF Rotates
        <5>4. cursor[n] = (s[Len(s)].start + 1) % s[Len(s)].length
          BY <1>1, <3>2 DEF IInv, CursorInv
        <5> QED
          BY <5>2, <5>3, <5>4, <3>2, <1>1
      <4> DEFINE a == s[Len(s)].start
      <4>2. a \in Nat /\ a < length[q] /\ cursor[n] = (a + 1) % length[q]
        BY <4>1
      <4> HIDE DEF a
      <4>3. cursor[n] = IF a + 1 < length[q] THEN a + 1 ELSE 0
        BY <4>2, <1>1, ModSuccessor
      <4>4. start[q] = IF a + 1 < length[q] THEN a + 1 ELSE 0
        BY <4>2, <4>3, <1>1, <1>2
      <4> QED
        BY <4>4 DEF a
    <3>3. Rotates(Append(s, t))
      BY <3>1, <3>2, <1>4, AppendTurn
    <3> QED
      BY <3>3, <2>2, <1>5
  <2> QED
    BY <2>1, <2>2
<1> QED
  BY <1>7, <1>8, <1>9, <1>10, <1>11, <1>12
     DEF IInv, WalkInv, OutcomeInv, FailoverDiscipline, TurnsInv

\* A call that returns appends one attempt to those of its request.
LEMMA ReturnIInv ==
  ASSUME IInv, NEW q \in Requests, NEW o \in Outcomes,
         CallSucceeds(q, o) \/ CallRefused(q, o) \/ CallSwitches(q, o)
  PROVE  IInv'
<1> USE RouterAssumption
<1> DEFINE a == [target |-> Target(q), ok |-> Succeeds(o),
                 status |-> IF Succeeds(o) THEN o.status ELSE FailureStatus(o)]
           k == Len(attempts[q])
<1>1. /\ pc[q] = "call" /\ attempts' = [attempts EXCEPT ![q] = Append(@, a)]
      /\ start' = start /\ length' = length /\ name' = name /\ mutex' = mutex
      /\ cursor' = cursor /\ turns' = turns
  BY DEF CallSucceeds, CallRefused, CallSwitches, Attempted
<1>2. /\ offset[q] \in Nat /\ length[q] \in 0 .. MaxTargets /\ k = offset[q]
      /\ offset[q] < length[q] /\ start[q] \in Nat /\ start[q] < length[q]
  BY <1>1 DEF IInv, TypeOK, RangeInv, WalkInv, Walk
<1>3. /\ Target(q) = Nth(q, k + 1)
      /\ Target(q) \in 0 .. length[q] - 1
      /\ Target(q) \in 0 .. MaxTargets - 1
  BY <1>1, TargetIsNth
<1>4. a \in [target : 0 .. MaxTargets - 1, ok : BOOLEAN, status : Nat]
  <2>1. o.status \in Nat /\ FailureStatus(o) \in Nat
    BY StatusType
  <2>2. Succeeds(o) \in BOOLEAN
    BY DEF Succeeds
  <2> QED
    BY <2>1, <2>2, <1>3
<1>5. attempts[q] \in Seq([target : 0 .. MaxTargets - 1, ok : BOOLEAN, status : Nat])
  BY DEF IInv, TypeOK
<1>6. /\ k \in Nat /\ Len(attempts'[q]) = k + 1 /\ attempts'[q][k + 1] = a
      /\ \A i \in 1 .. k : attempts'[q][i] = attempts[q][i]
  <2>1. attempts'[q] = Append(attempts[q], a)
    BY <1>1 DEF IInv, TypeOK
  <2> HIDE DEF a
  <2> QED
    BY <1>4, <1>5, <2>1
<1>7. /\ pc' \in [Requests -> {"idle", "advance", "store", "call", "served", "failed"}]
      /\ last' \in [Requests -> Nat]
      /\ offset' \in [Requests -> 0 .. MaxTargets]
  <2>1. FailureStatus(o) \in Nat
    BY StatusType
  <2>2. CASE CallSucceeds(q, o)
    BY <2>2 DEF IInv, TypeOK, CallSucceeds
  <2>3. CASE CallRefused(q, o)
    BY <2>1, <2>3 DEF IInv, TypeOK, CallRefused
  <2>4. CASE CallSwitches(q, o)
    <3>1. offset[q] + 1 \in 0 .. MaxTargets
      BY <1>2
    <3> QED
      BY <2>1, <2>4, <3>1 DEF IInv, TypeOK, CallSwitches
  <2> QED
    BY <2>2, <2>3, <2>4
<1>8. TypeOK'
  <2>1. attempts' \in
          [Requests -> Seq([target : 0 .. MaxTargets - 1, ok : BOOLEAN, status : Nat])]
    <3>1. Append(attempts[q], a)
            \in Seq([target : 0 .. MaxTargets - 1, ok : BOOLEAN, status : Nat])
      BY <1>4, <1>5
    <3> HIDE DEF a
    <3> QED
      BY <3>1, <1>1 DEF IInv, TypeOK
  <2> QED
    BY <2>1, <1>1, <1>7 DEF IInv, TypeOK
<1>9. ASSUME NEW r \in Requests, r # q
      PROVE  /\ pc'[r] = pc[r] /\ start'[r] = start[r] /\ offset'[r] = offset[r]
             /\ length'[r] = length[r] /\ last'[r] = last[r] /\ attempts'[r] = attempts[r]
  BY <1>1, <1>9 DEF IInv, TypeOK, CallSucceeds, CallRefused, CallSwitches
<1>10. \/ /\ pc'[q] = "served" /\ a.ok
       \/ /\ pc'[q] = "failed" /\ ~ a.ok /\ last'[q] = a.status
          /\ k + 1 = length[q] \/ ~ IsSwitchableStatus(a.status)
       \/ /\ pc'[q] = "call" /\ ~ a.ok /\ IsSwitchableStatus(a.status)
          /\ offset'[q] = k + 1 /\ k + 1 < length[q]
  <2>1. CASE CallSucceeds(q, o)
    BY <2>1 DEF IInv, TypeOK, CallSucceeds
  <2>2. CASE CallRefused(q, o)
    BY <2>2 DEF IInv, TypeOK, CallRefused
  <2>3. CASE CallSwitches(q, o)
    <3>1. /\ ~ a.ok /\ a.status = FailureStatus(o) /\ IsSwitchableStatus(a.status)
          /\ last'[q] = a.status /\ offset'[q] = k + 1
      BY <1>2, <2>3 DEF IInv, TypeOK, CallSwitches
    <3>2. pc'[q] = IF k + 1 < length[q] THEN "call" ELSE "failed"
      BY <1>2, <2>3 DEF IInv, TypeOK, CallSwitches
    <3> HIDE DEF a
    <3> QED
      BY <3>1, <3>2, <1>2
  <2> QED
    BY <2>1, <2>2, <2>3
<1> HIDE DEF a
<1>11. RangeInv'
  <2> SUFFICES ASSUME NEW r \in Requests
               PROVE  /\ pc'[r] = "advance" => length'[r] > 0
                      /\ pc'[r] \in {"store", "call"} => start'[r] < length'[r]
                      /\ pc'[r] = "call" => offset'[r] < length'[r]
    BY DEF RangeInv
  <2>1. CASE r = q
    BY <2>1, <1>1, <1>2, <1>10
  <2>2. CASE r # q
    BY <2>2, <1>9 DEF IInv, RangeInv
  <2> QED
    BY <2>1, <2>2
<1>12. MutexInv'
  <2> SUFFICES ASSUME NEW r \in Requests, pc'[r] = "store"
               PROVE  /\ mutex' = r
                      /\ start'[r] = IF cursor'[name'[r]] >= length'[r]
                                        THEN 0 ELSE cursor'[name'[r]]
    BY DEF MutexInv
  <2>1. r # q
    BY <1>10
  <2> QED
    BY <2>1, <1>1, <1>9 DEF IInv, MutexInv
<1>13. ASSUME NEW r \in Requests PROVE Walk(r)' /\ Failing(r)' /\ Disciplined(r)'
  <2>1. CASE r # q
    BY <2>1, <1>9, RequestFrame DEF IInv, WalkInv, OutcomeInv, FailoverDiscipline
  <2>2. CASE r = q
    <3>1. Walk(q)'
      <4>1. ASSUME NEW i \in 1 .. k + 1 PROVE attempts'[q][i].target = Nth(q, i)
        <5>1. CASE i <= k
          BY <5>1, <1>6 DEF IInv, WalkInv, Walk
        <5>2. CASE i = k + 1
          BY <5>2, <1>3, <1>6 DEF a
        <5> QED
          BY <5>1, <5>2, <1>6
      <4>2. \A i : Nth(q, i)' = Nth(q, i)
        BY <1>1 DEF Nth
      <4> QED
        BY <4>1, <4>2, <1>1, <1>2, <1>6, <1>10 DEF Walk
    <3>2. ASSUME NEW i \in 1 .. k
          PROVE  ~ attempts'[q][i].ok /\ IsSwitchableStatus(attempts'[q][i].status)
      <4>1. ~ attempts[q][i].ok /\ IsSwitchableStatus(attempts[q][i].status)
        BY <1>1 DEF IInv, OutcomeInv, Failing
      <4> QED
        BY <4>1, <1>6
    <3>3. Failing(q)'
      <4> SUFFICES ASSUME pc'[q] = "call", NEW i \in 1 .. k + 1
                   PROVE  ~ attempts'[q][i].ok /\ IsSwitchableStatus(attempts'[q][i].status)
        BY <1>6, <1>10 DEF Failing
      <4>1. CASE i <= k
        BY <4>1, <3>2, <1>6
      <4>2. CASE i = k + 1
        BY <4>2, <1>6, <1>10
      <4> QED
        BY <4>1, <4>2, <1>6
    <3>4. Disciplined(q)'
      <4>1. \A i \in 1 .. Len(attempts'[q]) - 1 :
              ~ attempts'[q][i].ok /\ IsSwitchableStatus(attempts'[q][i].status)
        BY <3>2, <1>6
      <4>2. pc'[q] = "served" => Len(attempts'[q]) > 0 /\ attempts'[q][Len(attempts'[q])].ok
        BY <1>6, <1>10
      <4>3. pc'[q] = "failed" =>
              /\ Len(attempts'[q]) # 0 /\ ~ attempts'[q][Len(attempts'[q])].ok
              /\ last'[q] = attempts'[q][Len(attempts'[q])].status
              /\ Len(attempts'[q]) = length'[q] \/ ~ IsSwitchableStatus(last'[q])
        BY <1>1, <1>6, <1>10
      <4> QED
        BY <4>1, <4>2, <4>3 DEF Disciplined
    <3> QED
      BY <2>2, <3>1, <3>3, <3>4
  <2> QED
    BY <2>1, <2>2
<1>14. CursorInv' /\ TurnsInv'
  BY <1>1 DEF IInv, CursorInv, TurnsInv
<1> QED
  BY <1>8, <1>11, <1>12, <1>13, <1>14 DEF IInv, WalkInv, OutcomeInv, FailoverDiscipline

\* IInv is an inductive invariant.
THEOREM RouterIInv == Spec => []IInv
<1>1. IInv /\ [Next]_vars => IInv'
  <2> SUFFICES ASSUME IInv, [Next]_vars PROVE IInv'
    OBVIOUS
  <2>1. ASSUME NEW q \in Requests, Step(q) PROVE IInv'
    BY <2>1, EnterIInv, ReadIInv, StoreIInv, ReturnIInv DEF Step, Return
  <2>2. CASE UNCHANGED vars
    <3>1. ASSUME NEW r \in Requests PROVE Walk(r)' /\ Failing(r)' /\ Disciplined(r)'
      BY <2>2, RequestFrame DEF vars, IInv, WalkInv, OutcomeInv, FailoverDiscipline
    <3>2. (TypeOK /\ RangeInv /\ MutexInv /\ CursorInv /\ TurnsInv)'
      BY <2>2 DEF vars, IInv, TypeOK, RangeInv, MutexInv, CursorInv, TurnsInv
    <3> QED
      BY <3>1, <3>2 DEF IInv, WalkInv, OutcomeInv, FailoverDiscipline
  <2> QED
    BY <2>1, <2>2 DEF Next, Quiescent
<1> QED
  BY <1>1, InitIInv, PTL DEF Spec

-----------------------------------------------------------------------------
\* Execute's variables keep their types.
THEOREM RouterTypeCorrect == Spec => []TypeOK
  BY RouterIInv, PTL DEF IInv

\* Execute calls no target of its list twice and none outside it.
THEOREM RouterTriesEachTargetOnce == Spec => []EachTargetOnce
<1>1. IInv => EachTargetOnce
  <2> SUFFICES ASSUME IInv, NEW r \in Requests,
                      NEW i \in 1 .. Len(attempts[r]), NEW j \in 1 .. Len(attempts[r])
               PROVE  /\ attempts[r][i].target < length[r]
                      /\ attempts[r][i].target = attempts[r][j].target => i = j
    BY DEF EachTargetOnce
  <2>0. /\ attempts[r] \in Seq([target : 0 .. MaxTargets - 1, ok : BOOLEAN, status : Nat])
    BY DEF IInv, TypeOK
  <2>a. start[r] \in Nat /\ length[r] \in Nat
    BY RouterAssumption DEF IInv, TypeOK
  <2>1. /\ start[r] \in Nat /\ length[r] \in Nat /\ start[r] < length[r]
        /\ Len(attempts[r]) <= length[r] /\ Len(attempts[r]) \in Nat
    BY <2>0, <2>a DEF IInv, WalkInv, Walk
  <2>2. attempts[r][i].target = Nth(r, i) /\ attempts[r][j].target = Nth(r, j)
    BY DEF IInv, WalkInv, Walk
  <2>3. Nth(r, i) < length[r] /\ (Nth(r, i) = Nth(r, j) => i = j)
    BY <2>1 DEF Nth
  <2> QED
    BY <2>2, <2>3
<1> QED
  BY <1>1, RouterIInv, PTL

\* Execute moves on only past switchable failures and reports its last one.
THEOREM RouterFollowsFailoverDiscipline == Spec => []FailoverDiscipline
  BY RouterIInv, PTL DEF IInv

\* Any L consecutive requests with L targets each start at different ones.
THEOREM RouterFairTurns == Spec => []FairTurns
<1>1. IInv => FairTurns
  <2> SUFFICES ASSUME IInv, NEW n \in Names,
                      NEW i \in 1 .. Len(turns[n]), NEW j \in 1 .. Len(turns[n]), i < j,
                      \A k \in i .. j : turns[n][k].length = turns[n][i].length,
                      j - i < turns[n][i].length
               PROVE  turns[n][i].start # turns[n][j].start
    BY DEF FairTurns
  <2>1. turns[n] \in Seq(Turn) /\ Rotates(turns[n])
    BY DEF IInv, TypeOK, TurnsInv, Turn
  <2>2. turns[n][i] \in Turn /\ Len(turns[n]) \in Nat
    BY <2>1
  <2>3. /\ turns[n][i].start \in Nat /\ turns[n][i].length \in Nat
        /\ turns[n][i].start < turns[n][i].length
    BY <2>1, <2>2, RouterAssumption DEF Rotates, Turn
  <2>4. Apart(turns[n], i, j)
    BY <2>1 DEF Rotates
  <2> QED
    BY <2>2, <2>3, <2>4 DEF Apart
<1> QED
  BY <1>1, RouterIInv, PTL

-----------------------------------------------------------------------------
\* A step that leaves a request alone leaves what RoundRobin sees of it alone.
LEMMA MappingFrame ==
  ASSUME NEW r \in Requests,
         pc'[r] = pc[r], start'[r] = start[r], length'[r] = length[r],
         attempts'[r] = attempts[r]
  PROVE  PhaseOf(r)' = PhaseOf(r) /\ TurnOf(r)' = TurnOf(r) /\ UntriedOf(r)' = UntriedOf(r)
  BY DEF PhaseOf, TurnOf, UntriedOf, Drawn

\* Before the cursor is stored RoundRobin sees an idle request.
LEMMA MappingIdle ==
  ASSUME NEW r \in Requests, pc[r] \in {"idle", "advance", "store"}
  PROVE  PhaseOf(r) = "idle" /\ TurnOf(r) = 0 /\ UntriedOf(r) = {}
  BY DEF PhaseOf, TurnOf, UntriedOf, Drawn

\* What RoundRobin sees when nothing but request q changes.
LEMMA MappingExcept ==
  ASSUME NEW q \in Requests,
         \A r \in Requests : r # q =>
           /\ PhaseOf(r)' = PhaseOf(r) /\ TurnOf(r)' = TurnOf(r)
           /\ UntriedOf(r)' = UntriedOf(r)
  PROVE  /\ [r \in Requests |-> PhaseOf(r)]'
              = [[r \in Requests |-> PhaseOf(r)] EXCEPT ![q] = PhaseOf(q)']
         /\ [r \in Requests |-> TurnOf(r)]'
              = [[r \in Requests |-> TurnOf(r)] EXCEPT ![q] = TurnOf(q)']
         /\ [r \in Requests |-> UntriedOf(r)]'
              = [[r \in Requests |-> UntriedOf(r)] EXCEPT ![q] = UntriedOf(q)']
  OBVIOUS

\* The initial state maps to RoundRobin's.
LEMMA InitImplements == Init => RR!Init
<1> SUFFICES ASSUME Init PROVE RR!Init
  OBVIOUS
<1>1. cursor = [n \in Names |-> 0]
  BY DEF Init
<1>2. \A r \in Requests : PhaseOf(r) = "idle" /\ TurnOf(r) = 0 /\ UntriedOf(r) = {}
  <2>1. \A r \in Requests : pc[r] = "idle"
    BY DEF Init
  <2> QED
    BY <2>1, MappingIdle
<1> QED
  BY <1>1, <1>2 DEF RR!Init

\* Entering refuses a request without targets, or is not seen by RoundRobin.
LEMMA EnterImplements ==
  ASSUME IInv, NEW q \in Requests, Enter(q) PROVE RR!Next \/ UNCHANGED RR!vars
<1>1. \A r \in Requests : r # q =>
        /\ PhaseOf(r)' = PhaseOf(r) /\ TurnOf(r)' = TurnOf(r) /\ UntriedOf(r)' = UntriedOf(r)
  BY MappingFrame DEF IInv, TypeOK, Enter
<1>2. /\ pc[q] = "idle" /\ cursor' = cursor /\ start' = start
      /\ pc'[q] = IF length[q] = 0 THEN "failed" ELSE "advance"
      /\ length' = length /\ start[q] = 0 /\ length[q] \in Nat
  BY RouterAssumption DEF IInv, TypeOK, WalkInv, Walk, Enter
<1>3. PhaseOf(q) = "idle" /\ TurnOf(q) = 0 /\ UntriedOf(q) = {}
  BY <1>2, MappingIdle
<1>4. CASE length[q] = 0
  <2>1. PhaseOf(q)' = "refused" /\ TurnOf(q)' = 0 /\ UntriedOf(q)' = {}
    BY <1>2, <1>4 DEF PhaseOf, TurnOf, UntriedOf, Drawn
  <2>2. RR!RefuseEmpty(q)
    BY <1>1, <1>2, <1>3, <2>1, MappingExcept DEF RR!RefuseEmpty
  <2> QED
    BY <2>2 DEF RR!Next
<1>5. CASE length[q] # 0
  <2>1. PhaseOf(q)' = "idle" /\ TurnOf(q)' = 0 /\ UntriedOf(q)' = {}
    BY <1>2, <1>5 DEF PhaseOf, TurnOf, UntriedOf, Drawn
  <2> QED
    BY <1>1, <1>2, <1>3, <2>1 DEF RR!vars
<1> QED
  BY <1>4, <1>5

\* Reading the cursor is not seen by RoundRobin.
LEMMA ReadImplements ==
  ASSUME IInv, NEW q \in Requests, ReadCursor(q) PROVE UNCHANGED RR!vars
<1>1. \A r \in Requests : r # q =>
        /\ PhaseOf(r)' = PhaseOf(r) /\ TurnOf(r)' = TurnOf(r) /\ UntriedOf(r)' = UntriedOf(r)
  BY MappingFrame DEF IInv, TypeOK, ReadCursor
<1>2. pc[q] = "advance" /\ pc'[q] = "store" /\ cursor' = cursor
  BY DEF IInv, TypeOK, ReadCursor
<1>3. PhaseOf(q) = "idle" /\ TurnOf(q) = 0 /\ UntriedOf(q) = {}
  BY <1>2, MappingIdle
<1>4. PhaseOf(q)' = "idle" /\ TurnOf(q)' = 0 /\ UntriedOf(q)' = {}
  BY <1>2 DEF PhaseOf, TurnOf, UntriedOf, Drawn
<1> QED
  BY <1>1, <1>2, <1>3, <1>4 DEF RR!vars

\* Storing the cursor is where RoundRobin draws the turn.
LEMMA StoreImplements ==
  ASSUME IInv, NEW q \in Requests, StoreCursor(q) PROVE RR!Next
<1>1. \A r \in Requests : r # q =>
        /\ PhaseOf(r)' = PhaseOf(r) /\ TurnOf(r)' = TurnOf(r) /\ UntriedOf(r)' = UntriedOf(r)
  BY MappingFrame DEF IInv, TypeOK, StoreCursor
<1>2. /\ pc[q] = "store" /\ pc'[q] = "call" /\ start' = start /\ length' = length
      /\ attempts' = attempts /\ name[q] \in Names
      /\ cursor' = [cursor EXCEPT ![name[q]] = (start[q] + 1) % length[q]]
  BY DEF IInv, TypeOK, StoreCursor
<1>3. /\ length[q] \in 1 .. MaxTargets /\ start[q] \in Nat /\ start[q] < length[q]
      /\ start[q] = IF cursor[name[q]] >= length[q] THEN 0 ELSE cursor[name[q]]
  BY <1>2, RouterAssumption DEF IInv, TypeOK, RangeInv, MutexInv
<1>4. (start[q] + 1) % length[q] = IF start[q] + 1 = length[q] THEN 0 ELSE start[q] + 1
  <2>1. length[q] \in Nat \ {0}
    BY <1>3, RouterAssumption
  <2>2. (start[q] + 1) % length[q] = IF start[q] + 1 < length[q] THEN start[q] + 1 ELSE 0
    BY <2>1, <1>3, ModSuccessor
  <2> QED
    BY <2>1, <2>2, <1>3
<1>5. PhaseOf(q) = "idle" /\ TurnOf(q) = 0 /\ UntriedOf(q) = {}
  BY <1>2, MappingIdle
<1>6. Len(attempts[q]) = 0
  BY <1>2 DEF IInv, WalkInv, Walk
<1>7. /\ PhaseOf(q)' = "trying" /\ TurnOf(q)' = start[q]
      /\ UntriedOf(q)' = 0 .. length[q] - 1
  <2>1. \A i \in 1 .. Len(attempts'[q]) : FALSE
    BY <1>2, <1>6
  <2> QED
    BY <1>2, <2>1 DEF PhaseOf, TurnOf, UntriedOf, Drawn
<1>8. RR!Draw(q, name[q], length[q])
  BY <1>1, <1>2, <1>3, <1>4, <1>5, <1>7, MappingExcept DEF RR!Draw
<1> QED
  BY <1>2, <1>3, <1>8 DEF RR!Next

\* A call that returns is a visit to a target not visited before.
LEMMA ReturnImplements ==
  ASSUME IInv, NEW q \in Requests, NEW o \in Outcomes,
         CallSucceeds(q, o) \/ CallRefused(q, o) \/ CallSwitches(q, o)
  PROVE  RR!Next
<1> USE RouterAssumption
<1> DEFINE a == [target |-> Target(q), ok |-> Succeeds(o),
                 status |-> IF Succeeds(o) THEN o.status ELSE FailureStatus(o)]
           k == Len(attempts[q])
<1>1. /\ pc[q] = "call" /\ attempts' = [attempts EXCEPT ![q] = Append(@, a)]
      /\ start' = start /\ length' = length /\ cursor' = cursor
  BY DEF CallSucceeds, CallRefused, CallSwitches, Attempted
<1>2. /\ k = offset[q] /\ k \in Nat /\ k < length[q] /\ length[q] \in 0 .. MaxTargets
      /\ start[q] \in Nat /\ start[q] < length[q]
  BY <1>1 DEF IInv, TypeOK, RangeInv, WalkInv, Walk
<1>3. Target(q) = Nth(q, k + 1) /\ Target(q) \in 0 .. length[q] - 1
      /\ Target(q) \in 0 .. MaxTargets - 1
  BY <1>1, TargetIsNth
<1>4. \A r \in Requests : r # q =>
        /\ PhaseOf(r)' = PhaseOf(r) /\ TurnOf(r)' = TurnOf(r) /\ UntriedOf(r)' = UntriedOf(r)
  <2>1. ASSUME NEW r \in Requests, r # q
        PROVE  pc'[r] = pc[r] /\ start'[r] = start[r] /\ length'[r] = length[r]
               /\ attempts'[r] = attempts[r]
    BY <2>1, <1>1 DEF IInv, TypeOK, CallSucceeds, CallRefused, CallSwitches
  <2> QED
    BY <2>1, MappingFrame
<1>5. /\ Len(attempts'[q]) = k + 1 /\ attempts'[q][k + 1].target = Target(q)
      /\ \A i \in 1 .. k : attempts'[q][i] = attempts[q][i]
  <2>1. attempts'[q] = Append(attempts[q], a)
    BY <1>1 DEF IInv, TypeOK
  <2>2. attempts[q] \in Seq([target : 0 .. MaxTargets - 1, ok : BOOLEAN, status : Nat])
    BY DEF IInv, TypeOK
  <2>3. o.status \in Nat /\ FailureStatus(o) \in Nat /\ Succeeds(o) \in BOOLEAN
    BY StatusType DEF Succeeds
  <2>4. a \in [target : 0 .. MaxTargets - 1, ok : BOOLEAN, status : Nat]
    BY <2>3, <1>3
  <2>5. a.target = Target(q)
    OBVIOUS
  <2> HIDE DEF a
  <2> QED
    BY <2>1, <2>2, <2>4, <2>5
<1> HIDE DEF a
<1>6. ASSUME NEW i \in 1 .. k PROVE attempts[q][i].target = Nth(q, i)
  BY DEF IInv, WalkInv, Walk
<1>7. PhaseOf(q) = "trying" /\ TurnOf(q) = start[q]
  BY <1>1 DEF PhaseOf, TurnOf, Drawn
<1>8. pc'[q] \in {"served", "failed"} \/ (pc'[q] = "call" /\ k + 1 < length[q])
  BY <1>2 DEF IInv, TypeOK, CallSucceeds, CallRefused, CallSwitches
<1>9. TurnOf(q)' = start[q]
  BY <1>1, <1>8 DEF TurnOf, Drawn
<1>10. Target(q) \in UntriedOf(q)
  <2>1. ASSUME NEW i \in 1 .. k PROVE attempts[q][i].target # Target(q)
    <3>1. /\ i \in Nat /\ i > 0 /\ i <= length[q] /\ i # k + 1
          /\ k + 1 \in Nat /\ k + 1 > 0 /\ k + 1 <= length[q] /\ length[q] \in Nat
      BY <1>2
    <3>2. Nth(q, i) # Nth(q, k + 1)
      BY <3>1, <1>2, NthDistinct
    <3> QED
      BY <3>2, <1>3, <1>6
  <2> QED
    BY <2>1, <1>1, <1>3 DEF UntriedOf, Drawn
<1>11. start[q] \in UntriedOf(q) => Target(q) = start[q]
  <2>1. CASE k = 0
    BY <2>1, <1>2, <1>3 DEF Nth
  <2>2. CASE k > 0
    <3>1. 1 \in 1 .. k /\ attempts[q][1].target = start[q]
      BY <2>2, <1>2, <1>6 DEF Nth
    <3> QED
      BY <3>1 DEF UntriedOf
  <2> QED
    BY <2>1, <2>2, <1>2
<1>12. UntriedOf(q)' = UntriedOf(q) \ {Target(q)}
  <2>1. \A t : (\A i \in 1 .. k + 1 : attempts'[q][i].target # t)
                <=> (\A i \in 1 .. k : attempts[q][i].target # t) /\ t # Target(q)
    <3>1. 1 .. k + 1 = (1 .. k) \cup {k + 1}
      BY <1>2
    <3> HIDE DEF k
    <3> QED
      BY <3>1, <1>5
  <2>2. Drawn(q) /\ Drawn(q)'
    BY <1>1, <1>8 DEF Drawn
  <2> QED
    BY <2>1, <2>2, <1>1, <1>5 DEF UntriedOf
<1>13. RR!Visit(q, Target(q))
  BY <1>1, <1>4, <1>7, <1>9, <1>10, <1>11, <1>12, MappingExcept DEF RR!Visit
<1>14. CASE pc'[q] = "served"
  <2>1. PhaseOf(q)' = "served"
    BY <1>14 DEF PhaseOf
  <2>2. RR!Serve(q, Target(q))
    BY <2>1, <1>4, <1>13, MappingExcept DEF RR!Serve
  <2> QED
    BY <2>2, <1>3 DEF RR!Next
<1>15. CASE pc'[q] = "failed"
  <2>1. PhaseOf(q)' = "refused"
    BY <1>15 DEF PhaseOf
  <2>2. RR!GiveUp(q, Target(q))
    BY <2>1, <1>4, <1>13, MappingExcept DEF RR!GiveUp
  <2> QED
    BY <2>2, <1>3 DEF RR!Next
<1>16. CASE pc'[q] = "call" /\ k + 1 < length[q]
  <2>1. PhaseOf(q)' = "trying"
    BY <1>16 DEF PhaseOf
  <2>2. Nth(q, k + 2) \in UntriedOf(q)'
    <3>0. /\ k + 2 \in Nat /\ k + 2 > 0 /\ k + 2 <= length[q] /\ length[q] \in Nat
      BY <1>2, <1>16
    <3>1. Nth(q, k + 2) \in 0 .. length[q] - 1
      BY <3>0, <1>2, NthDistinct
    <3>2. ASSUME NEW i \in 1 .. k + 1 PROVE attempts'[q][i].target # Nth(q, k + 2)
      <4>1. i \in Nat /\ i > 0 /\ i <= length[q] /\ i # k + 2
        BY <1>2, <3>0
      <4>2. Nth(q, i) # Nth(q, k + 2)
        BY <4>1, <3>0, <1>2, NthDistinct
      <4>3. CASE i = k + 1
        BY <4>2, <4>3, <1>3, <1>5
      <4>4. CASE i # k + 1
        <5>1. i \in 1 .. k
          BY <4>1, <4>4, <1>2
        <5> QED
          BY <5>1, <4>2, <1>5, <1>6
      <4> QED
        BY <4>3, <4>4
    <3>3. Drawn(q)'
      BY <1>16 DEF Drawn
    <3> QED
      BY <3>1, <3>2, <3>3, <1>1, <1>5 DEF UntriedOf
  <2>3. RR!TryNext(q, Target(q))
    BY <2>1, <2>2, <1>4, <1>7, <1>13, MappingExcept DEF RR!TryNext
  <2> QED
    BY <2>3, <1>3 DEF RR!Next
<1> QED
  BY <1>8, <1>14, <1>15, <1>16

\* The concurrent router implements RoundRobin: turns are drawn one at a time
\* and no target is visited twice, in every behaviour.
THEOREM RouterImplementsRoundRobin == Spec => ImplementsRoundRobin
<1>1. IInv /\ [Next]_vars => [RR!Next]_RR!vars
  <2> SUFFICES ASSUME IInv, [Next]_vars PROVE RR!Next \/ UNCHANGED RR!vars
    OBVIOUS
  <2>1. ASSUME NEW q \in Requests, Step(q) PROVE RR!Next \/ UNCHANGED RR!vars
    BY <2>1, EnterImplements, ReadImplements, StoreImplements, ReturnImplements
       DEF Step, Return
  <2>2. CASE UNCHANGED vars
    <3>1. \A r \in Requests :
            /\ PhaseOf(r)' = PhaseOf(r) /\ TurnOf(r)' = TurnOf(r)
            /\ UntriedOf(r)' = UntriedOf(r)
      BY <2>2, MappingFrame DEF vars
    <3> QED
      BY <2>2, <3>1 DEF vars, RR!vars
  <2> QED
    BY <2>1, <2>2 DEF Next, Quiescent
<1> QED
  BY <1>1, RouterIInv, InitImplements, PTL DEF Spec, ImplementsRoundRobin, RR!Spec
=============================================================================
