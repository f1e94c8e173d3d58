------------------------- MODULE ReportExecutorProofs -------------------------
(***************************************************************************)
(* What ReportExecutor promises, proved for any calls, keys, limits and    *)
(* cooldown.                                                               *)
(*                                                                         *)
(* The chain of promises is a first-come, first-served lock although a     *)
(* cancelled call leaves it early.  The proof ranks the calls by the order *)
(* in which they queued: each waits for the one of the rank below, and     *)
(* promises resolve in the order of the ranks.                             *)
(***************************************************************************)
EXTENDS ReportExecutor, FiniteSetTheorems, SequenceTheorems, WellFoundedInduction,
        TLAPS

-----------------------------------------------------------------------------
(* The inductive invariant.                                                 *)

InLine(c) == pc[c] \in {"waiting"} \cup Working

\* The calls that ever queued have a rank, 1 or more, in the order they came.
\* Each waits for the one before it, and the next call will wait for the last.
Ranked(rank) ==
  /\ \A c \in Callers : rank[c] = 0 => ~released[c] /\ ~forwards[c] /\ ~InLine(c)
  /\ \A c \in Callers : pc[c] = "idle" => rank[c] = 0
  /\ \A c, d \in Callers : rank[c] = rank[d] /\ rank[c] # 0 => c = d
  /\ \A c \in Callers : rank[c] # 0 =>
       IF pred[c] = NoCaller
       THEN \A d \in Callers : rank[d] = 0 \/ rank[c] <= rank[d]
       ELSE /\ rank[pred[c]] # 0 /\ rank[pred[c]] < rank[c]
            /\ \A d \in Callers : rank[d] <= rank[pred[c]] \/ rank[c] <= rank[d]
  /\ IF tail = NoCaller THEN \A c \in Callers : rank[c] = 0
     ELSE rank[tail] # 0 /\ \A c \in Callers : rank[c] <= rank[tail]

\* Promises resolve in that order, and whoever works has its predecessor's.
ResolvedInOrder(rank) ==
  /\ \A c, d \in Callers :
       released[d] /\ rank[c] # 0 /\ rank[c] < rank[d] => released[c]
  /\ \A c \in Callers : pc[c] \in Working => Resolved(pred[c])
  /\ \A c \in Callers : InLine(c) => ~released[c] /\ ~forwards[c]
  /\ \A c \in Callers : forwards[c] => ~released[c]

\* The line holds the calls that wait or work, in that order.
LineInOrder(rank) ==
  /\ \A i \in 1..Len(line) : InLine(line[i])
  /\ \A c \in Callers : InLine(c) => \E i \in 1..Len(line) : line[i] = c
  /\ \A i, j \in 1..Len(line) : i < j => rank[line[i]] < rank[line[j]]

Chained(rank) == Ranked(rank) /\ ResolvedInOrder(rank) /\ LineInOrder(rank)

\* Only the call at work has gathered anything, what it asks for is not in the
\* cache, and its sleep outlasts the cooldown.
WorkInOrder ==
  \A c \in Callers :
    /\ pc[c] \notin Working => page[c] = 0
    /\ pc[c] \in Working => ~Fresh(key[c])
    /\ pc[c] = "sleep" => spacing <= nap[c]

\* What a call at work has gathered is what it was sent, with no gap.
Gathered(c) ==
  /\ source[c].rows = rows[c] /\ source[c].total = announced[c]
  /\ ~source[c].hole
GatheredInOrder == \A c \in Callers : pc[c] \in Working => Gathered(c)

\* A report that went out was fetched by a call that is done, so what stands
\* behind it does not change any more.
Settled(v, k) == v.by \in Callers /\ pc[v.by] = "done" /\ AllOf(v, k)
SettledCache == \A i \in 1..Len(cache) : Settled(cache[i].value, cache[i].key)
SettledAnswers ==
  \A c \in Callers : told[c].kind = "ok" => pc[c] = "done" /\ Settled(told[c], key[c])
ReportsInOrder == GatheredInOrder /\ SettledCache /\ SettledAnswers

IInv ==
  /\ TypeOK
  /\ \E rank \in [Callers -> Nat] : Chained(rank)
  /\ WorkInOrder
  /\ ReportsInOrder

-----------------------------------------------------------------------------
(* Induction.  A set of counterexamples has a least element.                *)

LEMMA LeastElement ==
  ASSUME NEW T, T \subseteq Nat, T # {}
  PROVE  \E m \in T : \A n \in T : m <= n
<1>1. PICK b \in T : TRUE OBVIOUS
<1> DEFINE D == {0..n : n \in {k \in T : k <= b}}
<1>2. IsFiniteSet(0..b) BY <1>1, FS_Interval
<1>3. IsWellFoundedOn(StrictSubsetOrdering(0..b), SUBSET (0..b))
  BY <1>2, FS_StrictSubsetOrderingWellFounded, FS_FiniteSubsetsOfFinite
<1>4. D \subseteq SUBSET (0..b) /\ 0..b \in D OBVIOUS
<1> HIDE DEF D
<1>5. PICK X \in D : \A Y \in D : ~ (<<Y, X>> \in StrictSubsetOrdering(0..b))
  BY <1>3, <1>4, WFMin
<1>6. PICK m \in T : m <= b /\ X = 0..m BY DEF D
<1>7. ASSUME NEW n \in T, ~(m <= n) PROVE FALSE
  <2>1. n <= b /\ n < m BY <1>6, <1>7
  <2>2. 0..n \in D BY <2>1 DEF D
  <2>3. m \in 0..m /\ m \notin 0..n BY <2>1
  <2>4. 0..n \subseteq 0..m /\ 0..n # 0..m /\ 0..m \subseteq 0..b BY <1>6, <2>1, <2>3
  <2>5. <<0..n, X>> \in StrictSubsetOrdering(0..b)
    BY <1>6, <2>4 DEF StrictSubsetOrdering
  <2>6. QED BY <1>5, <2>2, <2>5
<1>8. QED BY <1>7

-----------------------------------------------------------------------------
(* The entries of a cache, and the calls in line.                           *)

\* What is live of a sequence of entries is a sequence of some of them.
LEMMA LiveEntries ==
  ASSUME NEW Entry, NEW s \in Seq(Entry)
  PROVE  /\ Live(s) \in Seq(Entry)
         /\ \A i \in 1..Len(Live(s)) : \E j \in 1..Len(s) : Live(s)[i] = s[j]
<1> DEFINE From(f, n) == IF n = 0 THEN <<>>
                         ELSE IF s[n].left > 0 THEN Append(f[n - 1], s[n]) ELSE f[n - 1]
           Defines(f, m) == f = [n \in 0..m |-> From(f, n)]
           L == Len(s)
<1>0. L \in Nat OBVIOUS
<1>1. \A m \in 0..L : \E f : Defines(f, m)
  <2> DEFINE T == {m \in 0..L : ~\E f : Defines(f, m)}
  <2> SUFFICES ASSUME T # {} PROVE FALSE OBVIOUS
  <2>0. T \subseteq Nat BY <1>0
  <2>1. PICK m \in T : \A n \in T : m <= n
    <3> HIDE DEF T
    <3> QED BY <2>0, LeastElement
  <2>2. m \in 0..L /\ ~\E f : Defines(f, m) OBVIOUS
  <2>3. CASE m = 0
    <3>1. Defines([n \in 0..0 |-> <<>>], 0) OBVIOUS
    <3>2. QED BY <2>2, <2>3, <3>1
  <2>4. CASE m # 0
    <3>1. m - 1 \in 0..L /\ ~(m <= m - 1) BY <1>0, <2>2, <2>4
    <3>2. m - 1 \notin T BY <2>1, <3>1
    <3>3. PICK f : Defines(f, m - 1) BY <3>1, <3>2
    <3> DEFINE g == [n \in 0..m |-> IF n < m THEN f[n] ELSE From(f, m)]
    <3>4. ASSUME NEW n \in 0..m PROVE g[n] = From(g, n)
      <4>1. CASE n < m
        <5>1. n \in 0..(m - 1) BY <2>2, <4>1
        <5>2. f[n] = From(f, n)
          <6> HIDE DEF From
          <6> QED BY <3>3, <5>1
        <5>3. n # 0 => g[n - 1] = f[n - 1] BY <2>2, <4>1
        <5>4. QED BY <4>1, <5>2, <5>3
      <4>2. CASE n = m
        <5>1. g[m - 1] = f[m - 1] BY <2>2, <2>4
        <5>2. QED BY <2>2, <2>4, <4>2, <5>1
      <4>3. QED BY <2>2, <4>1, <4>2
    <3>5. Defines(g, m)
      <4> HIDE DEF From
      <4> QED BY <3>4
    <3>6. QED BY <2>2, <3>5
  <2>5. QED BY <2>3, <2>4
<1>2. PICK up : Defines(up, L) /\ Live(s) = up[L]
  <2>1. \E f : Defines(f, L)
    <3>1. L \in 0..L BY <1>0
    <3> HIDE DEF Defines
    <3> QED BY <1>1, <3>1
  <2>2. Live(s) = (CHOOSE h : Defines(h, L))[L] BY DEF Live
  <2>3. Defines(CHOOSE h : Defines(h, L), L)
    <3> HIDE DEF Defines
    <3> QED BY <2>1
  <2>4. QED BY <2>2, <2>3
<1> DEFINE Good(q) == /\ q \in Seq(Entry)
                      /\ \A i \in 1..Len(q) : \E j \in 1..L : q[i] = s[j]
<1>3. \A n \in 0..L : Good(up[n])
  <2> DEFINE T == {n \in 0..L : ~Good(up[n])}
  <2> SUFFICES ASSUME T # {} PROVE FALSE OBVIOUS
  <2>0. T \subseteq Nat BY <1>0
  <2>1. PICK m \in T : \A n \in T : m <= n
    <3> HIDE DEF T
    <3> QED BY <2>0, LeastElement
  <2>2. m \in 0..L /\ ~Good(up[m]) OBVIOUS
  <2>3. up[m] = From(up, m) BY <1>2, <2>2
  <2>4. CASE m = 0
    <3>1. up[m] = <<>> BY <2>3, <2>4
    <3>2. Good(<<>>) OBVIOUS
    <3>3. QED BY <2>2, <3>1, <3>2
  <2>5. CASE m # 0
    <3>1. m \in 1..L /\ m - 1 \in 0..L /\ ~(m <= m - 1) BY <1>0, <2>2, <2>5
    <3>2. m - 1 \notin T BY <2>1, <3>1
    <3>3. Good(up[m - 1]) BY <3>1, <3>2
    <3> DEFINE p == up[m - 1]
               q == Append(p, s[m])
    <3>4. p \in Seq(Entry) /\ q \in Seq(Entry) /\ Len(q) = Len(p) + 1 BY <3>1, <3>3
    <3>5. \A i \in 1..Len(q) : q[i] = IF i <= Len(p) THEN p[i] ELSE s[m] BY <3>1, <3>3
    <3>6. Good(q) BY <3>1, <3>3, <3>4, <3>5
    <3>7. up[m] = q \/ up[m] = p BY <2>3, <2>5
    <3>8. QED BY <2>2, <3>3, <3>6, <3>7
  <2>6. QED BY <2>4, <2>5
<1>4. QED BY <1>0, <1>2, <1>3

\* A call that leaves the line leaves the others in their order.
LEMMA LineWithout ==
  ASSUME NEW s \in Seq(Callers), NEW k \in 1..Len(s),
         \A i, j \in 1..Len(s) : i < j => s[i] # s[j]
  PROVE  LET r == RemoveFirst(s, s[k]) IN
         /\ r \in Seq(Callers) /\ Len(r) = Len(s) - 1
         /\ \A i \in 1..Len(r) : r[i] = IF i < k THEN s[i] ELSE s[i + 1]
<1> DEFINE I == {i \in 1..Len(s) : s[i] = s[k]}
           a == SubSeq(s, 1, k - 1)
           b == SubSeq(s, k + 1, Len(s))
<1>0. Len(s) \in Nat /\ k \in Nat OBVIOUS
<1>1. I = {k}
  <2>1. ASSUME NEW i \in 1..Len(s), s[i] = s[k] PROVE i = k
    <3>1. ~(i < k) /\ ~(k < i) BY <2>1
    <3>2. QED BY <3>1
  <2>2. QED BY <2>1
<1>2. SelectInSeq(s, LAMBDA v : v = s[k]) = k
  <2>1. Min({k}) = k BY DEF Min
  <2>2. QED BY <1>1, <2>1 DEF SelectInSeq
<1>3. RemoveFirst(s, s[k]) = a \o b BY <1>2 DEF RemoveFirst, RemoveAt
<1>4. a \in Seq(Callers) /\ Len(a) = k - 1 /\ \A i \in 1..(k - 1) : a[i] = s[i]
  BY <1>0
<1>5. /\ b \in Seq(Callers) /\ Len(b) = Len(s) - k
      /\ \A i \in 1..(Len(s) - k) : b[i] = s[k + i]
  BY <1>0
<1> HIDE DEF a, b
<1>6. a \o b \in Seq(Callers) /\ Len(a \o b) = Len(s) - 1
  <2>1. a \o b \in Seq(Callers) /\ Len(a \o b) = Len(a) + Len(b)
    BY <1>4, <1>5, ConcatProperties
  <2>2. (k - 1) + (Len(s) - k) = Len(s) - 1 BY <1>0
  <2>3. QED BY <1>4, <1>5, <2>1, <2>2
<1>7. ASSUME NEW i \in 1..(Len(s) - 1)
      PROVE  (a \o b)[i] = IF i < k THEN s[i] ELSE s[i + 1]
  <2>1. (a \o b)[i] = IF i <= Len(a) THEN a[i] ELSE b[i - Len(a)] BY <1>4, <1>5, <1>6
  <2>2. CASE i < k BY <1>0, <1>4, <2>1, <2>2
  <2>3. CASE ~(i < k)
    <3>1. i - (k - 1) \in 1..(Len(s) - k) /\ k + (i - (k - 1)) = i + 1 BY <1>0, <2>3
    <3>2. b[i - (k - 1)] = s[i + 1] BY <1>5, <3>1
    <3>3. QED BY <1>0, <1>4, <2>1, <2>3, <3>2
  <2>4. QED BY <2>2, <2>3
<1>8. QED BY <1>3, <1>6, <1>7

-----------------------------------------------------------------------------
(* The chain.  First what it gives, then how it is kept.                    *)

\* Who came before a call came before its predecessor, or is that.
LEMMA PredIsBetween ==
  ASSUME TypeOK, NEW rank \in [Callers -> Nat], Ranked(rank),
         NEW a \in Callers, NEW b \in Callers, rank[a] # 0, rank[a] < rank[b]
  PROVE  pred[b] \in Callers /\ rank[a] <= rank[pred[b]]
<1>1. rank[a] \in Nat /\ rank[b] \in Nat /\ rank[b] # 0 OBVIOUS
<1>2. pred[b] \in Callers \cup {NoCaller} BY DEF TypeOK
<1>3. pred[b] # NoCaller
  <2> SUFFICES ASSUME pred[b] = NoCaller PROVE FALSE OBVIOUS
  <2>1. rank[a] = 0 \/ rank[b] <= rank[a] BY <1>1 DEF Ranked
  <2>2. QED BY <1>1, <2>1
<1>4. rank[a] <= rank[pred[b]] \/ rank[b] <= rank[a] BY <1>1, <1>3 DEF Ranked
<1>5. QED BY <1>1, <1>2, <1>3, <1>4

\* When the predecessor of a call is resolved, so is all that came before.
LEMMA EarlierResolved ==
  ASSUME TypeOK, NEW rank \in [Callers -> Nat], Ranked(rank), ResolvedInOrder(rank),
         NEW a \in Callers, NEW b \in Callers, rank[a] # 0, rank[a] < rank[b],
         Resolved(pred[b])
  PROVE  released[a]
<1>1. pred[b] \in Callers /\ rank[a] <= rank[pred[b]] BY PredIsBetween
<1>2. released[pred[b]] BY <1>1, CallersAssumption DEF Resolved
<1>3. rank[a] \in Nat /\ rank[pred[b]] \in Nat BY <1>1
<1>4. CASE rank[a] = rank[pred[b]]
  <2>1. a = pred[b] BY <1>1, <1>4 DEF Ranked
  <2>2. QED BY <1>2, <2>1
<1>5. CASE rank[a] < rank[pred[b]]
  BY <1>1, <1>2, <1>5 DEF ResolvedInOrder
<1>6. QED BY <1>1, <1>3, <1>4, <1>5

\* At most one call in line has its predecessor's promise resolved.
LEMMA OneTurn ==
  ASSUME TypeOK, NEW rank \in [Callers -> Nat], Chained(rank),
         NEW c \in Callers, NEW d \in Callers, InLine(c), InLine(d),
         Resolved(pred[c]), Resolved(pred[d])
  PROVE  c = d
<1> USE DEF Chained
<1>1. ASSUME NEW a \in Callers, NEW b \in Callers, InLine(a),
             Resolved(pred[b]), rank[a] < rank[b]
      PROVE  FALSE
  <2>1. rank[a] # 0 BY <1>1 DEF Ranked
  <2>2. released[a] BY <1>1, <2>1, EarlierResolved
  <2>3. QED BY <1>1, <2>2 DEF ResolvedInOrder
<1>2. ~(rank[c] < rank[d]) /\ ~(rank[d] < rank[c]) BY <1>1
<1>3. rank[c] = rank[d] /\ rank[c] # 0 BY <1>2 DEF Ranked
<1>4. QED BY <1>3 DEF Ranked

\* The call whose turn it is is the first in line.
LEMMA FirstInLine ==
  ASSUME TypeOK, NEW rank \in [Callers -> Nat], Chained(rank),
         NEW c \in Callers, InLine(c), Resolved(pred[c])
  PROVE  line # <<>> /\ Head(line) = c
<1> USE DEF Chained
<1>0. line \in Seq(Callers) /\ Len(line) \in Nat BY DEF TypeOK
<1>1. PICK i \in 1..Len(line) : line[i] = c BY DEF LineInOrder
<1>2. i = 1
  <2> SUFFICES ASSUME i # 1 PROVE FALSE OBVIOUS
  <2> DEFINE h == line[1]
  <2>1. h \in Callers /\ InLine(h) /\ rank[h] < rank[c]
    BY <1>0, <1>1 DEF LineInOrder
  <2>2. rank[h] # 0 BY <2>1 DEF Ranked
  <2>3. released[h] BY <2>1, <2>2, EarlierResolved
  <2>4. QED BY <2>1, <2>3 DEF ResolvedInOrder
<1>3. QED BY <1>0, <1>1, <1>2

\* A call that takes or keeps its turn stays where it is in line.
LEMMA KeepsTurn ==
  ASSUME TypeOK, NEW rank \in [Callers -> Nat], Chained(rank),
         NEW c \in Callers, NEW place \in Working, InLine(c), Resolved(pred[c]),
         pc' = [pc EXCEPT ![c] = place], UNCHANGED chainVars
  PROVE  Chained(rank)'
<1> USE DEF Chained, chainVars
<1>1. \A d \in Callers : InLine(d)' <=> InLine(d) BY DEF InLine, Working, TypeOK
<1>2. \A d \in Callers : pc'[d] = "idle" => pc[d] = "idle" BY DEF Working, TypeOK
<1>3. Ranked(rank)' BY <1>1, <1>2 DEF Ranked
<1>4. \A d \in Callers : d # c => pc'[d] = pc[d] BY DEF TypeOK
<1>5. ResolvedInOrder(rank)' BY <1>1, <1>4 DEF ResolvedInOrder, Resolved
<1>6. LineInOrder(rank)'
  <2>1. line \in Seq(Callers) BY DEF TypeOK
  <2>2. \A i \in 1..Len(line) : line[i] \in Callers BY <2>1
  <2>3. QED BY <1>1, <2>2 DEF LineInOrder
<1>7. QED BY <1>3, <1>5, <1>6

\* What the chain says is untouched when neither places nor promises change.
LEMMA ChainKept ==
  ASSUME TypeOK, NEW rank \in [Callers -> Nat], Chained(rank), UNCHANGED chainVars,
         \A d \in Callers : pc'[d] = pc[d] \/ (pc[d] = "idle" /\ pc'[d] = "done")
                            \/ (pc[d] \in Working /\ pc'[d] \in Working)
  PROVE  Chained(rank)'
<1> USE DEF Chained, chainVars
<1>1. \A d \in Callers : InLine(d)' <=> InLine(d) BY DEF InLine, Working
<1>2. \A d \in Callers : pc'[d] = "idle" => pc[d] = "idle" BY DEF Working
<1>3. Ranked(rank)' BY <1>1, <1>2 DEF Ranked
<1>4. \A d \in Callers : pc'[d] \in Working => pc[d] \in Working BY DEF Working
<1>5. ResolvedInOrder(rank)' BY <1>1, <1>4 DEF ResolvedInOrder, Resolved
<1>6. LineInOrder(rank)'
  <2>1. line \in Seq(Callers) BY DEF TypeOK
  <2>2. \A i \in 1..Len(line) : line[i] \in Callers BY <2>1
  <2>3. QED BY <1>1, <2>2 DEF LineInOrder
<1>7. QED BY <1>3, <1>5, <1>6

\* A call that leaves the line, done or cancelled, leaves the chain whole: its
\* promise is resolved if its predecessor's is, or will follow it.
LEMMA LeavesLine ==
  ASSUME TypeOK, NEW rank \in [Callers -> Nat], Chained(rank),
         NEW c \in Callers, InLine(c),
         pc' = [pc EXCEPT ![c] = "done"], StepOut(c), UNCHANGED <<tail, pred>>,
         \/ /\ Resolved(pred[c])
            /\ released' = [released EXCEPT ![c] = TRUE] /\ UNCHANGED forwards
         \/ forwards' = [forwards EXCEPT ![c] = TRUE] /\ UNCHANGED released
  PROVE  Chained(rank)' /\ line' \in Seq(Callers)
<1> USE DEF Chained
<1>1. /\ ~InLine(c)'
      /\ \A d \in Callers : d # c => (InLine(d)' <=> InLine(d)) /\ pc'[d] = pc[d]
  BY DEF InLine, Working, TypeOK
<1>2. rank[c] # 0 /\ ~released[c] /\ ~forwards[c] BY DEF Ranked, ResolvedInOrder
<1>3. \A d \in Callers : d # c =>
        released'[d] = released[d] /\ forwards'[d] = forwards[d]
  BY DEF TypeOK
<1>4. Ranked(rank)'
  <2>1. pc'[c] # "idle" BY DEF TypeOK
  <2>2. QED BY <1>1, <1>2, <1>3, <2>1 DEF Ranked
<1>5. ResolvedInOrder(rank)'
  <2>1. ASSUME NEW a \in Callers, NEW b \in Callers,
               released'[b], rank[a] # 0, rank[a] < rank[b]
        PROVE  released'[a]
    <3>1. CASE b # c
      <4>1. released[a] BY <1>3, <2>1, <3>1 DEF ResolvedInOrder
      <4>2. QED BY <1>2, <1>3, <4>1
    <3>2. CASE b = c
      <4>1. Resolved(pred[c]) BY <1>2, <2>1, <3>2
      <4>2. released[a] BY <2>1, <3>2, <4>1, EarlierResolved
      <4>3. QED BY <1>2, <1>3, <4>2
    <3>3. QED BY <3>1, <3>2
  <2>2. \A d \in Callers : released[d] => released'[d] BY <1>2, <1>3
  <2>3. ASSUME NEW d \in Callers, pc'[d] \in Working
        PROVE  pred[d] # NoCaller => released'[pred[d]]
    <3>1. d # c BY <2>3 DEF TypeOK, Working
    <3>2. Resolved(pred[d]) BY <1>1, <2>3, <3>1 DEF ResolvedInOrder
    <3>3. pred[d] \in Callers \cup {NoCaller} BY DEF TypeOK
    <3>4. QED BY <2>2, <3>2, <3>3 DEF Resolved
  <2>4. \A d \in Callers : InLine(d)' => ~released'[d] /\ ~forwards'[d]
    BY <1>1, <1>3 DEF ResolvedInOrder
  <2>5. \A d \in Callers : forwards'[d] => ~released'[d]
    BY <1>2, <1>3 DEF ResolvedInOrder
  <2>6. QED BY <2>1, <2>3, <2>4, <2>5 DEF ResolvedInOrder, Resolved
<1>6. LineInOrder(rank)' /\ line' \in Seq(Callers)
  <2>1. line \in Seq(Callers) /\ Len(line) \in Nat BY DEF TypeOK
  <2>2. PICK k \in 1..Len(line) : line[k] = c BY DEF LineInOrder
  <2>3. \A i \in 1..Len(line) : line[i] \in Callers BY <2>1
  <2>4. \A i, j \in 1..Len(line) : i < j => line[i] # line[j]
    BY <2>3 DEF LineInOrder
  <2>5. /\ line' \in Seq(Callers) /\ Len(line') = Len(line) - 1
        /\ \A i \in 1..Len(line') : line'[i] = IF i < k THEN line[i] ELSE line[i + 1]
    BY <2>1, <2>2, <2>4, LineWithout DEF StepOut
  <2>6. \A i \in 1..Len(line') :
           \E p \in 1..Len(line) : /\ p # k /\ line'[i] = line[p]
                                   /\ p = IF i < k THEN i ELSE i + 1
    <3> SUFFICES ASSUME NEW i \in 1..Len(line')
                 PROVE  \E p \in 1..Len(line) : /\ p # k /\ line'[i] = line[p]
                                                /\ p = IF i < k THEN i ELSE i + 1
      OBVIOUS
    <3>1. CASE i < k
      <4>1. i \in 1..Len(line) /\ i # k BY <2>1, <2>5, <3>1
      <4>2. QED BY <2>5, <3>1, <4>1
    <3>2. CASE ~(i < k)
      <4>1. i + 1 \in 1..Len(line) /\ i + 1 # k BY <2>1, <2>5, <3>2
      <4>2. QED BY <2>5, <3>2, <4>1
    <3>3. QED BY <3>1, <3>2
  <2>7. ASSUME NEW i \in 1..Len(line')
         PROVE  pc'[line'[i]] \in {"waiting"} \cup Working
    <3>1. PICK p \in 1..Len(line) : p # k /\ line'[i] = line[p] BY <2>6
    <3>2. line[p] # c BY <2>2, <2>4, <3>1
    <3>3. line[p] \in Callers /\ InLine(line[p]) BY <2>3 DEF LineInOrder
    <3>4. pc'[line[p]] = pc[line[p]] BY <1>1, <3>2, <3>3
    <3>5. QED BY <3>1, <3>3, <3>4 DEF InLine
  <2>8. ASSUME NEW d \in Callers, InLine(d)'
        PROVE  \E i \in 1..Len(line') : line'[i] = d
    <3>1. d # c /\ InLine(d) BY <1>1, <2>8
    <3>2. PICK j \in 1..Len(line) : line[j] = d BY <3>1 DEF LineInOrder
    <3>3. j # k BY <2>2, <3>1, <3>2
    <3>4. CASE j < k
      <4>1. j \in 1..Len(line') BY <2>1, <2>5, <3>4
      <4>2. QED BY <2>5, <3>2, <3>4, <4>1
    <3>5. CASE k < j
      <4>1. j - 1 \in 1..Len(line') /\ ~(j - 1 < k) /\ (j - 1) + 1 = j
        BY <2>1, <2>5, <3>5
      <4>2. QED BY <2>5, <3>2, <4>1
    <3>6. QED BY <3>3, <3>4, <3>5
  <2>9. ASSUME NEW i \in 1..Len(line'), NEW j \in 1..Len(line'), i < j
        PROVE  rank[line'[i]] < rank[line'[j]]
    <3>1. PICK p \in 1..Len(line) :
            line'[i] = line[p] /\ p = IF i < k THEN i ELSE i + 1
      BY <2>6
    <3>2. PICK q \in 1..Len(line) :
            line'[j] = line[q] /\ q = IF j < k THEN j ELSE j + 1
      BY <2>6
    <3>3. p < q
      <4>0. Len(line') \in Int BY <2>1, <2>5
      <4>1. i \in Nat /\ j \in Nat /\ k \in Nat BY <2>1, <4>0
      <4>2. QED BY <2>9, <3>1, <3>2, <4>1
    <3>4. QED BY <3>1, <3>2, <3>3 DEF LineInOrder
  <2>10. QED BY <2>5, <2>7, <2>8, <2>9 DEF LineInOrder, InLine
<1>7. QED BY <1>4, <1>5, <1>6

-----------------------------------------------------------------------------
(* The steps of a call at work.                                             *)

Entries == [key : Keys, left : 0..Cooldown, value : Values]
Totals0 == Totals \cup {Unannounced}

USE CallersAssumption, LimitsAssumption

\* Failures, results and what stands behind them have their types.
LEMMA ResultTypes ==
  /\ Nothing \in Values /\ Nothing.kind # "ok"
  /\ \A kind \in {"failed", "cancelled"} :
       Failure(kind) \in Values /\ Failure(kind).kind # "ok"
  /\ NoAnswers \in Answers /\ NoAnswers.rows = 0 /\ ~NoAnswers.hole
  /\ NoAnswers.total = Unannounced
  /\ \A c \in Callers, n \in 0..MaxRows, total \in Totals0 :
       LET v == Result(c, n, total) IN
       v \in Values /\ v.kind = "ok" /\ v.by = c /\ v.rows = n /\ v.announced = total
BY DEF Nothing, Failure, Result, Values, NoAnswers, Answers, Totals0

\* The answers s make up the report v.
Backs(s, v) ==
  /\ v.kind = "ok" /\ ~s.more /\ ~s.hole
  /\ v.rows = s.rows /\ v.announced = s.total
  /\ s.total # Unannounced => s.rows = s.total

\* Whoever is done keeps its key and its answers, so its report stays settled.
LEMMA SettledKept ==
  ASSUME NEW v, NEW k, Settled(v, k),
         \A d \in Callers : pc[d] = "done" =>
           pc'[d] = "done" /\ key'[d] = key[d] /\ source'[d] = source[d]
  PROVE  Settled(v, k)'
BY DEF Settled, AllOf

\* Reports that were cached or handed out before stay in order; whatever is new
\* must be settled, and whoever works must have lost nothing.
LEMMA ReportsKept ==
  ASSUME ReportsInOrder,
         \A d \in Callers : pc[d] = "done" =>
           pc'[d] = "done" /\ key'[d] = key[d] /\ source'[d] = source[d],
         \A d \in Callers : pc'[d] \in Working => Gathered(d)',
         \A i \in 1..Len(cache') : \E v, k :
           /\ v = cache'[i].value /\ k = cache'[i].key
           /\ \/ Settled(v, k)'
              \/ \E j \in 1..Len(cache) : cache[j].value = v /\ cache[j].key = k,
         \A d \in Callers : told'[d].kind = "ok" =>
           \/ told'[d] = told[d]
           \/ /\ pc'[d] = "done"
              /\ \E v, k : v = told'[d] /\ k = key'[d] /\ Settled(v, k)'
  PROVE  ReportsInOrder'
<1>1. GatheredInOrder' BY DEF GatheredInOrder
<1>2. ASSUME NEW i \in 1..Len(cache'), NEW v, NEW k,
             v = cache'[i].value, k = cache'[i].key
      PROVE  Settled(v, k)'
  <2>1. CASE \E j \in 1..Len(cache) : cache[j].value = v /\ cache[j].key = k
    <3>1. PICK j \in 1..Len(cache) : cache[j].value = v /\ cache[j].key = k BY <2>1
    <3>2. Settled(v, k) BY <3>1 DEF ReportsInOrder, SettledCache
    <3>3. QED BY <3>2, SettledKept
  <2>2. QED BY <1>2, <2>1
<1>3. SettledCache'
  <2> SUFFICES ASSUME NEW i \in 1..Len(cache')
               PROVE  Settled(cache[i].value, cache[i].key)'
    BY DEF SettledCache
  <2>1. PICK v, k : v = cache'[i].value /\ k = cache'[i].key OBVIOUS
  <2>2. Settled(v, k)' BY <1>2, <2>1
  <2>3. QED BY <2>1, <2>2 DEF Settled, AllOf
<1>4. ASSUME NEW d \in Callers, NEW v, NEW k, v = told'[d], k = key'[d],
             told'[d].kind = "ok"
      PROVE  pc'[d] = "done" /\ Settled(v, k)'
  <2>1. CASE told'[d] = told[d]
    <3>1. pc[d] = "done" /\ Settled(told[d], key[d])
      BY <1>4, <2>1 DEF ReportsInOrder, SettledAnswers
    <3>2. pc'[d] = "done" /\ key'[d] = key[d] BY <3>1
    <3>3. Settled(v, k) BY <1>4, <2>1, <3>1, <3>2
    <3>4. QED BY <3>2, <3>3, SettledKept
  <2>2. QED BY <1>4, <2>1
<1>5. SettledAnswers'
  <2> SUFFICES ASSUME NEW d \in Callers, told'[d].kind = "ok"
               PROVE  pc'[d] = "done" /\ Settled(told[d], key[d])'
    BY DEF SettledAnswers
  <2>1. PICK v, k : v = told'[d] /\ k = key'[d] OBVIOUS
  <2>2. pc'[d] = "done" /\ Settled(v, k)' BY <1>4, <2>1
  <2>3. QED BY <2>1, <2>2 DEF Settled, AllOf
<1>6. QED BY <1>1, <1>3, <1>5 DEF ReportsInOrder

\* The entries of a cache that is kept, or shortened, are old entries.
OldEntry(i) ==
  \E j \in 1..Len(cache) : cache[j].value = cache'[i].value /\ cache[j].key = cache'[i].key

\* Steps that fetch nothing and hand nothing out.
LEMMA ReportsUntouched ==
  ASSUME ReportsInOrder, UNCHANGED <<source, workVars, key>>,
         \A i \in 1..Len(cache') : OldEntry(i),
         \A d \in Callers : pc[d] = "done" => pc'[d] = "done",
         \A d \in Callers : pc'[d] \in Working => pc[d] \in Working,
         \A d \in Callers : told'[d].kind = "ok" => told'[d] = told[d]
  PROVE  ReportsInOrder'
<1>1. \A d \in Callers : pc'[d] \in Working => Gathered(d)'
  BY DEF ReportsInOrder, GatheredInOrder, Gathered, workVars
<1>2. \A i \in 1..Len(cache') : \E v, k :
        /\ v = cache'[i].value /\ k = cache'[i].key
        /\ \/ Settled(v, k)'
           \/ \E j \in 1..Len(cache) : cache[j].value = v /\ cache[j].key = k
  <2> SUFFICES ASSUME NEW i \in 1..Len(cache')
               PROVE  \E v, k :
                        /\ v = cache'[i].value /\ k = cache'[i].key
                        /\ \/ Settled(v, k)'
                           \/ \E j \in 1..Len(cache) :
                                cache[j].value = v /\ cache[j].key = k
    OBVIOUS
  <2>1. PICK v, k : v = cache'[i].value /\ k = cache'[i].key OBVIOUS
  <2>2. \E j \in 1..Len(cache) : cache[j].value = v /\ cache[j].key = k
    BY <2>1 DEF OldEntry
  <2>3. QED BY <2>1, <2>2
<1>3. \A d \in Callers : pc[d] = "done" =>
        pc'[d] = "done" /\ key'[d] = key[d] /\ source'[d] = source[d]
  OBVIOUS
<1>4. \A d \in Callers : told'[d].kind = "ok" =>
        \/ told'[d] = told[d]
        \/ /\ pc'[d] = "done"
           /\ \E v, k : v = told'[d] /\ k = key'[d] /\ Settled(v, k)'
  OBVIOUS
<1>5. QED BY <1>1, <1>2, <1>3, <1>4, ReportsKept

\* A call that has its turn gives it up: nobody works any more.
LEMMA FinishStep ==
  ASSUME IInv, NEW c \in Callers, NEW result \in Values, NEW s \in Answers,
         InLine(c), Resolved(pred[c]), Finish(c, result, s),
         result.kind = "ok" =>
           Settled(result, key[c]) \/ (result.by = c /\ Backs(s, result)),
         UNCHANGED <<key, signal, tail, pred, forwards, sinceSend, spacing>>,
         cache' \in Seq(Entries), Len(cache') <= CacheSize,
         \A i \in 1..Len(cache') :
           \/ OldEntry(i)
           \/ cache'[i].key = key[c] /\ cache'[i].value = result /\ result.kind = "ok"
  PROVE  IInv'
<1> USE DEF Finish, Go, Tell
<1>1. TypeOK BY DEF IInv
<1>2. PICK rank \in [Callers -> Nat] : Chained(rank) BY DEF IInv
<1>3. Chained(rank)' /\ line' \in Seq(Callers) BY <1>1, <1>2, LeavesLine
<1>4. TypeOK'
  <2>1. /\ pc' \in [Callers -> {"idle", "waiting", "sleep", "posting", "sent", "done"}]
        /\ told' \in [Callers -> Values] /\ released' \in [Callers -> BOOLEAN]
        /\ source' \in [Callers -> Answers]
    BY <1>1 DEF TypeOK
  <2>2. nap' \in [Callers -> 0..Cooldown] /\ page' \in [Callers -> 0..MaxPages]
    BY <1>1 DEF TypeOK
  <2>3. rows' \in [Callers -> 0..MaxRows] BY <1>1 DEF TypeOK
  <2>4. announced' \in [Callers -> Totals \cup {Unannounced}] BY <1>1 DEF TypeOK
  <2>5. cache' \in Seq([key : Keys, left : 0..Cooldown, value : Values]) BY DEF Entries
  <2>6. QED BY <1>1, <1>3, <2>1, <2>2, <2>3, <2>4, <2>5 DEF TypeOK
<1>5. \A d \in Callers : pc'[d] \notin Working
  <2> SUFFICES ASSUME NEW d \in Callers, pc'[d] \in Working PROVE FALSE OBVIOUS
  <2>1. d # c /\ pc'[d] = pc[d] BY <1>1 DEF TypeOK, Working
  <2>2. InLine(d) /\ Resolved(pred[d])
    BY <1>2, <2>1 DEF InLine, Chained, ResolvedInOrder
  <2>3. QED BY <1>1, <1>2, <2>1, <2>2, OneTurn
<1>6. WorkInOrder'
  <2>1. ASSUME NEW d \in Callers PROVE page'[d] = 0
    <3>1. CASE d = c BY <1>1, <3>1 DEF TypeOK
    <3>2. CASE d # c
      <4>1. pc[d] \notin Working BY <1>1, <1>5, <3>2 DEF TypeOK
      <4>2. QED BY <1>1, <3>2, <4>1 DEF IInv, WorkInOrder, TypeOK
    <3>3. QED BY <3>1, <3>2
  <2>2. QED BY <1>5, <2>1 DEF WorkInOrder, Working
<1>7. ReportsInOrder'
  <2>0. pc[c] # "done" BY DEF InLine, Working
  <2>1. /\ pc'[c] = "done" /\ key'[c] = key[c] /\ source'[c] = s
        /\ told'[c] = result
        /\ \A d \in Callers : d # c =>
             /\ pc'[d] = pc[d] /\ key'[d] = key[d] /\ source'[d] = source[d]
             /\ told'[d] = told[d]
    BY <1>1 DEF TypeOK
  <2>2. \A d \in Callers : pc[d] = "done" =>
          pc'[d] = "done" /\ key'[d] = key[d] /\ source'[d] = source[d]
    BY <2>0, <2>1
  <2>3. ASSUME NEW v, NEW k, v = result, k = key[c], result.kind = "ok"
        PROVE  Settled(v, k)'
    <3>1. CASE Settled(result, key[c])
      <4>1. Settled(v, k) BY <2>3, <3>1
      <4>2. QED BY <2>2, <4>1, SettledKept
    <3>2. CASE result.by = c /\ Backs(s, result)
      BY <2>1, <2>3, <3>2 DEF Settled, AllOf, Backs
    <3>3. QED BY <2>3, <3>1, <3>2
  <2>4. ASSUME NEW i \in 1..Len(cache')
        PROVE  \E v, k :
                 /\ v = cache'[i].value /\ k = cache'[i].key
                 /\ \/ Settled(v, k)'
                    \/ \E j \in 1..Len(cache) : cache[j].value = v /\ cache[j].key = k
    <3>1. PICK v, k : v = cache'[i].value /\ k = cache'[i].key OBVIOUS
    <3>2. CASE OldEntry(i) BY <3>1, <3>2 DEF OldEntry
    <3>3. CASE cache'[i].key = key[c] /\ cache'[i].value = result /\ result.kind = "ok"
      <4>1. Settled(v, k)' BY <2>3, <3>1, <3>3
      <4>2. QED BY <3>1, <4>1
    <3>4. QED BY <3>2, <3>3
  <2>5. ASSUME NEW d \in Callers, told'[d].kind = "ok"
        PROVE  \/ told'[d] = told[d]
               \/ /\ pc'[d] = "done"
                  /\ \E v, k : v = told'[d] /\ k = key'[d] /\ Settled(v, k)'
    <3>1. CASE d = c
      <4>1. PICK v, k : v = result /\ k = key[c] OBVIOUS
      <4>2. Settled(v, k)' BY <2>1, <2>3, <2>5, <3>1, <4>1
      <4>3. QED BY <2>1, <3>1, <4>1, <4>2
    <3>2. QED BY <2>1, <3>1
  <2>6. ReportsInOrder BY DEF IInv
  <2>7. QED BY <1>5, <2>2, <2>4, <2>5, <2>6, ReportsKept
<1>8. QED BY <1>3, <1>4, <1>6, <1>7 DEF IInv

\* The next page is waited for or started, by the only call that works.
LEMMA NextPageStep ==
  ASSUME IInv, NEW c \in Callers, NEW n \in 0..MaxRows, NEW total \in Totals0,
         NEW s \in Answers, s.rows = n, s.total = total, ~s.hole,
         InLine(c), Resolved(pred[c]), page[c] < MaxPages, ~Fresh(key[c]),
         NextPage(c, n, total, s),
         UNCHANGED <<cache, key, signal, tail, pred, forwards, sinceSend>>
  PROVE  IInv'
<1>1. TypeOK BY DEF IInv
<1>2. PICK rank \in [Callers -> Nat] : Chained(rank) BY DEF IInv
<1>3. CASE Finish(c, Failure("cancelled"), NoAnswers) /\ UNCHANGED spacing
  <2>1. /\ cache' \in Seq(Entries) /\ Len(cache') <= CacheSize
        /\ \A i \in 1..Len(cache') : OldEntry(i)
    BY <1>1 DEF TypeOK, Entries, OldEntry
  <2>2. QED BY <1>3, <2>1, FinishStep, ResultTypes
<1>4. CASE ~(Finish(c, Failure("cancelled"), NoAnswers) /\ UNCHANGED spacing)
  <2>1. /\ source' = [source EXCEPT ![c] = s]
        /\ page' = [page EXCEPT ![c] = @ + 1]
        /\ rows' = [rows EXCEPT ![c] = n]
        /\ announced' = [announced EXCEPT ![c] = total]
        /\ UNCHANGED <<released, line, told>>
    BY <1>4 DEF NextPage
  <2>2. \/ /\ spacing > 0 /\ nap' = [nap EXCEPT ![c] = spacing]
           /\ pc' = [pc EXCEPT ![c] = "sleep"] /\ UNCHANGED spacing
        \/ /\ ~(spacing > 0) /\ spacing' = Cooldown
           /\ pc' = [pc EXCEPT ![c] = "posting"] /\ UNCHANGED nap
    BY <1>4 DEF NextPage, WaitBeforePage, Go
  <2>3. PICK place \in {"sleep", "posting"} :
          /\ pc' = [pc EXCEPT ![c] = place]
          /\ place = "sleep" => nap' = [nap EXCEPT ![c] = spacing] /\ UNCHANGED spacing
    BY <2>2
  <2>4. Chained(rank)'
    BY <1>1, <1>2, <2>1, <2>3, KeepsTurn DEF Working, chainVars
  <2>5. TypeOK'
    <3>1. page[c] + 1 \in 0..MaxPages BY <1>1 DEF TypeOK
    <3>2. page' \in [Callers -> 0..MaxPages] /\ rows' \in [Callers -> 0..MaxRows]
          /\ announced' \in [Callers -> Totals0] /\ source' \in [Callers -> Answers]
      BY <1>1, <2>1, <3>1 DEF TypeOK, Totals0
    <3>3. nap' \in [Callers -> 0..Cooldown] /\ spacing' \in 0..Cooldown
      <4>1. /\ Cooldown \in 0..Cooldown /\ spacing \in 0..Cooldown
            /\ nap \in [Callers -> 0..Cooldown]
        BY <1>1 DEF TypeOK
      <4>2. QED BY <2>2, <4>1
    <3>4. pc' \in [Callers -> {"idle", "waiting", "sleep", "posting", "sent", "done"}]
      BY <1>1, <2>3 DEF TypeOK
    <3>5. QED BY <1>1, <2>1, <3>2, <3>3, <3>4 DEF TypeOK, Totals0
  <2>6. \A d \in Callers : d # c => pc[d] \notin Working /\ pc'[d] = pc[d]
    <3>1. \A d \in Callers : pc[d] \in Working => InLine(d) /\ Resolved(pred[d])
      BY <1>2 DEF InLine, Chained, ResolvedInOrder
    <3>2. QED BY <1>1, <1>2, <2>3, <3>1, OneTurn DEF TypeOK
  <2>7. WorkInOrder'
    <3> SUFFICES ASSUME NEW d \in Callers
                 PROVE  /\ pc'[d] \notin Working => page'[d] = 0
                        /\ pc'[d] \in Working => ~Fresh(key[d])'
                        /\ pc'[d] = "sleep" => spacing' <= nap'[d]
      BY DEF WorkInOrder, Fresh
    <3>1. CASE d = c
      <4>1. pc'[d] = place /\ place \in Working BY <1>1, <2>3, <3>1 DEF TypeOK, Working
      <4>2. place = "sleep" => spacing' <= nap'[d] BY <1>1, <2>3, <3>1 DEF TypeOK
      <4>3. ~Fresh(key[d])' BY <3>1 DEF Fresh
      <4>4. QED BY <4>1, <4>2, <4>3
    <3>2. CASE d # c
      BY <1>1, <2>1, <2>6, <3>2 DEF IInv, WorkInOrder, TypeOK, Working
    <3>3. QED BY <3>1, <3>2
  <2>8. ReportsInOrder'
    <3>1. pc[c] # "done" BY DEF InLine, Working
    <3>2. \A d \in Callers : pc[d] = "done" =>
            pc'[d] = "done" /\ key'[d] = key[d] /\ source'[d] = source[d]
      BY <1>1, <2>1, <2>6, <3>1 DEF TypeOK
    <3>3. ASSUME NEW d \in Callers, pc'[d] \in Working PROVE Gathered(d)'
      <4>1. d = c BY <2>6, <3>3
      <4>2. source'[d] = s /\ rows'[d] = n /\ announced'[d] = total
        BY <1>1, <2>1, <4>1 DEF TypeOK
      <4>3. QED BY <4>2 DEF Gathered
    <3>4. ReportsInOrder BY DEF IInv
    <3>5. QED BY <2>1, <3>2, <3>3, <3>4, ReportsKept
  <2>9. QED BY <2>4, <2>5, <2>7, <2>8 DEF IInv
<1>5. QED BY <1>3, <1>4

\* A call at work is in line and has its predecessor's promise.
LEMMA WorkersTurn ==
  ASSUME IInv, NEW c \in Callers, pc[c] \in Working
  PROVE  InLine(c) /\ Resolved(pred[c]) /\ ~Fresh(key[c]) /\ Gathered(c)
BY DEF IInv, Chained, ResolvedInOrder, InLine, WorkInOrder, ReportsInOrder,
       GatheredInOrder

\* The cache as it is will do.
LEMMA CacheKept ==
  ASSUME IInv, UNCHANGED cache
  PROVE  /\ cache' \in Seq(Entries) /\ Len(cache') <= CacheSize
         /\ \A i \in 1..Len(cache') : OldEntry(i)
BY DEF IInv, TypeOK, Entries, OldEntry

\* What the cache holds for a key is a settled report for that key.
LEMMA CachedValue ==
  ASSUME IInv, NEW k \in Keys, Fresh(k)
  PROVE  Cached(k) \in Values /\ Settled(Cached(k), k)
<1>1. cache \in Seq(Entries) BY DEF IInv, TypeOK, Entries
<1> DEFINE i == CHOOSE i \in 1..Len(cache) : cache[i].key = k
<1>2. i \in 1..Len(cache) /\ cache[i].key = k BY DEF Fresh
<1>3. cache[i] \in Entries BY <1>1, <1>2
<1>4. Cached(k) = cache[i].value BY DEF Cached
<1> HIDE DEF i
<1>5. Settled(cache[i].value, cache[i].key)
  BY <1>2 DEF IInv, ReportsInOrder, SettledCache
<1>6. QED BY <1>2, <1>3, <1>4, <1>5 DEF Entries

-----------------------------------------------------------------------------
(* Every step preserves the invariant.                                      *)

\* With nobody in line the chain is whole.
LEMMA InitIInv == Init => IInv
<1> SUFFICES ASSUME Init PROVE IInv OBVIOUS
<1> USE DEF Init
<1>1. TypeOK
  <2>1. (CHOOSE k \in Keys : TRUE) \in Keys OBVIOUS
  <2>2. cache \in Seq([key : Keys, left : 0..Cooldown, value : Values]) OBVIOUS
  <2>3. QED BY <2>1, <2>2, ResultTypes DEF TypeOK
<1>2. \E rank \in [Callers -> Nat] : Chained(rank)
  <2> DEFINE rank == [c \in Callers |-> 0]
  <2>1. \A c \in Callers : ~InLine(c) BY DEF InLine, Working
  <2>2. Ranked(rank) BY <2>1 DEF Ranked
  <2>3. ResolvedInOrder(rank) BY <2>1 DEF ResolvedInOrder, Working
  <2>4. LineInOrder(rank) BY <2>1 DEF LineInOrder
  <2>5. rank \in [Callers -> Nat] OBVIOUS
  <2>6. QED BY <2>2, <2>3, <2>4, <2>5 DEF Chained
<1>3. WorkInOrder BY DEF WorkInOrder, Working
<1>4. ReportsInOrder
  BY ResultTypes
  DEF ReportsInOrder, GatheredInOrder, SettledCache, SettledAnswers, Working
<1>5. QED BY <1>1, <1>2, <1>3, <1>4 DEF IInv

\* An answer from the cache passes the chain by.
LEMMA ReturnCachedStep ==
  ASSUME IInv, NEW c \in Callers, NEW k \in Keys, ReturnCached(c, k)
  PROVE  IInv'
<1> USE DEF ReturnCached, Go, Tell
<1>1. TypeOK BY DEF IInv
<1>2. PICK rank \in [Callers -> Nat] : Chained(rank) BY DEF IInv
<1>3. \A d \in Callers : pc'[d] = pc[d] \/ (pc[d] = "idle" /\ pc'[d] = "done")
  BY <1>1 DEF TypeOK
<1>4. Chained(rank)' BY <1>1, <1>2, <1>3, ChainKept
<1>5. TypeOK' BY <1>1, CachedValue DEF TypeOK, chainVars, workVars
<1>6. WorkInOrder'
  <2>1. \A d \in Callers : pc'[d] \in Working => pc[d] \in Working /\ d # c
    BY <1>1 DEF Working, TypeOK
  <2>2. \A d \in Callers : d # c => key'[d] = key[d] /\ pc'[d] = pc[d]
    BY <1>1 DEF TypeOK
  <2>3. pc[c] \notin Working BY DEF Working
  <2>4. QED BY <2>1, <2>2, <2>3 DEF IInv, WorkInOrder, Fresh, workVars, Working
<1>7. ReportsInOrder'
  <2>1. /\ pc[c] = "idle" /\ pc'[c] = "done" /\ key'[c] = k
        /\ told'[c] = Cached(k)
        /\ \A d \in Callers : d # c =>
             pc'[d] = pc[d] /\ key'[d] = key[d] /\ told'[d] = told[d]
    BY <1>1 DEF TypeOK
  <2>2. \A d \in Callers : pc[d] = "done" =>
          pc'[d] = "done" /\ key'[d] = key[d] /\ source'[d] = source[d]
    BY <2>1
  <2>3. ASSUME NEW v, v = Cached(k) PROVE Settled(v, k)'
    BY <2>2, <2>3, CachedValue, SettledKept
  <2>4. \A d \in Callers : told'[d].kind = "ok" =>
           \/ told'[d] = told[d]
           \/ /\ pc'[d] = "done"
              /\ \E v, q : v = told'[d] /\ q = key'[d] /\ Settled(v, q)'
    <3>1. PICK v : v = Cached(k) OBVIOUS
    <3>2. QED BY <2>1, <2>3, <3>1
  <2>5. \A d \in Callers : pc'[d] \in Working => Gathered(d)'
    BY <2>1 DEF IInv, ReportsInOrder, GatheredInOrder, Gathered, Working, workVars
  <2>6. ReportsInOrder BY DEF IInv
  <2>7. QED BY <2>2, <2>4, <2>5, <2>6, ReportsKept
<1>8. QED BY <1>4, <1>5, <1>6, <1>7 DEF IInv

\* The work in hand when nobody takes up work and nothing becomes fresh.
LEMMA WorkKept ==
  ASSUME IInv,
         \A k \in Keys : Fresh(k)' => Fresh(k),
         \A d \in Callers :
           /\ pc'[d] \in Working => pc[d] \in Working /\ key'[d] = key[d]
           /\ pc'[d] \in Working \/ page'[d] = 0
           /\ pc'[d] = "sleep" => spacing' <= nap'[d]
  PROVE  WorkInOrder'
<1> SUFFICES ASSUME NEW d \in Callers
             PROVE  /\ pc'[d] \notin Working => page'[d] = 0
                    /\ pc'[d] \in Working => ~Fresh(key[d])'
                    /\ pc'[d] = "sleep" => spacing' <= nap'[d]
  BY DEF WorkInOrder, Fresh
<1>1. ASSUME pc'[d] \in Working PROVE ~Fresh(key[d])'
  <2>1. key'[d] = key[d] /\ key[d] \in Keys /\ ~Fresh(key[d])
    BY <1>1 DEF IInv, TypeOK, WorkInOrder
  <2>2. Fresh(key[d])' <=>
          \E i \in 1..Len(cache') : cache'[i].key = key[d] /\ cache'[i].left > 0
    BY <2>1 DEF Fresh
  <2>3. QED BY <2>1, <2>2 DEF Fresh
<1>2. QED BY <1>1

\* A new call comes last.
LEMMA QueueStep ==
  ASSUME IInv, NEW c \in Callers, NEW k \in Keys, Queue(c, k)
  PROVE  IInv'
<1> USE DEF Queue, Go
<1>1. TypeOK BY DEF IInv
<1>2. PICK rank \in [Callers -> Nat] : Chained(rank) BY DEF IInv
<1>3. PICK last \in Nat : /\ \A d \in Callers : rank[d] <= last
                          /\ last = 0 <=> tail = NoCaller
                          /\ tail # NoCaller => rank[tail] = last
  <2>1. CASE tail = NoCaller
    <3>1. 0 \in Nat /\ \A d \in Callers : rank[d] <= 0
      BY <1>2, <2>1 DEF Chained, Ranked
    <3>2. QED BY <2>1, <3>1
  <2>2. CASE tail # NoCaller
    <3>1. tail \in Callers /\ rank[tail] \in Nat BY <1>1, <2>2 DEF TypeOK
    <3>2. QED BY <1>2, <2>2, <3>1 DEF Chained, Ranked
  <2>3. QED BY <2>1, <2>2
<1>4. rank[c] = 0 /\ ~InLine(c) /\ ~released[c] /\ ~forwards[c]
  BY <1>2 DEF Chained, Ranked
<1>5. PICK r \in [Callers -> Nat] : /\ r[c] = last + 1
                                    /\ \A d \in Callers : d # c => r[d] = rank[d]
  <2>1. [rank EXCEPT ![c] = last + 1] \in [Callers -> Nat] BY <1>3
  <2>2. QED BY <2>1
<1>6. /\ r[c] = last + 1 /\ r[c] \in Nat /\ r[c] # 0
      /\ \A d \in Callers : d # c =>
           r[d] = rank[d] /\ pred'[d] = pred[d] /\ pc'[d] = pc[d]
      /\ pred'[c] = tail /\ pc'[c] = "waiting"
  BY <1>1, <1>5, <1>3 DEF TypeOK
<1>7. tail = NoCaller \/ (tail \in Callers /\ tail # c /\ r[tail] = last)
  <2>1. tail # NoCaller => tail # c BY <1>2, <1>4 DEF Chained, Ranked
  <2>2. QED BY <1>1, <1>3, <1>6, <2>1 DEF TypeOK
<1>8. InLine(c)' /\ \A d \in Callers : d # c => (InLine(d)' <=> InLine(d))
  BY <1>6 DEF InLine
<1>9. \A d \in Callers : d # c => r[d] <= last /\ r[d] \in Nat BY <1>5, <1>3, <1>6
<1>10. Ranked(r)'
  <2>1. \A d \in Callers : r[d] = 0 => ~released[d] /\ ~forwards[d] /\ ~InLine(d)'
    BY <1>2, <1>3, <1>6, <1>8 DEF Chained, Ranked
  <2>2. \A d \in Callers : pc'[d] = "idle" => r[d] = 0
    BY <1>2, <1>6 DEF Chained, Ranked
  <2>3. \A d, e \in Callers : r[d] = r[e] /\ r[d] # 0 => d = e
    <3>1. \A d \in Callers : d # c => r[d] # r[c] BY <1>3, <1>6, <1>9
    <3>2. QED BY <1>2, <1>6, <3>1 DEF Chained, Ranked
  <2>4. ASSUME NEW d \in Callers, r[d] # 0
        PROVE  IF pred'[d] = NoCaller
               THEN \A e \in Callers : r[e] = 0 \/ r[d] <= r[e]
               ELSE /\ r[pred'[d]] # 0 /\ r[pred'[d]] < r[d]
                    /\ \A e \in Callers : r[e] <= r[pred'[d]] \/ r[d] <= r[e]
    <3>1. CASE d = c
      <4>1. CASE tail = NoCaller
        <5>0. last = 0 BY <1>3, <4>1
        <5>1. \A e \in Callers : e # c => r[e] = 0 BY <1>9, <5>0
        <5>2. QED BY <1>6, <3>1, <4>1, <5>1
      <4>2. CASE tail # NoCaller
        <5>0. last < r[c] BY <1>3, <1>6
        <5>1. r[tail] = last /\ last # 0 /\ last < r[c] BY <1>3, <1>7, <4>2, <5>0
        <5>2. \A e \in Callers : r[e] <= r[tail] \/ r[c] <= r[e] BY <1>6, <1>9, <5>1
        <5>3. QED BY <1>6, <3>1, <4>2, <5>1, <5>2
      <4>3. QED BY <4>1, <4>2
    <3>2. CASE d # c
      <4>1. pred'[d] = pred[d] /\ r[d] = rank[d] /\ rank[d] # 0 BY <1>6, <2>4, <3>2
      <4>2. pred[d] # c BY <1>2, <1>4, <4>1, CallersAssumption DEF Chained, Ranked
      <4>3. pred[d] \in Callers \cup {NoCaller} BY <1>1 DEF TypeOK
      <4>4. r[d] <= r[c] /\ r[c] # 0 BY <1>3, <1>6, <1>9, <3>2
      <4>5. pred[d] # NoCaller => r[pred[d]] = rank[pred[d]] BY <1>6, <4>2, <4>3
      <4>6. QED BY <1>2, <1>6, <4>1, <4>4, <4>5 DEF Chained, Ranked
    <3>3. QED BY <3>1, <3>2
  <2>5. r[c] # 0 /\ \A d \in Callers : r[d] <= r[c]
    <3>1. \A d \in Callers : d # c => r[d] <= r[c] BY <1>3, <1>6, <1>9
    <3>2. QED BY <1>6, <3>1
  <2>6. QED BY <2>1, <2>2, <2>3, <2>4, <2>5, CallersAssumption DEF Ranked
<1>11. ResolvedInOrder(r)'
  <2>1. ASSUME NEW a \in Callers, NEW b \in Callers, released[b], r[a] # 0, r[a] < r[b]
        PROVE  released[a]
    <3>1. b # c BY <1>4, <2>1
    <3>2. a # c BY <1>3, <1>6, <1>9, <2>1, <3>1
    <3>3. QED BY <1>2, <1>6, <2>1, <3>1, <3>2 DEF Chained, ResolvedInOrder
  <2>2. ASSUME NEW d \in Callers, pc'[d] \in Working
        PROVE  d # c /\ pc[d] \in Working
    BY <1>6, <2>2 DEF Working
  <2>3. \A d \in Callers : pc'[d] \in Working =>
          (pred'[d] # NoCaller => released[pred'[d]])
    BY <1>2, <1>6, <2>2 DEF Chained, ResolvedInOrder, Resolved
  <2>4. \A d \in Callers : InLine(d)' => ~released[d] /\ ~forwards[d]
    BY <1>2, <1>4, <1>8 DEF Chained, ResolvedInOrder
  <2>5. QED BY <1>2, <2>1, <2>3, <2>4 DEF Chained, ResolvedInOrder, Resolved
<1>12. LineInOrder(r)'
  <2>1. line \in Seq(Callers) /\ Len(line) \in Nat BY <1>1 DEF TypeOK
  <2>2. /\ Len(line') = Len(line) + 1 /\ line'[Len(line) + 1] = c
        /\ \A i \in 1..Len(line) : line'[i] = line[i]
    BY <2>1
  <2>3. \A i \in 1..Len(line) : line[i] \in Callers /\ line[i] # c /\ InLine(line[i])
    BY <1>2, <1>4, <2>1 DEF Chained, LineInOrder
  <2>4. ASSUME NEW i \in 1..Len(line') PROVE pc'[line'[i]] \in {"waiting"} \cup Working
    <3>1. CASE i = Len(line) + 1 BY <1>6, <2>2, <3>1
    <3>2. CASE i \in 1..Len(line)
      BY <1>6, <2>2, <2>3, <3>2 DEF InLine
    <3>3. QED BY <2>1, <2>2, <3>1, <3>2
  <2>5. ASSUME NEW d \in Callers, InLine(d)'
        PROVE  \E i \in 1..Len(line') : line'[i] = d
    <3>1. CASE d = c
      <4>1. Len(line) + 1 \in 1..Len(line') BY <2>1, <2>2
      <4>2. QED BY <2>2, <3>1, <4>1
    <3>2. CASE d # c
      <4>1. PICK i \in 1..Len(line) : line[i] = d
        BY <1>2, <1>8, <2>5, <3>2 DEF Chained, LineInOrder
      <4>2. i \in 1..Len(line') BY <2>1, <2>2
      <4>3. QED BY <2>2, <4>1, <4>2
    <3>3. QED BY <3>1, <3>2
  <2>6. ASSUME NEW i \in 1..Len(line'), NEW j \in 1..Len(line'), i < j
        PROVE  r[line'[i]] < r[line'[j]]
    <3>1. i \in 1..Len(line) BY <2>1, <2>2, <2>6
    <3>2. line'[i] = line[i] /\ r[line[i]] = rank[line[i]] /\ r[line[i]] <= last
          /\ r[line[i]] \in Nat
      BY <1>6, <1>9, <2>2, <2>3, <3>1
    <3>3. CASE j = Len(line) + 1 BY <1>3, <1>6, <2>2, <3>2, <3>3
    <3>4. CASE j \in 1..Len(line)
      BY <1>2, <1>6, <2>2, <2>3, <2>6, <3>1, <3>2, <3>4 DEF Chained, LineInOrder
    <3>5. QED BY <2>1, <2>2, <3>3, <3>4
  <2>7. QED BY <2>4, <2>5, <2>6 DEF LineInOrder, InLine
<1>13. Chained(r)' BY <1>10, <1>11, <1>12 DEF Chained
<1>14. TypeOK'
  <2>1. line' \in Seq(Callers) BY <1>1 DEF TypeOK
  <2>2. QED BY <1>1, <2>1 DEF TypeOK, workVars
<1>15. WorkInOrder'
  <2>1. \A d \in Callers : pc'[d] \in Working => pc[d] \in Working /\ d # c
    BY <1>6 DEF Working
  <2>2. pc[c] \notin Working BY DEF Working
  <2>3. \A d \in Callers : d # c => key'[d] = key[d] BY <1>1 DEF TypeOK
  <2>4. \A q \in Keys : Fresh(q)' => Fresh(q) BY DEF Fresh
  <2>5. \A d \in Callers : pc[d] \notin Working => page[d] = 0
    BY DEF IInv, WorkInOrder
  <2>6. \A d \in Callers : /\ pc'[d] \in Working => pc[d] \in Working /\ key'[d] = key[d]
                           /\ pc'[d] \in Working \/ page'[d] = 0
                           /\ pc'[d] = "sleep" => spacing' <= nap'[d]
    BY <1>6, <2>1, <2>2, <2>3, <2>5 DEF IInv, WorkInOrder, workVars, Working
  <2>7. QED BY <2>4, <2>6, WorkKept
<1>16. ReportsInOrder'
  <2>1. \A d \in Callers : pc[d] = "done" =>
          pc'[d] = "done" /\ key'[d] = key[d] /\ source'[d] = source[d]
    BY <1>1, <1>6 DEF TypeOK
  <2>2. \A d \in Callers : pc'[d] \in Working => Gathered(d)'
    BY <1>6 DEF IInv, ReportsInOrder, GatheredInOrder, Gathered, Working, workVars
  <2>3. ReportsInOrder BY DEF IInv
  <2>4. ASSUME NEW i \in 1..Len(cache')
        PROVE  \E v, q :
                 /\ v = cache'[i].value /\ q = cache'[i].key
                 /\ \/ Settled(v, q)'
                    \/ \E j \in 1..Len(cache) : cache[j].value = v /\ cache[j].key = q
    <3>1. PICK v, q : v = cache'[i].value /\ q = cache'[i].key OBVIOUS
    <3>2. i \in 1..Len(cache) /\ cache[i].value = v /\ cache[i].key = q BY <3>1
    <3>3. QED BY <3>1, <3>2
  <2>5. \A d \in Callers : told'[d].kind = "ok" =>
          \/ told'[d] = told[d]
          \/ /\ pc'[d] = "done"
             /\ \E v, q : v = told'[d] /\ q = key'[d] /\ Settled(v, q)'
    OBVIOUS
  <2>6. QED BY <2>1, <2>2, <2>3, <2>4, <2>5, ReportsKept
<1>17. QED BY <1>13, <1>14, <1>15, <1>16 DEF IInv

\* A cancelled call leaves the line; its promise will follow.
LEMMA AbandonWaitStep ==
  ASSUME IInv, NEW c \in Callers, AbandonWait(c)
  PROVE  IInv'
<1> USE DEF AbandonWait, Go, Tell
<1>1. TypeOK BY DEF IInv
<1>2. PICK rank \in [Callers -> Nat] : Chained(rank) BY DEF IInv
<1>3. InLine(c) BY DEF InLine
<1>4. Chained(rank)' /\ line' \in Seq(Callers) BY <1>1, <1>2, <1>3, LeavesLine
<1>5. TypeOK' BY <1>1, <1>4, ResultTypes DEF TypeOK, workVars
<1>6. WorkInOrder'
  <2>1. \A k \in Keys : Fresh(k)' => Fresh(k) BY DEF Fresh
  <2>2. \A d \in Callers : /\ pc'[d] \in Working => pc[d] \in Working
                           /\ pc'[d] \in Working \/ page[d] = 0
                           /\ pc'[d] = "sleep" => pc[d] = "sleep"
    BY <1>1 DEF IInv, WorkInOrder, Working, TypeOK
  <2>3. QED BY <2>1, <2>2, WorkKept DEF IInv, WorkInOrder, workVars
<1>7. ReportsInOrder'
  <2>1. told'[c].kind # "ok" /\ \A d \in Callers : d # c => told'[d] = told[d]
    BY <1>1, ResultTypes DEF TypeOK
  <2>2. \A d \in Callers : /\ pc[d] = "done" => pc'[d] = "done"
                           /\ pc'[d] \in Working => pc[d] \in Working
    BY <1>1 DEF TypeOK, Working
  <2>3. \A i \in 1..Len(cache') : OldEntry(i) BY DEF OldEntry
  <2>4. QED BY <2>1, <2>2, <2>3, ReportsUntouched DEF IInv
<1>8. QED BY <1>4, <1>5, <1>6, <1>7 DEF IInv

\* The promise of a call that was cancelled in line follows its predecessor's.
LEMMA ForwardStep ==
  ASSUME IInv, NEW c \in Callers, Forward(c)
  PROVE  IInv'
<1> USE DEF Forward
<1>1. TypeOK BY DEF IInv
<1>2. PICK rank \in [Callers -> Nat] : Chained(rank) BY DEF IInv
<1> USE DEF Chained
<1>3. rank[c] # 0 /\ ~released[c] /\ ~InLine(c)
  BY <1>2 DEF Ranked, ResolvedInOrder
<1>4. /\ released'[c] /\ ~forwards'[c]
      /\ \A d \in Callers : d # c =>
           released'[d] = released[d] /\ forwards'[d] = forwards[d]
  BY <1>1 DEF TypeOK
<1>5. \A d \in Callers : InLine(d)' <=> InLine(d) BY DEF InLine
<1>6. Ranked(rank)' BY <1>2, <1>3, <1>4, <1>5 DEF Ranked
<1>7. ResolvedInOrder(rank)'
  <2>1. ASSUME NEW a \in Callers, NEW b \in Callers,
               released'[b], rank[a] # 0, rank[a] < rank[b]
        PROVE  released'[a]
    <3>1. CASE b # c
      <4>1. released[a] BY <1>2, <1>4, <2>1, <3>1 DEF ResolvedInOrder
      <4>2. QED BY <1>4, <4>1
    <3>2. CASE b = c
      <4>1. released[a] BY <1>1, <1>2, <2>1, <3>2, EarlierResolved
      <4>2. QED BY <1>4, <4>1
    <3>3. QED BY <3>1, <3>2
  <2>2. \A d \in Callers : pc[d] \in Working =>
           (pred[d] # NoCaller => released'[pred[d]])
    BY <1>1, <1>2, <1>4 DEF TypeOK, ResolvedInOrder, Resolved
  <2>3. \A d \in Callers : InLine(d) => ~released'[d] /\ ~forwards'[d]
    BY <1>2, <1>3, <1>4 DEF ResolvedInOrder
  <2>4. \A d \in Callers : forwards'[d] => ~released'[d]
    BY <1>2, <1>4 DEF ResolvedInOrder
  <2>5. QED BY <1>5, <2>1, <2>2, <2>3, <2>4 DEF ResolvedInOrder, Resolved
<1>8. LineInOrder(rank)'
  <2>1. \A i \in 1..Len(line) : line[i] \in Callers BY <1>1 DEF TypeOK
  <2>2. QED BY <1>2, <1>5, <2>1 DEF LineInOrder
<1>9. TypeOK' BY <1>1 DEF TypeOK, workVars
<1>10. WorkInOrder' BY DEF IInv, WorkInOrder, Fresh, workVars
<1>11. ReportsInOrder'
  <2>1. \A i \in 1..Len(cache') : OldEntry(i) BY DEF OldEntry
  <2>2. QED BY <2>1, ReportsUntouched DEF IInv
<1>12. QED BY <1>6, <1>7, <1>8, <1>9, <1>10, <1>11 DEF IInv

\* The second look at the cache answers the call or lets it begin.
LEMMA TakeTurnStep ==
  ASSUME IInv, NEW c \in Callers, TakeTurn(c)
  PROVE  IInv'
<1> USE DEF TakeTurn
<1>1. TypeOK BY DEF IInv
<1>2. InLine(c) /\ Resolved(pred[c]) BY DEF InLine
<1>3. CASE Fresh(key[c]) /\ Finish(c, Cached(key[c]), NoAnswers) /\ UNCHANGED spacing
  <2>1. key[c] \in Keys BY <1>1 DEF TypeOK
  <2>2. Cached(key[c]) \in Values /\ Settled(Cached(key[c]), key[c])
    BY <1>3, <2>1, CachedValue
  <2>3. NoAnswers \in Answers BY ResultTypes
  <2>4. QED BY <1>2, <1>3, <2>2, <2>3, CacheKept, FinishStep
<1>4. CASE ~Fresh(key[c]) /\ NextPage(c, 0, Unannounced, NoAnswers)
  <2>1. page[c] = 0 BY DEF IInv, WorkInOrder, Working
  <2>2. page[c] < MaxPages /\ 0 \in 0..MaxRows /\ Unannounced \in Totals0
    BY <2>1 DEF Totals0
  <2>3. QED BY <1>2, <1>4, <2>2, ResultTypes, NextPageStep
<1>5. QED BY <1>3, <1>4 DEF FreshAfterWait

\* A sleeper starts its page.  Nobody else sleeps.
LEMMA WakeUpStep ==
  ASSUME IInv, NEW c \in Callers, WakeUp(c)
  PROVE  IInv'
<1> USE DEF WakeUp, Go
<1>1. TypeOK BY DEF IInv
<1>2. PICK rank \in [Callers -> Nat] : Chained(rank) BY DEF IInv
<1>3. /\ pc'[c] = "posting" /\ \A d \in Callers : d # c => pc'[d] = pc[d]
  BY <1>1 DEF TypeOK
<1>4. Chained(rank)' BY <1>1, <1>2, <1>3, ChainKept DEF Working
<1>5. TypeOK'
  <2>1. spacing' \in 0..Cooldown OBVIOUS
  <2>2. pc' \in [Callers -> {"idle", "waiting", "sleep", "posting", "sent", "done"}]
    BY <1>1 DEF TypeOK
  <2>3. QED BY <1>1, <2>1, <2>2 DEF TypeOK, workVars, chainVars
<1>6. \A d \in Callers : pc'[d] # "sleep"
  <2>1. \A d \in Callers : pc[d] = "sleep" => InLine(d) /\ Resolved(pred[d])
    BY WorkersTurn DEF Working
  <2>2. \A d \in Callers : pc[d] = "sleep" => d = c BY <1>1, <1>2, <2>1, OneTurn
  <2>3. QED BY <1>3, <2>2
<1>7. WorkInOrder'
  <2>1. \A k \in Keys : Fresh(k)' => Fresh(k) BY DEF Fresh
  <2>2. \A d \in Callers : /\ pc'[d] \in Working => pc[d] \in Working
                           /\ pc'[d] \in Working \/ page[d] = 0
    BY <1>3 DEF IInv, WorkInOrder, Working
  <2>3. QED BY <1>6, <2>1, <2>2, WorkKept DEF workVars
<1>8. ReportsInOrder'
  <2>1. \A i \in 1..Len(cache') : OldEntry(i) BY DEF OldEntry
  <2>2. \A d \in Callers : /\ pc[d] = "done" => pc'[d] = "done"
                           /\ pc'[d] \in Working => pc[d] \in Working
    BY <1>3 DEF Working
  <2>3. QED BY <2>1, <2>2, ReportsUntouched DEF IInv
<1>9. QED BY <1>4, <1>5, <1>7, <1>8 DEF IInv

\* A cancelled sleeper gives its turn up.
LEMMA CancelSleepStep ==
  ASSUME IInv, NEW c \in Callers, CancelSleep(c)
  PROVE  IInv'
<1>1. pc[c] \in Working BY DEF CancelSleep, Working
<1>2. InLine(c) /\ Resolved(pred[c]) BY <1>1, WorkersTurn
<1>3. QED BY <1>2, CacheKept, ResultTypes, FinishStep DEF CancelSleep

\* What is sent belongs to the page that was started.
LEMMA DispatchStep ==
  ASSUME IInv, NEW c \in Callers, Dispatch(c)
  PROVE  IInv'
<1> USE DEF Dispatch, Go
<1>1. TypeOK BY DEF IInv
<1>2. PICK rank \in [Callers -> Nat] : Chained(rank) BY DEF IInv
<1>3. /\ pc'[c] = "sent" /\ \A d \in Callers : d # c => pc'[d] = pc[d]
  BY <1>1 DEF TypeOK
<1>4. Chained(rank)' BY <1>1, <1>2, <1>3, ChainKept DEF Working
<1>5. TypeOK' BY <1>1 DEF TypeOK, workVars, chainVars
<1>6. WorkInOrder'
  <2>1. \A k \in Keys : Fresh(k)' => Fresh(k) BY DEF Fresh
  <2>2. \A d \in Callers : /\ pc'[d] \in Working => pc[d] \in Working
                           /\ pc'[d] \in Working \/ page[d] = 0
                           /\ pc'[d] = "sleep" => pc[d] = "sleep"
    BY <1>3 DEF IInv, WorkInOrder, Working
  <2>3. QED BY <2>1, <2>2, WorkKept DEF IInv, WorkInOrder, workVars
<1>7. ReportsInOrder'
  <2>1. \A i \in 1..Len(cache') : OldEntry(i) BY DEF OldEntry
  <2>2. \A d \in Callers : /\ pc[d] = "done" => pc'[d] = "done"
                           /\ pc'[d] \in Working => pc[d] \in Working
    BY <1>3 DEF Working
  <2>3. QED BY <2>1, <2>2, ReportsUntouched DEF IInv
<1>8. QED BY <1>4, <1>5, <1>6, <1>7 DEF IInv

\* A failed page ends the turn with nothing stored.
LEMMA BadPageStep ==
  ASSUME IInv, NEW c \in Callers, BadPage(c)
  PROVE  IInv'
<1>1. pc[c] \in Working BY DEF BadPage, Working
<1>2. InLine(c) /\ Resolved(pred[c]) BY <1>1, WorkersTurn
<1>3. QED BY <1>2, CacheKept, ResultTypes, FinishStep DEF BadPage

\* A report is stored in a cache that keeps its bound.
LEMMA StoredReport ==
  ASSUME IInv, NEW k \in Keys, NEW value \in Values
  PROVE  /\ Stored(k, value) \in Seq(Entries) /\ Len(Stored(k, value)) <= CacheSize
         /\ \A i \in 1..Len(Stored(k, value)) :
              \/ Stored(k, value)[i].key = k /\ Stored(k, value)[i].value = value
              \/ \E j \in 1..Len(cache) : Stored(k, value)[i] = cache[j]
<1> DEFINE live == Live(cache)
           low  == Len(live) - CacheSize + 2
           kept == IF Len(live) < CacheSize THEN live ELSE SubSeq(live, low, Len(live))
           new  == [key |-> k, left |-> Cooldown, value |-> value]
<1>1. cache \in Seq(Entries) BY DEF IInv, TypeOK, Entries
<1>2. /\ live \in Seq(Entries) /\ Len(live) \in Nat
      /\ \A i \in 1..Len(live) : \E j \in 1..Len(cache) : live[i] = cache[j]
  BY <1>1, LiveEntries
<1>3. new \in Entries BY DEF Entries
<1>4. Stored(k, value) = Append(kept, new) BY DEF Stored
<1> HIDE DEF live, new
<1>5. /\ kept \in Seq(Entries) /\ Len(kept) \in Nat /\ Len(kept) < CacheSize
      /\ \A i \in 1..Len(kept) : \E j \in 1..Len(cache) : kept[i] = cache[j]
  <2>1. CASE Len(live) < CacheSize BY <1>2, <2>1
  <2>2. CASE ~(Len(live) < CacheSize)
    <3> DEFINE tl == SubSeq(live, low, Len(live))
    <3>1. low \in 1..(Len(live) + 1) BY <1>2, <2>2
    <3>2. /\ tl \in Seq(Entries) /\ Len(tl) = Len(live) - low + 1
          /\ \A i \in 1..(Len(live) - low + 1) : tl[i] = live[low + i - 1]
      <4> HIDE DEF low
      <4>1. low \in Nat BY <3>1
      <4>2. QED BY <1>2, <3>1, <4>1
    <3>3. Len(tl) = CacheSize - 1 BY <1>2, <3>2
    <3>4. \A i \in 1..Len(tl) :
            tl[i] = live[low + i - 1] /\ low + i - 1 \in 1..Len(live)
      BY <1>2, <2>2, <3>2, <3>3
    <3>5. kept = tl BY <2>2
    <3> HIDE DEF tl
    <3> HIDE DEF low
    <3>6. \A i \in 1..Len(tl) : \E j \in 1..Len(cache) : tl[i] = cache[j]
      BY <1>2, <3>4
    <3>7. Len(tl) \in Nat /\ Len(tl) < CacheSize BY <3>3
    <3>8. QED BY <3>2, <3>5, <3>6, <3>7
  <2>3. QED BY <2>1, <2>2
<1> HIDE DEF kept
<1>6. new.value = value /\ new.key = k BY DEF new
<1>7. /\ Append(kept, new) \in Seq(Entries) /\ Len(Append(kept, new)) = Len(kept) + 1
      /\ \A i \in 1..(Len(kept) + 1) :
           Append(kept, new)[i] = IF i <= Len(kept) THEN kept[i] ELSE new
  BY <1>3, <1>5
<1>8. QED BY <1>4, <1>5, <1>6, <1>7

\* An accepted page leads to the next one or to a whole report.
LEMMA PageStep ==
  ASSUME IInv, NEW c \in Callers, NEW n \in PageRows, NEW more \in BOOLEAN,
         NEW totalHere \in Totals0, Page(c, n, more, totalHere)
  PROVE  IInv'
<1> DEFINE sum    == rows[c] + n
           total  == IF page[c] = 1 THEN totalHere ELSE announced[c]
           s      == Answered(source[c], n, more, page[c] = 1, totalHere)
           goesOn == more /\ page[c] < MaxPages
           fails  == \/ PageRefused(sum, n, more)
                     \/ ~goesOn /\ (PagesLeft(more) \/ RowsDisagree(sum, total))
<1>1. TypeOK BY DEF IInv
<1>2. pc[c] \in Working BY DEF Page, Working
<1>3. InLine(c) /\ Resolved(pred[c]) /\ ~Fresh(key[c]) /\ Gathered(c)
  BY <1>2, WorkersTurn
<1>4. sum \in Nat /\ total \in Totals0
  BY <1>1 DEF TypeOK, Totals0
<1>5. UNCHANGED <<key, signal, tail, pred, forwards, sinceSend>> BY DEF Page
<1>6. CASE Finish(c, Failure("failed"), NoAnswers) /\ UNCHANGED <<cache, spacing>>
  BY <1>3, <1>5, <1>6, CacheKept, ResultTypes, FinishStep
<1>7. ASSUME ~fails
      PROVE  /\ sum \in 0..MaxRows /\ s \in Answers
             /\ s.rows = sum /\ s.total = total /\ ~s.hole /\ s.more = more
  <2>1. sum \in 0..MaxRows /\ ~(more /\ n = 0) BY <1>4, <1>7 DEF PageRefused
  <2>2. /\ source[c].rows = rows[c] /\ source[c].total = announced[c]
        /\ ~source[c].hole /\ source[c] \in Answers
    BY <1>1, <1>3 DEF Gathered, TypeOK
  <2>3. QED BY <1>4, <2>1, <2>2 DEF Answered, Answers, Totals0
<1>8. CASE ~fails /\ goesOn /\ NextPage(c, sum, total, s) /\ UNCHANGED cache
  <2>1. page[c] < MaxPages BY <1>8
  <2>2. /\ sum \in 0..MaxRows /\ s \in Answers
        /\ s.rows = sum /\ s.total = total /\ ~s.hole
    BY <1>7, <1>8
  <2> HIDE DEF sum, total, s
  <2>3. QED BY <1>3, <1>4, <1>5, <1>8, <2>1, <2>2, NextPageStep
<1>9. CASE /\ ~fails /\ ~goesOn /\ Finish(c, Result(c, sum, total), s)
           /\ cache' = Stored(key[c], Result(c, sum, total)) /\ UNCHANGED spacing
  <2> DEFINE v == Result(c, sum, total)
  <2>1. /\ sum \in 0..MaxRows /\ s \in Answers /\ ~s.more
        /\ s.rows = sum /\ s.total = total /\ ~s.hole
    BY <1>7, <1>9 DEF PagesLeft
  <2>2. total # Unannounced => sum = total BY <1>9 DEF RowsDisagree
  <2>3. Finish(c, v, s) /\ cache' = Stored(key[c], v) BY <1>9
  <2> HIDE DEF sum, total, s
  <2>4. v \in Values /\ v.kind = "ok" /\ v.by = c /\ v.rows = sum /\ v.announced = total
    BY <1>4, <2>1, ResultTypes
  <2> HIDE DEF v
  <2>5. Backs(s, v) BY <2>1, <2>2, <2>4 DEF Backs
  <2>6. key[c] \in Keys BY <1>1 DEF TypeOK
  <2>7. /\ cache' \in Seq(Entries) /\ Len(cache') <= CacheSize
        /\ \A i \in 1..Len(cache') :
             \/ cache'[i].key = key[c] /\ cache'[i].value = v
             \/ \E j \in 1..Len(cache) : cache'[i] = cache[j]
    BY <2>3, <2>4, <2>6, StoredReport
  <2>8. \A i \in 1..Len(cache') :
          OldEntry(i) \/ (cache'[i].key = key[c] /\ cache'[i].value = v /\ v.kind = "ok")
    BY <2>4, <2>7 DEF OldEntry
  <2>9. QED BY <1>3, <1>5, <1>9, <2>1, <2>3, <2>4, <2>5, <2>7, <2>8, FinishStep
<1>10. QED BY <1>6, <1>8, <1>9 DEF Page

\* A cancellation signal alone changes no place and no promise.
LEMMA AbortStep ==
  ASSUME IInv, NEW c \in Callers, Abort(c)
  PROVE  IInv'
<1> USE DEF Abort
<1>1. TypeOK BY DEF IInv
<1>2. PICK rank \in [Callers -> Nat] : Chained(rank) BY DEF IInv
<1>3. Chained(rank)' BY <1>1, <1>2, ChainKept
<1>4. TypeOK' BY <1>1 DEF TypeOK, chainVars, workVars
<1>5. WorkInOrder' BY DEF IInv, WorkInOrder, Fresh, workVars
<1>6. ReportsInOrder'
  <2>1. \A i \in 1..Len(cache') : OldEntry(i) BY DEF OldEntry
  <2>2. QED BY <2>1, ReportsUntouched DEF IInv
<1>7. QED BY <1>3, <1>4, <1>5, <1>6 DEF IInv

\* Time passes for the sleeper and for the cooldown alike.
LEMMA TickStep ==
  ASSUME IInv, Tick
  PROVE  IInv'
<1> USE DEF Tick
<1>1. TypeOK BY DEF IInv
<1>2. PICK rank \in [Callers -> Nat] : Chained(rank) BY DEF IInv
<1>3. Chained(rank)' BY <1>1, <1>2, ChainKept
<1>4. \A n \in 0..Cooldown : Less1(n) \in 0..Cooldown /\ Less1(n) <= n BY DEF Less1
<1>5. /\ cache' \in Seq(Entries) /\ Len(cache') = Len(cache)
      /\ \A i \in 1..Len(cache) : /\ cache'[i].key = cache[i].key
                                  /\ cache'[i].value = cache[i].value
                                  /\ cache'[i].left = Less1(cache[i].left)
  <2>1. cache \in Seq(Entries) /\ Len(cache) \in Nat BY <1>1 DEF TypeOK, Entries
  <2>2. ASSUME NEW i \in 1..Len(cache)
        PROVE  /\ [cache[i] EXCEPT !.left = Less1(@)] \in Entries
               /\ [cache[i] EXCEPT !.left = Less1(@)].key = cache[i].key
               /\ [cache[i] EXCEPT !.left = Less1(@)].value = cache[i].value
               /\ [cache[i] EXCEPT !.left = Less1(@)].left = Less1(cache[i].left)
    <3>1. cache[i] \in Entries BY <2>1
    <3>2. Less1(cache[i].left) \in 0..Cooldown BY <1>4, <3>1 DEF Entries
    <3>3. QED BY <3>1, <3>2 DEF Entries
  <2>3. cache' \in [1..Len(cache) -> Entries] BY <2>2
  <2>4. cache' \in Seq(Entries) /\ Len(cache') = Len(cache)
    <3> DEFINE n == Len(cache)
    <3>1. n \in Nat /\ cache' \in [1..n -> Entries] BY <2>1, <2>3
    <3> HIDE DEF n
    <3>2. cache' \in Seq(Entries) /\ Len(cache') = n BY ONLY <3>1, SeqDef, LenProperties
    <3>3. QED BY <3>2 DEF n
  <2>5. QED BY <2>2, <2>4
<1>6. TypeOK'
  <2>1. spacing' \in 0..Cooldown /\ sinceSend' \in 0..Cooldown BY <1>1, <1>4 DEF TypeOK
  <2>2. nap' \in [Callers -> 0..Cooldown] BY <1>1, <1>4 DEF TypeOK
  <2>3. cache' \in Seq([key : Keys, left : 0..Cooldown, value : Values])
    BY <1>5 DEF Entries
  <2>4. Len(cache') <= CacheSize BY <1>1, <1>5 DEF TypeOK
  <2>5. QED BY <1>1, <2>1, <2>2, <2>3, <2>4 DEF TypeOK, chainVars, workVars
<1>7. WorkInOrder'
  <2>1. \A k \in Keys : Fresh(k)' => Fresh(k)
    <3>1. cache \in Seq(Entries) /\ Len(cache) \in Nat BY <1>1 DEF TypeOK, Entries
    <3>2. \A i \in 1..Len(cache) : cache[i].left \in 0..Cooldown
      <4>1. \A i \in 1..Len(cache) : cache[i] \in Entries BY <3>1
      <4>2. QED BY <4>1 DEF Entries
    <3>3. \A i \in 1..Len(cache) : cache'[i].left > 0 => cache[i].left > 0
      BY <1>5, <3>2 DEF Less1
    <3>4. QED BY <1>5, <3>3 DEF Fresh
  <2>2. ASSUME NEW d \in Callers, pc[d] = "sleep" PROVE spacing' <= nap'[d]
    <3>1. spacing \in Nat /\ nap[d] \in Nat /\ spacing <= nap[d]
      BY <1>1, <2>2 DEF TypeOK, IInv, WorkInOrder
    <3>2. nap'[d] = Less1(nap[d]) OBVIOUS
    <3>3. QED BY <3>1, <3>2 DEF Less1
  <2>3. \A d \in Callers : pc[d] \in Working \/ page[d] = 0 BY DEF IInv, WorkInOrder
  <2>4. QED BY <2>1, <2>2, <2>3, WorkKept DEF workVars
<1>8. ReportsInOrder'
  <2>1. \A i \in 1..Len(cache') : OldEntry(i) BY <1>5 DEF OldEntry
  <2>2. QED BY <2>1, ReportsUntouched DEF IInv
<1>9. QED BY <1>3, <1>6, <1>7, <1>8 DEF IInv

\* The invariant is inductive.
LEMMA NextIInv == IInv /\ [Next]_vars => IInv'
<1> SUFFICES ASSUME IInv, [Next]_vars PROVE IInv' OBVIOUS
<1>1. ASSUME NEW c \in Callers, NEW k \in MayAsk[c], ReturnCached(c, k) \/ Queue(c, k)
      PROVE  IInv'
  <2>1. k \in Keys OBVIOUS
  <2>2. QED BY <1>1, <2>1, ReturnCachedStep, QueueStep
<1>2. ASSUME NEW c \in Callers, Local(c) PROVE IInv'
  BY <1>2, AbandonWaitStep, ForwardStep, TakeTurnStep, WakeUpStep, CancelSleepStep
  DEF Local
<1>3. ASSUME NEW c \in Callers, Reply(c) PROVE IInv'
  BY <1>3, BadPageStep, PageStep DEF Reply, Totals0
<1>4. ASSUME NEW c \in Callers, Dispatch(c) \/ Abort(c) PROVE IInv'
  BY <1>4, DispatchStep, AbortStep
<1>5. CASE Tick BY <1>5, TickStep
<1>6. CASE UNCHANGED vars
  <2> USE DEF vars, chainVars, workVars
  <2>1. TypeOK' BY <1>6 DEF IInv, TypeOK
  <2>2. PICK rank \in [Callers -> Nat] : Chained(rank) BY DEF IInv
  <2>3. Chained(rank)' BY <1>6, <2>2, ChainKept DEF IInv
  <2>4. WorkInOrder' BY <1>6 DEF IInv, WorkInOrder, Fresh
  <2>5. ReportsInOrder'
    <3>1. \A i \in 1..Len(cache') : OldEntry(i) BY <1>6 DEF OldEntry
    <3>2. QED BY <1>6, <3>1, ReportsUntouched DEF IInv
  <2>6. QED BY <2>1, <2>3, <2>4, <2>5 DEF IInv
<1>7. QED BY <1>1, <1>2, <1>3, <1>4, <1>5, <1>6 DEF Next

-----------------------------------------------------------------------------
(* What follows from the invariant.                                         *)

\* The inductive invariant holds in every reachable state: the calls of a report
\* form one chain of promises, resolved from its beginning, whatever mixture of
\* calls was cancelled in it.
THEOREM ReportInvariant == Spec => []IInv
<1>1. Init => IInv BY InitIInv
<1>2. IInv /\ [Next]_vars => IInv' BY NextIInv
<1>3. QED BY <1>1, <1>2, PTL DEF Spec

\* Types, the bounds on pages and rows and the size of the cache (the loop of
\* executeReport that makes room before cache.set).
THEOREM ReportTypes == Spec => []TypeOK
<1>1. IInv => TypeOK BY DEF IInv
<1>2. QED BY <1>1, ReportInvariant, PTL

\* Whoever works on the report is the first of the calls in line: the chain of
\* `previous` and `current` promises in executeReport is a first-come,
\* first-served lock, also across calls that were cancelled while they waited.
THEOREM TurnsAreInOrder == Spec => []TurnInOrder
<1>1. IInv => TurnInOrder
  <2> SUFFICES ASSUME IInv, NEW c \in Callers, pc[c] \in Working
               PROVE  line # <<>> /\ Head(line) = c
    BY DEF TurnInOrder
  <2>1. PICK rank \in [Callers -> Nat] : Chained(rank) BY DEF IInv
  <2>2. InLine(c) /\ Resolved(pred[c]) BY WorkersTurn
  <2>3. QED BY <2>1, <2>2, FirstInLine DEF IInv
<1>2. QED BY <1>1, ReportInvariant, PTL

\* A call never asks the API for what a fresh cache entry answers: the second
\* look at the cache, after the wait, is enough because nobody stores meanwhile.
THEOREM RunsAreShared == Spec => []SharedRun
<1>1. IInv => SharedRun BY DEF IInv, WorkInOrder, SharedRun, Working
<1>2. QED BY <1>1, ReportInvariant, PTL

\* What executeReport returns or caches, from the call's own run or another's, is
\* everything the API had for that request: read to the last page, no gap, no row
\* lost, as many rows as announced (lines 201-226).
THEOREM ReportsAreWhole == Spec => []OnlyWholeReports
<1>1. IInv => OnlyWholeReports
  BY DEF IInv, ReportsInOrder, SettledCache, SettledAnswers, Settled, OnlyWholeReports
<1>2. QED BY <1>1, ReportInvariant, PTL

\* A page starts when the cooldown is over, although the sleep before it was
\* computed once: only the call whose turn it is moves the stamp.
LEMMA PageStart ==
  ASSUME IInv, NEW c \in Callers, NEW n, NEW total, NEW s, NextPage(c, n, total, s),
         NEW d \in Callers, pc[d] # "posting", pc'[d] = "posting"
  PROVE  spacing = 0
<1>1. /\ pc \in [Callers -> {"idle", "waiting", "sleep", "posting", "sent", "done"}]
      /\ spacing \in Nat
  BY DEF IInv, TypeOK
<1>2. QED BY <1>1 DEF NextPage, Finish, Go, WaitBeforePage

\* Only TakeTurn, WakeUp and Page start one.
LEMMA SpacedStep ==
  ASSUME IInv, Next, NEW d \in Callers, pc[d] # "posting", pc'[d] = "posting"
  PROVE  spacing = 0
<1>1. /\ pc \in [Callers -> {"idle", "waiting", "sleep", "posting", "sent", "done"}]
      /\ spacing \in Nat
  BY DEF IInv, TypeOK
<1>2. ASSUME NEW c \in Callers, NEW k, ReturnCached(c, k) \/ Queue(c, k) PROVE FALSE
  BY <1>1, <1>2 DEF ReturnCached, Queue, Go
<1>3. ASSUME NEW c \in Callers, AbandonWait(c) \/ Forward(c) \/ CancelSleep(c)
      PROVE  FALSE
  BY <1>1, <1>3 DEF AbandonWait, Forward, CancelSleep, Finish, Go
<1>4. ASSUME NEW c \in Callers, TakeTurn(c) PROVE spacing = 0
  <2>1. CASE Finish(c, Cached(key[c]), NoAnswers) BY <1>1, <2>1 DEF Finish, Go
  <2>2. CASE NextPage(c, 0, Unannounced, NoAnswers) BY <2>2, PageStart
  <2>3. QED BY <1>4, <2>1, <2>2 DEF TakeTurn
<1>5. ASSUME NEW c \in Callers, WakeUp(c) PROVE spacing = 0
  <2>1. d = c BY <1>1, <1>5 DEF WakeUp, Go
  <2>2. spacing <= nap[c] /\ nap[c] = 0 BY <1>5 DEF IInv, WorkInOrder, WakeUp
  <2>3. QED BY <1>1, <2>2
<1>6. ASSUME NEW c \in Callers, Dispatch(c) \/ BadPage(c) \/ Abort(c) PROVE FALSE
  BY <1>1, <1>6 DEF Dispatch, BadPage, Abort, Finish, Go
<1>7. ASSUME NEW c \in Callers, NEW n, NEW more, NEW totalHere,
             Page(c, n, more, totalHere)
      PROVE  spacing = 0
  <2> DEFINE sum   == rows[c] + n
             total == IF page[c] = 1 THEN totalHere ELSE announced[c]
             s     == Answered(source[c], n, more, page[c] = 1, totalHere)
  <2>1. CASE \/ Finish(c, Failure("failed"), NoAnswers)
             \/ Finish(c, Result(c, sum, total), s)
    BY <1>1, <2>1 DEF Finish, Go
  <2>2. CASE NextPage(c, sum, total, s) BY <2>2, PageStart
  <2>3. QED BY <1>7, <2>1, <2>2 DEF Page
<1>8. CASE Tick BY <1>8 DEF Tick
<1>9. QED BY <1>2, <1>3, <1>4, <1>5, <1>6, <1>7, <1>8 DEF Next, Local, Reply

\* Two pages of the report start at least a cooldown apart, whatever calls they
\* belong to (the stamp lastStartedAt and the sleep before each page).
THEOREM StartsAreSpaced == Spec => StartsSpaced
<1>1. IInv /\ [Next]_vars =>
        [\A c \in Callers : pc[c] # "posting" /\ pc'[c] = "posting" => spacing = 0]_vars
  BY SpacedStep
<1>2. QED BY <1>1, ReportInvariant, PTL DEF Spec, StartsSpaced
=============================================================================
