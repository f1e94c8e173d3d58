-------------------------- MODULE RequestGateProofs --------------------------
(***************************************************************************)
(* The gate is safe for every set of requests, every limit and every queue *)
(* length.  The operators of RequestGate map a gate to a gate, so what     *)
(* they preserve is stated once for any well-formed gate and used for each *)
(* action, the composed retry included.                                    *)
(***************************************************************************)
EXTENDS GateOrder, FiniteSetTheorems, SequenceTheorems, TLAPS

\* What a gate satisfies between two turns of the event loop.
WellTyped(g) ==
  g \in [active : 0..Limit, waiting : Seq(Requests), holders : SUBSET Requests]
Counted(g) == IsFiniteSet(g.holders) /\ Cardinality(g.holders) = g.active
Queued(g) ==
  /\ Len(g.waiting) <= MaxQueued
  /\ \A i, j \in 1..Len(g.waiting) : g.waiting[i] = g.waiting[j] => i = j
  /\ \A i \in 1..Len(g.waiting) : g.waiting[i] \notin g.holders
Busy(g) == g.waiting # <<>> => g.active = Limit

WellFormed(g) == WellTyped(g) /\ Counted(g) /\ Queued(g) /\ Busy(g)

-----------------------------------------------------------------------------
(* Granting a request that holds no slot, when one is free, counts it once. *)
LEMMA GrantedCounts ==
  ASSUME NEW g, WellTyped(g), Counted(g), HasRoom(g),
         NEW r \in Requests, r \notin g.holders
  PROVE  /\ WellTyped(Granted(g, r))
         /\ Counted(Granted(g, r))
         /\ Granted(g, r).waiting = g.waiting
         /\ Granted(g, r).active = g.active + 1
         /\ Granted(g, r).holders = g.holders \cup {r}
<1> USE LimitAssumption DEF WellTyped, Counted
<1>1. /\ Granted(g, r).waiting = g.waiting
      /\ Granted(g, r).active = g.active + 1
      /\ Granted(g, r).holders = g.holders \cup {r}
  BY DEF Granted, GateState
<1>2. WellTyped(Granted(g, r))
  BY DEF Granted, GateState, HasRoom
<1>3. /\ IsFiniteSet(g.holders \cup {r})
      /\ Cardinality(g.holders \cup {r}) = Cardinality(g.holders) + 1
  BY FS_AddElement
<1> QED BY <1>1, <1>2, <1>3

(* acquire keeps the gate well formed for a request new to it.              *)
LEMMA AcquiredWellFormed ==
  ASSUME NEW g, WellFormed(g), NEW r \in Requests,
         ~IsHolding(g, r), ~IsWaiting(g, r)
  PROVE  WellFormed(Acquired(g, r))
<1> USE LimitAssumption, MaxQueuedAssumption
<1>1. CASE HasRoom(g)
  <2>1. Acquired(g, r) = Granted(g, r)
    BY <1>1 DEF Acquired
  <2>2. g.waiting = <<>>
    BY <1>1 DEF WellFormed, Busy, HasRoom, WellTyped
  <2>3. Queued(Granted(g, r)) /\ Busy(Granted(g, r))
    BY <1>1, <2>2, GrantedCounts DEF Queued, Busy, WellFormed, IsHolding
  <2> QED BY <1>1, <2>1, <2>3, GrantedCounts DEF WellFormed, IsHolding
<1>2. CASE QueueFull(g)
  BY <1>2 DEF Acquired, QueueFull
<1>3. CASE ~HasRoom(g) /\ ~QueueFull(g)
  <2> DEFINE h == GateState(g.active, Append(g.waiting, r), g.holders)
  <2>1. Acquired(g, r) = h
    BY <1>3 DEF Acquired
  <2>2. WellTyped(h) /\ h.active = g.active /\ h.holders = g.holders
        /\ h.waiting = Append(g.waiting, r) /\ g.waiting \in Seq(Requests)
    BY DEF WellFormed, WellTyped, GateState
  <2> HIDE DEF h
  <2>3. Counted(h)
    BY <2>2 DEF WellFormed, Counted
  <2>4. /\ Len(h.waiting) = Len(g.waiting) + 1
        /\ \A i \in 1..Len(g.waiting) : h.waiting[i] = g.waiting[i]
        /\ h.waiting[Len(g.waiting) + 1] = r
    BY <2>2
  <2>5. Len(h.waiting) <= MaxQueued
    BY <1>3, <2>2, <2>4 DEF QueueFull
  <2>6. \A i \in 1..Len(g.waiting) : g.waiting[i] # r
    BY DEF IsWaiting, Contains
  <2>7. Queued(h)
    BY <2>2, <2>4, <2>5, <2>6 DEF WellFormed, Queued, IsHolding
  <2>8. Busy(h)
    BY <1>3, <2>2 DEF Busy, HasRoom, WellTyped, WellFormed
  <2> QED BY <2>1, <2>2, <2>3, <2>7, <2>8 DEF WellFormed
<1> QED BY <1>1, <1>2, <1>3

(* release keeps the gate well formed, and the request that released is     *)
(* nowhere in it afterwards.                                                *)
LEMMA ReleasedWellFormed ==
  ASSUME NEW g, WellFormed(g), NEW r \in Requests, IsHolding(g, r)
  PROVE  /\ WellFormed(Released(g, r))
         /\ ~IsHolding(Released(g, r), r)
         /\ ~IsWaiting(Released(g, r), r)
<1> USE LimitAssumption, MaxQueuedAssumption
<1> DEFINE w == g.waiting
           h == Head(w)
           freed(q) == Freed(g, r, q)
<1>1. /\ IsFiniteSet(g.holders \ {r})
      /\ Cardinality(g.holders \ {r}) = Cardinality(g.holders) - 1
      /\ Cardinality(g.holders) # 0
  BY FS_RemoveElement, FS_EmptySet DEF WellFormed, Counted, IsHolding
<1>2. /\ g.active \in 1..Limit
      /\ g.active = Cardinality(g.holders)
      /\ w \in Seq(Requests)
      /\ g.holders \in SUBSET Requests
  BY <1>1 DEF WellFormed, WellTyped, Counted
<1>3. ASSUME NEW q \in Seq(Requests)
      PROVE  /\ WellTyped(freed(q)) /\ Counted(freed(q)) /\ HasRoom(freed(q))
             /\ freed(q).active = g.active - 1
             /\ freed(q).waiting = q
             /\ freed(q).holders = g.holders \ {r}
  BY <1>1, <1>2 DEF WellTyped, Counted, HasRoom, Freed, GateState
<1> HIDE DEF freed
<1>4. CASE w = <<>>
  <2>1. Released(g, r) = freed(<<>>)
    BY <1>4 DEF Released, freed
  <2>2. <<>> \in Seq(Requests)
    OBVIOUS
  <2>3. /\ WellTyped(freed(<<>>)) /\ Counted(freed(<<>>))
        /\ freed(<<>>).waiting = <<>>
        /\ freed(<<>>).holders = g.holders \ {r}
    BY <1>3, <2>2
  <2>4. WellFormed(freed(<<>>))
    BY <2>3 DEF WellFormed, Queued, Busy
  <2> QED BY <2>1, <2>3, <2>4 DEF IsHolding, IsWaiting, Contains
<1>5. CASE w # <<>>
  <2> DEFINE passed == freed(Tail(w))
  <2>1. Released(g, r) = Granted(passed, h)
    BY <1>5 DEF Released, freed
  <2>2. /\ h \in Requests /\ h = w[1] /\ Tail(w) \in Seq(Requests)
        /\ Len(Tail(w)) = Len(w) - 1 /\ Len(w) >= 1
        /\ \A i \in 1..Len(Tail(w)) : Tail(w)[i] = w[i + 1]
    BY <1>2, <1>5
  <2>3. /\ WellTyped(passed) /\ Counted(passed) /\ HasRoom(passed)
        /\ passed.active = g.active - 1 /\ passed.holders = g.holders \ {r}
        /\ passed.waiting = Tail(w)
    BY <1>3, <2>2
  <2>5. h \notin g.holders /\ h # r
    BY <2>2 DEF WellFormed, Queued, IsHolding
  <2>6. h \notin passed.holders
    BY <2>3, <2>5
  <2> HIDE DEF passed, h
  <2>7. /\ WellTyped(Granted(passed, h)) /\ Counted(Granted(passed, h))
        /\ Granted(passed, h).waiting = Tail(w)
        /\ Granted(passed, h).active = g.active
        /\ Granted(passed, h).holders = (g.holders \ {r}) \cup {h}
    BY <1>2, <2>2, <2>3, <2>6, GrantedCounts
  <2>8. \A i \in 1..Len(Tail(w)) : i + 1 \in 1..Len(w) /\ i + 1 # 1
    BY <2>2
  <2>9. \A i, j \in 1..Len(Tail(w)) : Tail(w)[i] = Tail(w)[j] => i = j
    BY <2>2, <2>8 DEF WellFormed, Queued
  <2>10. \A i \in 1..Len(Tail(w)) : Tail(w)[i] \notin g.holders /\ Tail(w)[i] # h
    BY <2>2, <2>8 DEF WellFormed, Queued
  <2>11. Queued(Granted(passed, h))
    BY <1>2, <2>2, <2>7, <2>9, <2>10 DEF WellFormed, Queued
  <2>12. Busy(Granted(passed, h))
    BY <1>5, <2>7 DEF WellFormed, Busy
  <2>13. ~IsHolding(Granted(passed, h), r)
    BY <2>5, <2>7 DEF IsHolding
  <2>14. ~IsWaiting(Granted(passed, h), r)
    BY <2>7, <2>10 DEF IsWaiting, Contains, IsHolding
  <2> QED BY <2>1, <2>7, <2>11, <2>12, <2>13, <2>14 DEF WellFormed
<1> QED BY <1>4, <1>5

(* Removing position j of a sequence closes the gap and moves nothing else. *)
LEMMA RemoveAtKeepsOrder ==
  ASSUME NEW S, NEW w \in Seq(S), NEW j \in 1..Len(w)
  PROVE  /\ RemoveAt(w, j) \in Seq(S)
         /\ Len(RemoveAt(w, j)) = Len(w) - 1
         /\ \A i \in 1..(Len(w) - 1) :
              RemoveAt(w, j)[i] = IF i < j THEN w[i] ELSE w[i + 1]
<1> DEFINE a == SubSeq(w, 1, j - 1)
           b == SubSeq(w, j + 1, Len(w))
<1>1. /\ a \in Seq(S) /\ Len(a) = j - 1
      /\ \A i \in 1..(j - 1) : a[i] = w[i]
  OBVIOUS
<1>2. /\ b \in Seq(S) /\ Len(b) = Len(w) - j
      /\ \A i \in 1..(Len(w) - j) : b[i] = w[j + i]
  OBVIOUS
<1>3. RemoveAt(w, j) = a \o b
  BY DEF RemoveAt
<1> HIDE DEF a, b
<1>4. /\ a \o b \in Seq(S)
      /\ Len(a \o b) = Len(w) - 1
      /\ \A i \in 1..(Len(w) - 1) :
           (a \o b)[i] = IF i <= Len(a) THEN a[i] ELSE b[i - Len(a)]
  BY <1>1, <1>2, ConcatProperties
<1>5. ASSUME NEW i \in 1..(Len(w) - 1)
      PROVE  (a \o b)[i] = IF i < j THEN w[i] ELSE w[i + 1]
  <2>1. CASE i < j
    BY <1>1, <1>4, <2>1
  <2>2. CASE i >= j
    <3>1. i - (j - 1) \in 1..(Len(w) - j) /\ j + (i - (j - 1)) = i + 1
      BY <2>2
    <3> QED BY <1>1, <1>2, <1>4, <2>2, <3>1
  <2>3. i \in Int /\ j \in Int
    OBVIOUS
  <2>4. i < j \/ i >= j
    BY <2>3
  <2> QED BY <2>1, <2>2, <2>4
<1> QED BY <1>3, <1>4, <1>5

(* Taking one waiter out keeps the others in order and the gate well formed. *)
LEMMA WithdrawnWellFormed ==
  ASSUME NEW g, WellFormed(g), NEW r \in Requests, IsWaiting(g, r)
  PROVE  /\ WellFormed(Withdrawn(g, r))
         /\ Withdrawn(g, r).holders = g.holders
<1> USE LimitAssumption, MaxQueuedAssumption
<1> DEFINE w == g.waiting
           K == {i \in 1..Len(w) : w[i] = r}
           k == Min(K)
           rest == RemoveAt(w, k)
<1>1. w \in Seq(Requests) /\ Len(w) \in Nat
  BY DEF WellFormed, WellTyped
<1>2. PICK j \in 1..Len(w) : w[j] = r
  BY DEF IsWaiting, Contains
<1>3. K = {j}
  BY <1>2 DEF WellFormed, Queued
<1>4. k = j
  BY <1>1, <1>2, <1>3 DEF Min
<1>5. Withdrawn(g, r) = GateState(g.active, rest, g.holders)
  BY <1>2, <1>3 DEF Withdrawn, RemoveFirst, SelectInSeq
<1> HIDE DEF K, k
<1>6. /\ rest \in Seq(Requests)
      /\ Len(rest) = Len(w) - 1
      /\ \A i \in 1..Len(rest) : rest[i] = IF i < j THEN w[i] ELSE w[i + 1]
  BY <1>1, <1>2, <1>4, RemoveAtKeepsOrder
<1> HIDE DEF rest
<1> DEFINE h == GateState(g.active, rest, g.holders)
<1>7. /\ Withdrawn(g, r) = h
      /\ h.active = g.active /\ h.waiting = rest /\ h.holders = g.holders
  BY <1>5 DEF GateState
<1>8. WellTyped(h) /\ Counted(h)
  BY <1>6 DEF WellFormed, WellTyped, Counted, GateState
<1> HIDE DEF h
<1>9. \A i \in 1..Len(rest) :
        LET o == IF i < j THEN i ELSE i + 1 IN o \in 1..Len(w) /\ rest[i] = w[o]
  BY <1>1, <1>2, <1>6
<1>10. Queued(h)
  <2> DEFINE o(i) == IF i < j THEN i ELSE i + 1
  <2>1. Len(rest) <= MaxQueued
    BY <1>1, <1>6 DEF WellFormed, Queued
  <2>2. \A i, m \in 1..Len(rest) : o(i) = o(m) => i = m
    OBVIOUS
  <2>3. \A i, m \in 1..Len(rest) : rest[i] = rest[m] => i = m
    BY <1>9, <2>2 DEF WellFormed, Queued
  <2>4. \A i \in 1..Len(rest) : rest[i] \notin g.holders
    BY <1>9 DEF WellFormed, Queued
  <2> QED BY <1>7, <2>1, <2>3, <2>4 DEF Queued
<1>11. Busy(h)
  BY <1>1, <1>2, <1>7 DEF WellFormed, Busy
<1> QED BY <1>7, <1>8, <1>10, <1>11 DEF WellFormed

-----------------------------------------------------------------------------
(* What a step of one request means for the others.                         *)

\* Acquire leaves every other request where it was.
LEMMA AcquiredOthers ==
  ASSUME NEW g, WellFormed(g), NEW r \in Requests, NEW d, d # r
  PROVE  /\ IsHolding(Acquired(g, r), d) <=> IsHolding(g, d)
         /\ IsWaiting(Acquired(g, r), d) <=> IsWaiting(g, d)
<1>1. g.waiting \in Seq(Requests) /\ Len(g.waiting) \in Nat
  BY DEF WellFormed, WellTyped
<1>2. CASE HasRoom(g)
  BY <1>2 DEF Acquired, Granted, GateState, IsHolding, IsWaiting
<1>3. CASE ~HasRoom(g) /\ QueueFull(g)
  BY <1>3 DEF Acquired
<1>4. CASE ~HasRoom(g) /\ ~QueueFull(g)
  <2> DEFINE w == Append(g.waiting, r)
  <2>1. /\ Len(w) = Len(g.waiting) + 1 /\ w[Len(w)] = r
        /\ \A i \in 1..Len(g.waiting) : w[i] = g.waiting[i]
    BY <1>1
  <2>2. Contains(w, d) <=> Contains(g.waiting, d)
    <3> HIDE DEF w
    <3>1. \A i \in 1..Len(w) : i \in 1..Len(g.waiting) \/ i = Len(w) BY <1>1, <2>1
    <3>2. \A i \in 1..Len(g.waiting) : i \in 1..Len(w) BY <1>1, <2>1
    <3> QED BY <2>1, <3>1, <3>2 DEF Contains
  <2> QED BY <1>4, <2>2 DEF Acquired, GateState, IsHolding, IsWaiting
<1> QED BY <1>2, <1>3, <1>4

\* The caller of acquire holds a slot, waits, or finds the gate as it was.
LEMMA AcquiredSelf ==
  ASSUME NEW g, WellFormed(g), NEW r \in Requests
  PROVE  \/ IsHolding(Acquired(g, r), r)
         \/ IsWaiting(Acquired(g, r), r)
         \/ QueueFull(g) /\ Acquired(g, r) = g
<1>1. g.waiting \in Seq(Requests) /\ Len(g.waiting) \in Nat
  BY DEF WellFormed, WellTyped
<1>2. CASE HasRoom(g)
  BY <1>2 DEF Acquired, Granted, GateState, IsHolding
<1>3. CASE ~HasRoom(g) /\ ~QueueFull(g)
  <2> DEFINE w == Append(g.waiting, r)
  <2>1. Len(w) \in 1..Len(w) /\ w[Len(w)] = r BY <1>1
  <2>2. Contains(w, r)
    <3> HIDE DEF w
    <3> QED BY <2>1 DEF Contains
  <2> QED BY <1>3, <2>2 DEF Acquired, GateState, IsWaiting
<1> QED BY <1>2, <1>3 DEF Acquired

\* Release takes no slot from another request, and grants one to a waiter only.
LEMMA ReleasedOthers ==
  ASSUME NEW g, WellFormed(g), NEW r \in Requests, NEW d, d # r
  PROVE  /\ IsHolding(g, d) => IsHolding(Released(g, r), d)
         /\ ~IsHolding(g, d) /\ ~IsWaiting(g, d) =>
              ~IsHolding(Released(g, r), d) /\ ~IsWaiting(Released(g, r), d)
<1>1. g.waiting \in Seq(Requests) /\ Len(g.waiting) \in Nat
  BY DEF WellFormed, WellTyped
<1>2. CASE g.waiting = <<>>
  BY <1>2 DEF Released, Freed, GateState, IsHolding, IsWaiting, Contains
<1>3. CASE g.waiting # <<>>
  <2> DEFINE w == g.waiting
             t == Tail(w)
  <2>1. /\ 1 \in 1..Len(w) /\ Head(w) = w[1] /\ Len(t) = Len(w) - 1
        /\ \A i \in 1..Len(t) : t[i] = w[i + 1] /\ i + 1 \in 1..Len(w)
    BY <1>1, <1>3
  <2>2. Contains(w, Head(w)) /\ (Contains(t, d) => Contains(w, d))
    <3> HIDE DEF w, t
    <3> QED BY <2>1 DEF Contains
  <2>3. Released(g, r) =
          GateState(g.active - 1 + 1, t, (g.holders \ {r}) \cup {Head(w)})
    BY <1>3 DEF Released, Granted, Freed, GateState
  <2> QED BY <2>2, <2>3 DEF GateState, IsHolding, IsWaiting
<1> QED BY <1>2, <1>3

\* A withdrawal puts nobody in the queue.
LEMMA WithdrawnOthers ==
  ASSUME NEW g, WellFormed(g), NEW r \in Requests, IsWaiting(g, r), NEW d,
         IsWaiting(Withdrawn(g, r), d)
  PROVE  IsWaiting(g, d)
<1> DEFINE w == g.waiting
           K == {i \in 1..Len(w) : w[i] = r}
<1>1. w \in Seq(Requests) /\ Len(w) \in Nat BY DEF WellFormed, WellTyped
<1>2. PICK j \in 1..Len(w) : w[j] = r BY DEF IsWaiting, Contains
<1>3. K = {j} BY <1>2 DEF WellFormed, Queued
<1>4. Min(K) = j BY <1>1, <1>2, <1>3 DEF Min
<1>5. Withdrawn(g, r).waiting = RemoveAt(w, j)
  BY <1>2, <1>3, <1>4 DEF Withdrawn, RemoveFirst, SelectInSeq, GateState
<1>6. \A i \in 1..Len(RemoveAt(w, j)) : \E o \in 1..Len(w) : RemoveAt(w, j)[i] = w[o]
  <2>1. /\ Len(RemoveAt(w, j)) = Len(w) - 1
        /\ \A i \in 1..(Len(w) - 1) :
             RemoveAt(w, j)[i] = IF i < j THEN w[i] ELSE w[i + 1]
    BY <1>1, RemoveAtKeepsOrder
  <2> HIDE DEF w
  <2>2. \A i \in 1..(Len(w) - 1) : i \in 1..Len(w) /\ i + 1 \in 1..Len(w) BY <1>1
  <2> QED BY <2>1, <2>2
<1> QED BY <1>5, <1>6 DEF IsWaiting, Contains

-----------------------------------------------------------------------------
LEMMA InitWellFormed == Init => WellFormed(gate)
<1> USE LimitAssumption, MaxQueuedAssumption
<1>1. WellTyped(EmptyGate)
  BY DEF WellTyped, EmptyGate, GateState
<1>2. Counted(EmptyGate) /\ Queued(EmptyGate) /\ Busy(EmptyGate)
  BY FS_EmptySet DEF Counted, Queued, Busy, EmptyGate, GateState
<1> QED BY <1>1, <1>2 DEF Init, WellFormed

(* Each operation of the gate, and the retry composed of two, preserves it. *)
LEMMA NextWellFormed ==
  ASSUME WellFormed(gate), [Next]_gate
  PROVE  WellFormed(gate')
<1>1. CASE UNCHANGED gate
  BY <1>1
<1>2. ASSUME NEW r \in Requests, Acquire(r) PROVE WellFormed(gate')
  BY <1>2, AcquiredWellFormed DEF Acquire
<1>3. ASSUME NEW r \in Requests, Release(r) PROVE WellFormed(gate')
  BY <1>3, ReleasedWellFormed DEF Release
<1>4. ASSUME NEW r \in Requests, Rejoin(r) PROVE WellFormed(gate')
  <2>1. /\ WellFormed(Released(gate, r))
        /\ ~IsHolding(Released(gate, r), r)
        /\ ~IsWaiting(Released(gate, r), r)
    BY <1>4, ReleasedWellFormed DEF Rejoin
  <2> QED BY <1>4, <2>1, AcquiredWellFormed DEF Rejoin
<1>5. ASSUME NEW r \in Requests, Cancel(r) PROVE WellFormed(gate')
  BY <1>5, WithdrawnWellFormed DEF Cancel
<1> QED BY <1>1, <1>2, <1>3, <1>4, <1>5 DEF Next

THEOREM GateWellFormed == Spec => []WellFormed(gate)
<1>1. Init => WellFormed(gate)
  BY InitWellFormed
<1>2. WellFormed(gate) /\ [Next]_gate => WellFormed(gate)'
  BY NextWellFormed
<1> QED BY <1>1, <1>2, PTL DEF Spec

(* The gate has its type for all values of the limits. *)
THEOREM GateTypeOK == Spec => []TypeOK
<1>1. WellFormed(gate) => TypeOK
  BY DEF WellFormed, WellTyped, TypeOK
<1> QED BY <1>1, GateWellFormed, PTL

(* No slot leaks or is freed twice: the counter that acquire tests is the   *)
(* number of requests past the gate, and it never exceeds the limit.        *)
THEOREM GateSlotsAccounted == Spec => []SlotsAccounted
<1>1. WellFormed(gate) => SlotsAccounted
  BY LimitAssumption DEF WellFormed, WellTyped, Counted, SlotsAccounted
<1> QED BY <1>1, GateWellFormed, PTL

(* The queue is bounded, without duplicates, disjoint from the slots.       *)
THEOREM GateQueueConsistent == Spec => []QueueConsistent
<1>1. WellFormed(gate) => QueueConsistent
  BY DEF WellFormed, Queued, QueueConsistent
<1> QED BY <1>1, GateWellFormed, PTL

(* Nobody waits while a slot is free. *)
THEOREM GateWorkConserving == Spec => []WorkConserving
<1>1. WellFormed(gate) => WorkConserving
  BY DEF WellFormed, Busy, WorkConserving
<1> QED BY <1>1, GateWellFormed, PTL

-----------------------------------------------------------------------------
(* The order of arrival.  An entry of ahead names requests that really wait, *)
(* is empty for a request past the gate, and for a waiter names only some of *)
(* those in front of it in the queue: when the head is granted nobody was    *)
(* ahead of it.                                                              *)
InLine(g, a) ==
  /\ a \in [Requests -> SUBSET Requests]
  /\ \A q \in Requests : a[q] \subseteq Waiters(g)
  /\ \A q \in g.holders : a[q] = {}
  /\ \A i \in 1..Len(g.waiting) :
       a[g.waiting[i]] \subseteq {g.waiting[j] : j \in 1..(i - 1)}

\* The waiters are the requests at the positions of the queue.
LEMMA WaitersAreQueued ==
  ASSUME NEW g, WellFormed(g)
  PROVE  /\ \A q \in Waiters(g) : \E i \in 1..Len(g.waiting) : g.waiting[i] = q
         /\ \A i \in 1..Len(g.waiting) : g.waiting[i] \in Waiters(g)
         /\ g.waiting = <<>> => Waiters(g) = {}
         /\ Len(g.waiting) \in Nat
         /\ g.holders \subseteq Requests
<1>1. /\ g.waiting \in Seq(Requests) /\ Len(g.waiting) \in Nat
      /\ g.holders \subseteq Requests
  BY DEF WellFormed, WellTyped
<1>2. \A i \in 1..Len(g.waiting) : g.waiting[i] \in Requests
  BY <1>1
<1> QED BY <1>1, <1>2 DEF Waiters, IsWaiting, Contains

\* A caller of acquire either finds nobody waiting or goes to the end.
LEMMA AcquiredInLine ==
  ASSUME NEW g, WellFormed(g), NEW a, InLine(g, a),
         NEW r \in Requests, ~IsHolding(g, r), ~IsWaiting(g, r), NEW h, h = Acquired(g, r), NEW b,
         b = [q \in Requests |-> (IF q = r THEN Waiters(g) ELSE a[q]) \cap Waiters(h)]
  PROVE  InLine(h, b)
<1>1. WellFormed(h)
  BY AcquiredWellFormed
<1>2. /\ \A q \in Waiters(g) : \E i \in 1..Len(g.waiting) : g.waiting[i] = q
      /\ \A i \in 1..Len(g.waiting) : g.waiting[i] \in Waiters(g)
      /\ Len(g.waiting) \in Nat /\ g.waiting \in Seq(Requests)
      /\ g.holders \subseteq Requests
      /\ r \notin Waiters(g)
  BY WaitersAreQueued DEF WellFormed, WellTyped, Waiters
<1>3. /\ b \in [Requests -> SUBSET Requests]
      /\ \A q \in Requests : b[q] \subseteq Waiters(h)
      /\ \A q \in Requests \ {r} : b[q] \subseteq a[q]
      /\ b[r] \subseteq Waiters(g)
  BY DEF Waiters
<1>4. CASE HasRoom(g)
  <2>1. /\ h.waiting = g.waiting /\ h.holders = g.holders \cup {r}
    BY <1>4 DEF Acquired, Granted, GateState
  <2>2. g.waiting = <<>> /\ Waiters(g) = {}
    BY <1>4, WaitersAreQueued DEF WellFormed, Busy, HasRoom, WellTyped
  <2>3. Len(h.waiting) = 0
    BY <2>1, <2>2
  <2>4. \A q \in h.holders : b[q] = {}
    BY <1>2, <1>3, <2>1, <2>2 DEF InLine
  <2> QED BY <1>3, <2>3, <2>4 DEF InLine
<1>5. CASE ~HasRoom(g) /\ QueueFull(g)
  <2>1. h = g
    BY <1>5 DEF Acquired
  <2>2. \A q \in h.holders : q # r /\ b[q] = {}
    BY <1>2, <1>3, <2>1 DEF InLine, IsHolding
  <2>3. \A i \in 1..Len(h.waiting) :
          g.waiting[i] # r /\ b[g.waiting[i]] \subseteq a[g.waiting[i]]
    BY <1>2, <1>3, <2>1 DEF Waiters
  <2> QED BY <1>3, <2>1, <2>2, <2>3 DEF InLine
<1>6. CASE ~HasRoom(g) /\ ~QueueFull(g)
  <2> DEFINE n == Len(g.waiting)
  <2>1. /\ h.waiting = Append(g.waiting, r) /\ h.holders = g.holders
    BY <1>6 DEF Acquired, GateState
  <2>2. /\ Len(h.waiting) = n + 1 /\ h.waiting[n + 1] = r
        /\ \A i \in 1..n : h.waiting[i] = g.waiting[i]
    BY <1>2, <2>1
  <2>3. \A q \in h.holders : q # r /\ b[q] = {}
    BY <1>2, <1>3, <2>1 DEF InLine, IsHolding
  <2>4. ASSUME NEW i \in 1..Len(h.waiting)
        PROVE  b[h.waiting[i]] \subseteq {h.waiting[j] : j \in 1..(i - 1)}
    <3>1. CASE i = n + 1
      <4>1. \A q \in Waiters(g) : \E j \in 1..n : h.waiting[j] = q
        BY <1>2, <2>2
      <4>2. i - 1 = n
        BY <1>2, <3>1
      <4> QED BY <1>3, <2>2, <3>1, <4>1, <4>2
    <3>2. CASE i \in 1..n
      <4>1. /\ h.waiting[i] = g.waiting[i] /\ g.waiting[i] # r
            /\ b[g.waiting[i]] \subseteq a[g.waiting[i]]
        BY <1>2, <1>3, <2>2, <3>2 DEF Waiters
      <4>2. a[g.waiting[i]] \subseteq {g.waiting[j] : j \in 1..(i - 1)}
        BY <3>2 DEF InLine
      <4>3. \A j \in 1..(i - 1) : j \in 1..n /\ h.waiting[j] = g.waiting[j]
        BY <1>2, <2>2, <3>2
      <4> QED BY <4>1, <4>2, <4>3
    <3>3. n \in Nat /\ Len(h.waiting) = n + 1
      BY <1>2, <2>2
    <3> HIDE DEF n
    <3>4. i = n + 1 \/ i \in 1..n
      BY <3>3
    <3> QED BY <3>1, <3>2, <3>4
  <2> QED BY <1>3, <2>3, <2>4 DEF InLine
<1> QED BY <1>4, <1>5, <1>6

\* release grants the head, whom nobody is ahead of, and moves the rest up.
LEMMA ReleasedInLine ==
  ASSUME NEW g, WellFormed(g), NEW a, InLine(g, a),
         NEW r \in Requests, IsHolding(g, r), NEW h, h = Released(g, r), NEW b,
         b = [q \in Requests |-> a[q] \cap Waiters(h)]
  PROVE  InLine(h, b)
<1> DEFINE w == g.waiting
           t == h.waiting
<1>1. /\ \A i \in 1..Len(w) : w[i] \in Waiters(g)
      /\ Len(w) \in Nat /\ w \in Seq(Requests)
      /\ g.holders \subseteq Requests
  BY WaitersAreQueued DEF WellFormed, WellTyped
<1>2. /\ b \in [Requests -> SUBSET Requests]
      /\ \A q \in Requests : b[q] \subseteq Waiters(h) /\ b[q] \subseteq a[q]
  BY DEF Waiters
<1>3. CASE w = <<>>
  <2>1. t = <<>> /\ h.holders = g.holders \ {r}
    BY <1>3 DEF Released, Freed, GateState
  <2>2. Len(t) = 0
    BY <2>1
  <2> QED BY <1>1, <1>2, <2>1, <2>2 DEF InLine
<1>4. CASE w # <<>>
  <2>1. t = Tail(w) /\ h.holders = (g.holders \ {r}) \cup {Head(w)}
    BY <1>4 DEF Released, Granted, Freed, GateState
  <2>2. /\ Head(w) = w[1] /\ 1 \in 1..Len(w) /\ Len(t) = Len(w) - 1
        /\ \A i \in 1..Len(t) : t[i] = w[i + 1] /\ i + 1 \in 1..Len(w)
    BY <1>1, <1>4, <2>1
  <2>3. WellFormed(h)
    BY ReleasedWellFormed
  <2>4. \A q \in Waiters(h) : \E i \in 1..Len(t) : t[i] = q
    BY <2>3, WaitersAreQueued
  <2>5. a[w[1]] = {}
    <3>1. a[w[1]] \subseteq {w[j] : j \in 1..(1 - 1)}
      BY <2>2 DEF InLine
    <3> QED BY <3>1
  <2>6. \A q \in h.holders : b[q] = {}
    BY <1>1, <1>2, <2>1, <2>2, <2>5 DEF InLine
  <2>7. ASSUME NEW i \in 1..Len(t)
        PROVE  b[t[i]] \subseteq {t[j] : j \in 1..(i - 1)}
    <3>1. /\ t[i] = w[i + 1] /\ i + 1 \in 1..Len(w) /\ w[i + 1] \in Requests
      BY <1>1, <2>2
    <3>2. a[w[i + 1]] \subseteq {w[j] : j \in 1..i}
      BY <3>1 DEF InLine
    <3>3. SUFFICES ASSUME NEW q \in b[t[i]]
                   PROVE  \E j \in 1..(i - 1) : t[j] = q
      OBVIOUS
    <3>4. PICK k \in 1..Len(t) : t[k] = q
      BY <1>2, <2>4, <3>1
    <3>5. PICK m \in 1..i : w[m] = q
      BY <1>2, <3>1, <3>2
    <3>6. w[k + 1] = w[m] /\ k + 1 \in 1..Len(w) /\ m \in 1..Len(w)
      BY <2>2, <3>1, <3>4, <3>5
    <3>7. k + 1 = m
      BY <3>6 DEF WellFormed, Queued
    <3> QED BY <3>4, <3>5, <3>7
  <2> QED BY <1>2, <2>6, <2>7 DEF InLine
<1> QED BY <1>3, <1>4

\* A withdrawal closes the gap and leaves the others in the same order.
LEMMA WithdrawnInLine ==
  ASSUME NEW g, WellFormed(g), NEW a, InLine(g, a),
         NEW r \in Requests, IsWaiting(g, r), NEW h, h = Withdrawn(g, r), NEW b,
         b = [q \in Requests |-> a[q] \cap Waiters(h)]
  PROVE  InLine(h, b)
<1> DEFINE w == g.waiting
           t == h.waiting
           K == {i \in 1..Len(w) : w[i] = r}
<1>1. /\ \A i \in 1..Len(w) : w[i] \in Waiters(g)
      /\ Len(w) \in Nat /\ w \in Seq(Requests)
      /\ g.holders \subseteq Requests
  BY WaitersAreQueued DEF WellFormed, WellTyped
<1>2. /\ b \in [Requests -> SUBSET Requests]
      /\ \A q \in Requests : b[q] \subseteq Waiters(h) /\ b[q] \subseteq a[q]
  BY DEF Waiters
<1>3. WellFormed(h) /\ h.holders = g.holders
  BY WithdrawnWellFormed
<1>4. \A q \in Waiters(h) : \E i \in 1..Len(t) : t[i] = q
  BY <1>3, WaitersAreQueued
<1>5. PICK n \in 1..Len(w) : w[n] = r
  BY DEF IsWaiting, Contains
<1>6. K = {n}
  BY <1>5 DEF WellFormed, Queued
<1>7. Min(K) = n
  BY <1>1, <1>5, <1>6 DEF Min
<1>8. t = RemoveAt(w, n)
  BY <1>5, <1>6, <1>7 DEF Withdrawn, RemoveFirst, SelectInSeq, GateState
<1> HIDE DEF K
<1>9. /\ Len(t) = Len(w) - 1
      /\ \A i \in 1..Len(t) : t[i] = IF i < n THEN w[i] ELSE w[i + 1]
  <2> DEFINE u == RemoveAt(w, n)
  <2>1. /\ Len(u) = Len(w) - 1
        /\ \A i \in 1..(Len(w) - 1) : u[i] = IF i < n THEN w[i] ELSE w[i + 1]
    BY <1>1, <1>5, RemoveAtKeepsOrder
  <2>2. t = u
    BY <1>8
  <2> HIDE DEF u, t, w
  <2> QED BY <2>1, <2>2
<1> DEFINE o(i) == IF i < n THEN i ELSE i + 1
<1>10. \A i \in 1..Len(t) : t[i] = w[o(i)] /\ o(i) \in 1..Len(w)
  BY <1>1, <1>5, <1>9
<1>11. \A i, k \in 1..Len(t) : o(k) < o(i) => k < i
  BY <1>1, <1>5, <1>9
<1>12. ASSUME NEW i \in 1..Len(t)
       PROVE  b[t[i]] \subseteq {t[j] : j \in 1..(i - 1)}
  <2>1. t[i] = w[o(i)] /\ o(i) \in 1..Len(w) /\ w[o(i)] \in Requests
    BY <1>1, <1>10
  <2>2. a[w[o(i)]] \subseteq {w[j] : j \in 1..(o(i) - 1)}
    BY <2>1 DEF InLine
  <2>3. SUFFICES ASSUME NEW q \in b[t[i]]
                 PROVE  \E j \in 1..(i - 1) : t[j] = q
    OBVIOUS
  <2>4. PICK k \in 1..Len(t) : t[k] = q
    BY <1>2, <1>4, <2>1
  <2>5. PICK m \in 1..(o(i) - 1) : w[m] = q
    BY <1>2, <2>1, <2>2
  <2>6. w[o(k)] = w[m] /\ o(k) \in 1..Len(w) /\ m \in 1..Len(w)
    BY <1>10, <2>1, <2>4, <2>5
  <2>7. o(k) = m
    BY <2>6 DEF WellFormed, Queued
  <2>8. o(k) < o(i)
    BY <2>1, <2>5, <2>7
  <2>9. k < i
    BY <1>11, <2>8
  <2> QED BY <2>4, <2>9
<1>13. \A q \in h.holders : b[q] = {}
  BY <1>1, <1>2, <1>3 DEF InLine
<1> QED BY <1>2, <1>12, <1>13 DEF InLine

\* A retry is a release followed by an arrival in the same turn.
LEMMA RejoinInLine ==
  ASSUME WellFormed(gate), InLine(gate, ahead), NEW r \in Requests,
         Rejoin(r), Comes(r)
  PROVE  InLine(gate', ahead')
<1> DEFINE g1 == Released(gate, r)
           a1 == [q \in Requests |-> ahead[q] \cap Waiters(g1)]
           b  == [q \in Requests |-> (IF q = r THEN Waiters(g1) ELSE a1[q])
                                        \cap Waiters(gate')]
<1>1. WellFormed(g1) /\ ~IsHolding(g1, r) /\ ~IsWaiting(g1, r)
  BY ReleasedWellFormed DEF Rejoin
<1>2. InLine(g1, a1)
  BY ReleasedInLine DEF Rejoin
<1>3. gate' = Acquired(g1, r)
  BY DEF Rejoin
<1>4. r \notin Waiters(gate)
  BY WaitersAreQueued DEF Rejoin, IsHolding, WellFormed, Queued
<1>5. \A d \in Requests \ {r} : IsWaiting(gate', d) <=> IsWaiting(g1, d)
  BY <1>1, <1>3, AcquiredOthers
<1>6. \A d \in Requests \ {r} : ~IsHolding(gate, d) /\ IsWaiting(g1, d) => IsWaiting(gate, d)
  BY ReleasedOthers DEF Rejoin
<1>7. \A d \in Requests \ {r} : IsWaiting(g1, d) => IsWaiting(gate, d)
  <2>1. SUFFICES ASSUME NEW d \in Requests \ {r}, IsWaiting(g1, d), IsHolding(gate, d)
                 PROVE  FALSE
    BY <1>6
  <2>2. IsHolding(g1, d)
    BY <2>1, ReleasedOthers DEF Rejoin
  <2> HIDE DEF g1
  <2> QED BY <1>1, <2>1, <2>2 DEF WellFormed, Queued, IsHolding, IsWaiting, Contains
<1>8. InLine(gate', b)
  <2> HIDE DEF g1, a1
  <2> QED BY <1>1, <1>2, <1>3, AcquiredInLine
<1>9. /\ ahead \in [Requests -> SUBSET Requests]
      /\ \A q \in Requests : ahead[q] \subseteq Waiters(gate)
  BY DEF InLine
<1>10. Waiters(gate) \cap Waiters(gate') = Waiters(g1) \cap Waiters(gate')
  <2> HIDE DEF g1
  <2> QED BY <1>1, <1>4, <1>5, <1>7 DEF Waiters
<1>11. \A q \in Requests :
         ahead[q] \cap Waiters(gate') = a1[q] \cap Waiters(gate')
  <2> HIDE DEF g1
  <2> QED BY <1>9, <1>10
<1>12. ahead' = b
  <2>1. \A q \in Requests :
          (IF q = r THEN Waiters(gate) ELSE ahead[q]) \cap Waiters(gate') = b[q]
    <3> HIDE DEF g1, a1
    <3> QED BY <1>10, <1>11
  <2> HIDE DEF g1, a1
  <2> QED BY <2>1 DEF Comes
<1> QED BY <1>8, <1>12

LEMMA OrderedStep ==
  ASSUME WellFormed(gate), InLine(gate, ahead), [OrderedNext]_<<gate, ahead>>
  PROVE  WellFormed(gate') /\ InLine(gate', ahead')
<1>1. CASE UNCHANGED <<gate, ahead>>
  BY <1>1
<1>2. ASSUME NEW r \in Requests, Acquire(r), Comes(r)
      PROVE  WellFormed(gate') /\ InLine(gate', ahead')
  BY <1>2, AcquiredWellFormed, AcquiredInLine DEF Acquire, Comes
<1>3. ASSUME NEW r \in Requests, Rejoin(r), Comes(r)
      PROVE  WellFormed(gate') /\ InLine(gate', ahead')
  BY <1>3, RejoinInLine, NextWellFormed DEF Next
<1>4. ASSUME NEW r \in Requests, Release(r), NobodyComes
      PROVE  WellFormed(gate') /\ InLine(gate', ahead')
  BY <1>4, ReleasedWellFormed, ReleasedInLine DEF Release, NobodyComes
<1>5. ASSUME NEW r \in Requests, Cancel(r), NobodyComes
      PROVE  WellFormed(gate') /\ InLine(gate', ahead')
  BY <1>5, WithdrawnWellFormed, WithdrawnInLine DEF Cancel, NobodyComes
<1> QED BY <1>1, <1>2, <1>3, <1>4, <1>5 DEF OrderedNext

(* Slots go out in the order of arrival, the first and every later one of a *)
(* request that retries: nobody past the gate has left a waiter behind that *)
(* was in the queue when it came or came back (client.ts 76-107, 240-255).  *)
THEOREM GateNoOvertaking == OrderedSpec => []NoOvertaking
<1>1. OrderedInit => WellFormed(gate) /\ InLine(gate, ahead)
  <2>1. ASSUME OrderedInit PROVE InLine(gate, ahead)
    <3>1. gate.holders = {} /\ Len(gate.waiting) = 0
      BY <2>1 DEF OrderedInit, Init, EmptyGate, GateState
    <3> QED BY <2>1, <3>1 DEF OrderedInit, InLine
  <2> QED BY <2>1, InitWellFormed DEF OrderedInit
<1>2. (WellFormed(gate) /\ InLine(gate, ahead)) /\ [OrderedNext]_<<gate, ahead>>
        => (WellFormed(gate) /\ InLine(gate, ahead))'
  BY OrderedStep
<1>3. InLine(gate, ahead) => NoOvertaking
  BY DEF InLine, NoOvertaking
<1> QED BY <1>1, <1>2, <1>3, PTL DEF OrderedSpec
=============================================================================
