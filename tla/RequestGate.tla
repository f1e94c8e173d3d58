----------------------------- MODULE RequestGate -----------------------------
(***************************************************************************)
(* The counting gate in front of the ServiceTitan API (class RequestGate   *)
(* of src/client.ts).  At most Limit requests are past the gate; at most   *)
(* MaxQueued more wait in arrival order; a request beyond both is turned   *)
(* away with QUEUE_FULL.                                                    *)
(*                                                                         *)
(* Node runs each method to its next await without interruption, so every  *)
(* operation is one step.  The state is one record, and each method is an  *)
(* operator from the state before to the state after: the client runs two  *)
(* of them in one turn when a retry gives its slot back and queues again.  *)
(***************************************************************************)
EXTENDS Integers, FiniteSets, SequencesExt

CONSTANTS Requests,   \* callers of client.request
          Limit,      \* maxConcurrentRequests
          MaxQueued   \* maxQueuedRequests

ASSUME LimitAssumption == Limit \in Nat \ {0}
ASSUME MaxQueuedAssumption == MaxQueued \in Nat \ {0}

VARIABLE gate         \* [active, waiting, holders]

-----------------------------------------------------------------------------
(* holders is the set of requests whose release closure has been handed    *)
(* out and not yet called; the code keeps only its count, in active.       *)
GateState(a, w, h) == [active |-> a, waiting |-> w, holders |-> h]

EmptyGate == GateState(0, <<>>, {})

IsHolding(g, r) == r \in g.holders
IsWaiting(g, r) == Contains(g.waiting, r)

HasRoom(g) == g.active < Limit
QueueFull(g) == ~HasRoom(g) /\ Len(g.waiting) >= MaxQueued

Granted(g, r) == GateState(g.active + 1, g.waiting, g.holders \cup {r})

\* acquire: a free slot is taken at once, a queue with room is joined, and
\* otherwise the caller gets the error and the gate is as it was.
Acquired(g, r) ==
  IF HasRoom(g) THEN Granted(g, r)
  ELSE IF QueueFull(g) THEN g
  ELSE GateState(g.active, Append(g.waiting, r), g.holders)

\* The slot is given back before the first waiter is granted, so a waiter
\* reuses it and the count never exceeds the limit in between.
Freed(g, r, queue) == GateState(g.active - 1, queue, g.holders \ {r})

\* Forms of release a later edit could leave behind: the count not lowered,
\* the first waiter granted but left in the queue, and nobody granted.
ReleasedKeepingCount(g, r) ==
  IF g.waiting = <<>> THEN GateState(g.active, <<>>, g.holders \ {r})
  ELSE Granted(GateState(g.active, Tail(g.waiting), g.holders \ {r}), Head(g.waiting))
ReleasedPeeking(g, r) ==
  IF g.waiting = <<>> THEN Freed(g, r, <<>>)
  ELSE Granted(Freed(g, r, g.waiting), Head(g.waiting))
ReleasedWithoutGrant(g, r) == Freed(g, r, g.waiting)

Released(g, r) ==
  IF g.waiting = <<>> THEN Freed(g, r, <<>>)
  ELSE Granted(Freed(g, r, Tail(g.waiting)), Head(g.waiting))

\* The abort listener of a waiter: found by identity, spliced out.
Withdrawn(g, r) == GateState(g.active, RemoveFirst(g.waiting, r), g.holders)

-----------------------------------------------------------------------------
Init == gate = EmptyGate

Acquire(r) ==
  /\ ~IsHolding(gate, r)
  /\ ~IsWaiting(gate, r)
  /\ gate' = Acquired(gate, r)

Release(r) ==
  /\ IsHolding(gate, r)
  /\ gate' = Released(gate, r)

\* A retry that would stay past the gate instead of queueing again.
RejoinKeepingSlot(r) == IsHolding(gate, r) /\ UNCHANGED gate

\* A retry: the finally block releases and the loop acquires in one turn.
Rejoin(r) ==
  /\ IsHolding(gate, r)
  /\ gate' = Acquired(Released(gate, r), r)

\* The listener is removed when the slot is granted, so an abort that comes
\* later finds no waiter and the gate does not change.
Cancel(r) ==
  /\ IsWaiting(gate, r)
  /\ gate' = Withdrawn(gate, r)

Next == \E r \in Requests : Acquire(r) \/ Release(r) \/ Rejoin(r) \/ Cancel(r)

Spec == Init /\ [][Next]_gate

-----------------------------------------------------------------------------
(* The gate's counter never passes the limit and its queue holds requests. *)
TypeOK ==
  gate \in [active : 0..Limit, waiting : Seq(Requests), holders : SUBSET Requests]

(* The counter is the number of outstanding release closures, so no path   *)
(* through acquire, release and cancel leaks a slot or frees one twice,    *)
(* and the limit bounds the requests really past the gate.                 *)
SlotsAccounted ==
  /\ Cardinality(gate.holders) = gate.active
  /\ gate.active <= Limit

(* The queue is bounded, holds a request at most once, and never holds one *)
(* that is already past the gate: a waiter is granted or cancelled once.   *)
QueueConsistent ==
  /\ Len(gate.waiting) <= MaxQueued
  /\ \A i, j \in 1..Len(gate.waiting) :
       gate.waiting[i] = gate.waiting[j] => i = j
  /\ \A i \in 1..Len(gate.waiting) : gate.waiting[i] \notin gate.holders

(* No request waits while a slot is free: release hands the slot over and  *)
(* acquire queues only at the limit, whatever cancellations come between.  *)
WorkConserving == gate.waiting # <<>> => gate.active = Limit
=============================================================================
