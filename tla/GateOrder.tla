------------------------------ MODULE GateOrder ------------------------------
(***************************************************************************)
(* The gate with a record of who came before whom.  RequestGate keeps only *)
(* its queue; whether slots go out in the order of arrival is a question   *)
(* about the past, also for a retry, which was past the gate already and   *)
(* queues again (client.ts 240-255).  ahead only records: it restricts no  *)
(* action of the gate.                                                     *)
(***************************************************************************)
EXTENDS RequestGate

VARIABLE ahead   \* of a request: those that waited when it last called acquire
                 \* and have waited without a break since

Waiters(g) == {r \in Requests : IsWaiting(g, r)}

Comes(r) ==
  ahead' = [q \in Requests |->
              (IF q = r THEN Waiters(gate) ELSE ahead[q]) \cap Waiters(gate')]

NobodyComes == ahead' = [q \in Requests |-> ahead[q] \cap Waiters(gate')]

OrderedInit == Init /\ ahead = [r \in Requests |-> {}]

OrderedNext ==
  \E r \in Requests :
    \/ Acquire(r) /\ Comes(r)
    \/ Rejoin(r) /\ Comes(r)
    \/ Release(r) /\ NobodyComes
    \/ Cancel(r) /\ NobodyComes

OrderedSpec == OrderedInit /\ [][OrderedNext]_<<gate, ahead>>

-----------------------------------------------------------------------------
(* Slots go out in the order of arrival: whoever is past the gate has      *)
(* nobody left in the queue who waited there before it called acquire, for *)
(* the first time or again after a retry.  A retry therefore gives its     *)
(* slot to the oldest waiter and queues behind the rest; it neither keeps  *)
(* the slot nor takes the next one past them.                              *)
NoOvertaking == \A r \in gate.holders : ahead[r] = {}
=============================================================================
