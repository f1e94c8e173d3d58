----------------------------- MODULE WriteOutcome -----------------------------
(***************************************************************************)
(* What the caller of a write may rely on, without gate, token, cooldown   *)
(* or retry: the API executes the write at most once; "ok" means it did;    *)
(* "failed" means it did not and never will; "unsure" promises nothing.     *)
(* src/client.ts, ServiceTitanApiError.details.outcomeUnknown.              *)
(***************************************************************************)
EXTENDS Naturals

CONSTANT Writes

VARIABLES executions,  \* how often the API has executed the write
          told         \* what its caller has been told

vars == <<executions, told>>

TypeOK ==
  /\ executions \in [Writes -> 0..1]
  /\ told \in [Writes -> {"pending", "ok", "failed", "unsure"}]

Init ==
  /\ executions = [w \in Writes |-> 0]
  /\ told = [w \in Writes |-> "pending"]

\* The API acts in its own time, also after an unsure answer.
Execute(w) ==
  /\ executions[w] = 0 /\ told[w] \in {"pending", "unsure"}
  /\ executions' = [executions EXCEPT ![w] = 1]
  /\ UNCHANGED told

Tell(w, result) ==
  /\ told[w] = "pending"
  /\ result = "ok" => executions[w] = 1
  /\ result = "failed" => executions[w] = 0
  /\ told' = [told EXCEPT ![w] = result]
  /\ UNCHANGED executions

Next == \E w \in Writes : Execute(w) \/ \E result \in {"ok", "failed", "unsure"} : Tell(w, result)

Spec == Init /\ [][Next]_vars
=============================================================================
