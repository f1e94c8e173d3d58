----------------------- MODULE ServiceTitanClientProofs -----------------------
(***************************************************************************)
(* The request loop, proved for any number of requests, any limits of the  *)
(* gate and any delays.  A request is matched with its slot, its sends are *)
(* bounded, no Retry-After is cut short, and what the caller of a write is *)
(* told is true: the client implements WriteOutcome.                        *)
(*                                                                         *)
(* The proof is composed.  RequestGateProofs and AccessTokenProofs are     *)
(* instantiated, and their lemmas about acquire, release and withdrawal    *)
(* are all that is used of the gate; in return each step of the client is  *)
(* shown to be a step of Gate!Spec and of Token!Spec, so what was proved   *)
(* of the parts alone holds of them in the client.                          *)
(***************************************************************************)
EXTENDS ServiceTitanClient, TLAPS

\* Only its lemmas about one operation are used; none of them is about the
\* record of arrivals, which the client does not keep.
G == INSTANCE RequestGateProofs WITH ahead <- [r \in Requests |-> {}]
T == INSTANCE AccessTokenProofs WITH Callers <- Requests

-----------------------------------------------------------------------------
(* The inductive invariant.                                                 *)

Places == {"idle", "queued"} \cup Inside \cup {"done"}
Failures == [kind : {"failed"}, status : Nat, cancelled : BOOLEAN,
             outcomeUnknown : BOOLEAN, retryable : BOOLEAN]
Outcomes == {Pending, Succeeded} \cup Failures

Types ==
  /\ resourceCooldown \in Nat
  /\ pc \in [Requests -> Places]
  /\ sleepLeft \in [Requests -> 0..MaxRetryDelay]
  /\ attempts \in [Requests -> Nat]
  /\ retried401 \in [Requests -> BOOLEAN] /\ retried429 \in [Requests -> BOOLEAN]
  /\ outcome \in [Requests -> Outcomes]
  /\ upstream \in [Requests -> {"none", "open", "executed", "refused"}]
  /\ commits \in [Requests -> Nat]
  /\ notBefore \in [Requests -> Nat]

GateInOrder == G!WellFormed(gate) /\ SlotsMatchRequests

Retries(r) == (IF retried401[r] THEN 1 ELSE 0) + (IF retried429[r] THEN 1 ELSE 0)

\* A request sends once more for each retry; the time it was asked to wait is
\* never longer than the shared cooldown, and is over when it goes for its token.
SendsInOrder(r) ==
  /\ attempts[r] <= Retries(r) + (IF pc[r] \in {"sent", "done"} THEN 1 ELSE 0)
  /\ notBefore[r] <= resourceCooldown
  /\ pc[r] \in {"token", "awaitToken"} => notBefore[r] = 0

\* A request sends only when its last attempt was refused, and what its caller is
\* told agrees with what became of the attempts.
AnswersInOrder(r) ==
  /\ outcome[r].kind = "pending" <=> pc[r] # "done"
  /\ pc[r] \notin {"sent", "done"} => upstream[r] \in {"none", "refused"}
  /\ outcome[r].kind = "ok" => upstream[r] = "executed"
  /\ r \in Mutations /\ outcome[r].kind = "failed" /\ ~outcome[r].outcomeUnknown =>
       upstream[r] \in {"none", "refused"}
  /\ commits[r] = IF upstream[r] = "executed" THEN 1 ELSE 0

IInv ==
  /\ Types
  /\ GateInOrder
  /\ \A r \in Requests : SendsInOrder(r)
  /\ \A r \in Requests : AnswersInOrder(r)

USE MutationsAssumption, RetryAftersAssumption, GateAssumption

-----------------------------------------------------------------------------
(* The gate.                                                                *)

\* The two instances of the gate, in the client and in its proofs, agree.
LEMMA SameGate ==
  /\ \A g, r : Gate!IsHolding(g, r) <=> G!IsHolding(g, r)
  /\ \A g, r : Gate!IsWaiting(g, r) <=> G!IsWaiting(g, r)
  /\ \A g : Gate!QueueFull(g) <=> G!QueueFull(g)
  /\ \A g, r : Gate!Acquired(g, r) = G!Acquired(g, r)
  /\ \A g, r : Gate!Released(g, r) = G!Released(g, r)
  /\ \A g, r : Gate!Withdrawn(g, r) = G!Withdrawn(g, r)
  /\ Gate!EmptyGate = G!EmptyGate
<1> USE DEF G!GateState, Gate!GateState, G!HasRoom, Gate!HasRoom, G!QueueFull,
            Gate!QueueFull, G!Granted, Gate!Granted, G!Freed, Gate!Freed
<1>1. \A g, r : Gate!IsHolding(g, r) <=> G!IsHolding(g, r)
  BY DEF G!IsHolding, Gate!IsHolding
<1>2. \A g, r : Gate!IsWaiting(g, r) <=> G!IsWaiting(g, r)
  BY DEF G!IsWaiting, Gate!IsWaiting, G!Contains, Gate!Contains
<1>3. \A g : Gate!QueueFull(g) <=> G!QueueFull(g)
  OBVIOUS
<1>4. \A g, r : Gate!Acquired(g, r) = G!Acquired(g, r)
  BY DEF G!Acquired, Gate!Acquired
<1>5. \A g, r : Gate!Released(g, r) = G!Released(g, r)
  BY DEF G!Released, Gate!Released
<1>6. \A g, r : Gate!Withdrawn(g, r) = G!Withdrawn(g, r)
  BY DEF G!Withdrawn, Gate!Withdrawn, G!RemoveFirst, Gate!RemoveFirst, G!SelectInSeq,
     Gate!SelectInSeq, G!RemoveAt, Gate!RemoveAt, G!Min, Gate!Min
<1>7. Gate!EmptyGate = G!EmptyGate
  BY DEF G!EmptyGate, Gate!EmptyGate
<1> QED BY <1>1, <1>2, <1>3, <1>4, <1>5, <1>6, <1>7

Apart(g, r) == ~Gate!IsHolding(g, r) /\ ~Gate!IsWaiting(g, r)

\* What the client needs to know of acquire, release and a withdrawal.
LEMMA AcquireGate ==
  ASSUME NEW g, G!WellFormed(g), NEW r \in Requests, Apart(g, r)
  PROVE  LET h == Gate!Acquired(g, r) IN
         /\ G!WellFormed(h)
         /\ \A d \in Requests : d # r =>
              /\ Gate!IsHolding(h, d) <=> Gate!IsHolding(g, d)
              /\ Apart(h, d) <=> Apart(g, d)
         /\ Gate!IsHolding(h, r) \/ Gate!IsWaiting(h, r) \/ (Gate!QueueFull(g) /\ h = g)
<1>1. G!WellFormed(Gate!Acquired(g, r))
  BY SameGate, G!AcquiredWellFormed DEF Apart, G!LimitAssumption, G!MaxQueuedAssumption
<1>2. ASSUME NEW d \in Requests, d # r
      PROVE  /\ Gate!IsHolding(Gate!Acquired(g, r), d) <=> Gate!IsHolding(g, d)
             /\ Gate!IsWaiting(Gate!Acquired(g, r), d) <=> Gate!IsWaiting(g, d)
  BY <1>2, SameGate, G!AcquiredOthers DEF G!LimitAssumption, G!MaxQueuedAssumption
<1>3. \/ Gate!IsHolding(Gate!Acquired(g, r), r)
      \/ Gate!IsWaiting(Gate!Acquired(g, r), r)
      \/ Gate!QueueFull(g) /\ Gate!Acquired(g, r) = g
  BY SameGate, G!AcquiredSelf DEF G!LimitAssumption, G!MaxQueuedAssumption
<1> QED BY <1>1, <1>2, <1>3 DEF Apart

\* release takes the slot from its request, grants it to a waiter if there is one,
\* and takes from no other request what it has.
LEMMA ReleaseGate ==
  ASSUME NEW g, G!WellFormed(g), NEW r \in Requests, Gate!IsHolding(g, r)
  PROVE  LET h == Gate!Released(g, r) IN
         /\ G!WellFormed(h) /\ Apart(h, r)
         /\ \A d \in Requests : d # r =>
              /\ Gate!IsHolding(g, d) => Gate!IsHolding(h, d)
              /\ Apart(g, d) => Apart(h, d)
<1>1. G!WellFormed(Gate!Released(g, r)) /\ Apart(Gate!Released(g, r), r)
  BY SameGate, G!ReleasedWellFormed DEF Apart, G!LimitAssumption, G!MaxQueuedAssumption
<1>2. ASSUME NEW d \in Requests, d # r
      PROVE  /\ Gate!IsHolding(g, d) => Gate!IsHolding(Gate!Released(g, r), d)
             /\ Apart(g, d) => Apart(Gate!Released(g, r), d)
  BY <1>2, SameGate, G!ReleasedOthers
     DEF Apart, G!LimitAssumption, G!MaxQueuedAssumption
<1> QED BY <1>1, <1>2

\* The abort listener takes its own request out of the queue and nobody else.
LEMMA WithdrawGate ==
  ASSUME NEW g, G!WellFormed(g), NEW r \in Requests, Gate!IsWaiting(g, r)
  PROVE  LET h == Gate!Withdrawn(g, r) IN
         /\ G!WellFormed(h)
         /\ \A d \in Requests : /\ Gate!IsHolding(h, d) <=> Gate!IsHolding(g, d)
                                /\ Apart(g, d) => Apart(h, d)
<1>1. /\ G!WellFormed(Gate!Withdrawn(g, r))
      /\ \A d \in Requests : G!IsHolding(Gate!Withdrawn(g, r), d) <=> G!IsHolding(g, d)
  BY SameGate, G!WithdrawnWellFormed
     DEF G!LimitAssumption, G!MaxQueuedAssumption, G!IsHolding
<1>2. ASSUME NEW d \in Requests, Gate!IsWaiting(Gate!Withdrawn(g, r), d)
      PROVE  Gate!IsWaiting(g, d)
  BY <1>2, SameGate, G!WithdrawnOthers DEF G!LimitAssumption, G!MaxQueuedAssumption
<1> QED BY <1>1, <1>2, SameGate DEF Apart

-----------------------------------------------------------------------------
(* What the steps of a request have in common.                              *)

\* What a caller is told.  Before a send nothing is unknown; after it, a write
\* that drew no answer or a server error is.
LEMMA Results ==
  /\ Pending \in Outcomes /\ Pending.kind = "pending"
  /\ Succeeded \in Outcomes /\ Succeeded.kind = "ok"
  /\ \A result \in {CancelledBeforeSend, QueueFullError, BudgetError, AuthError} :
       result \in Outcomes /\ result.kind = "failed" /\ ~result.outcomeUnknown
  /\ \A r \in Requests, status \in {0, 400, 401, 429, 500} :
       /\ AfterSend(r, status) \in Outcomes /\ AfterSend(r, status).kind = "failed"
       /\ status \in {0, 500} /\ r \in Mutations => AfterSend(r, status).outcomeUnknown
  /\ \A r \in Requests :
       /\ CancelledAfterSend(r) \in Outcomes /\ CancelledAfterSend(r).kind = "failed"
       /\ r \in Mutations => CancelledAfterSend(r).outcomeUnknown
<1> DEFINE Fine(result, unknown) ==
             /\ result \in Outcomes /\ result.kind = "failed"
             /\ result.outcomeUnknown <=> unknown
<1>1. Pending \in Outcomes /\ Pending.kind = "pending"
  BY DEF Pending, Outcomes
<1>2. Succeeded \in Outcomes /\ Succeeded.kind = "ok"
  BY DEF Pending, Succeeded, Outcomes
<1>3. Fine(CancelledBeforeSend, FALSE)
  BY DEF CancelledBeforeSend, Sanitized, Outcomes, Failures
<1> DEFINE Plain(status) == Sanitized(status, FALSE, FALSE)
<1>4. ASSUME NEW status \in {401, 429} PROVE Fine(Plain(status), FALSE)
  <2>1. status \in Nat /\ ~(status >= 500) OBVIOUS
  <2> QED BY <2>1 DEF Sanitized, Outcomes, Failures
<1>5. Fine(BudgetError, FALSE) /\ Fine(AuthError, FALSE)
  <2>1. BudgetError = Plain(429) /\ AuthError = Plain(401) BY DEF BudgetError, AuthError
  <2> HIDE DEF Plain
  <2> QED BY <1>4, <2>1
<1>6. Fine(QueueFullError, FALSE) BY DEF QueueFullError, Sanitized, Outcomes, Failures
<1>7. ASSUME NEW r \in Requests, NEW status \in {0, 400, 401, 429, 500}
      PROVE  Fine(AfterSend(r, status), r \in Mutations /\ status \in {0, 500})
  <2>1. status \in Nat /\ (status >= 500 <=> status = 500) OBVIOUS
  <2>2. CASE r \in Mutations
    BY <2>1, <2>2 DEF AfterSend, Sanitized, Outcomes, Failures
  <2>3. CASE r \notin Mutations
    BY <2>1, <2>3 DEF AfterSend, Sanitized, Outcomes, Failures
  <2> QED BY <2>2, <2>3
<1>8. ASSUME NEW r \in Requests
      PROVE  Fine(CancelledAfterSend(r), r \in Mutations)
  <2>1. CASE r \in Mutations
    BY <2>1 DEF CancelledAfterSend, Sanitized, Outcomes, Failures
  <2>2. CASE r \notin Mutations
    BY <2>2 DEF CancelledAfterSend, Sanitized, Outcomes, Failures
  <2> QED BY <2>1, <2>2
<1> QED BY <1>1, <1>2, <1>3, <1>4, <1>5, <1>6, <1>7, <1>8

Untouched(d) ==
  /\ pc'[d] = pc[d] /\ attempts'[d] = attempts[d]
  /\ retried401'[d] = retried401[d] /\ retried429'[d] = retried429[d]
  /\ outcome'[d] = outcome[d] /\ upstream'[d] = upstream[d]
  /\ commits'[d] = commits[d] /\ notBefore'[d] = notBefore[d]

\* A step of one request that lengthens the cooldown, if it changes it, has to
\* answer for that request only.
LEMMA RequestStep ==
  ASSUME IInv, NEW r \in Requests, Types', GateInOrder',
         resourceCooldown <= resourceCooldown',
         \A d \in Requests : d # r => Untouched(d),
         SendsInOrder(r)', AnswersInOrder(r)'
  PROVE  IInv'
<1>1. ASSUME NEW d \in Requests, d # r PROVE SendsInOrder(d)' /\ AnswersInOrder(d)'
  <2>1. Untouched(d) /\ SendsInOrder(d) /\ AnswersInOrder(d) BY <1>1 DEF IInv
  <2>2. /\ notBefore[d] \in Nat /\ notBefore'[d] \in Nat
        /\ resourceCooldown \in Nat /\ resourceCooldown' \in Nat
    BY DEF IInv, Types
  <2>3. SendsInOrder(d)' BY <2>1, <2>2 DEF Untouched, SendsInOrder, Retries
  <2>4. AnswersInOrder(d)' BY <2>1 DEF Untouched, AnswersInOrder
  <2> QED BY <2>3, <2>4
<1>2. \A d \in Requests : SendsInOrder(d)' /\ AnswersInOrder(d)' BY <1>1
<1> QED BY <1>2 DEF IInv

\* A request that moves has the slot that its new place asks for.
LEMMA SlotsKept ==
  ASSUME IInv, NEW r \in Requests, NEW place \in Places, G!WellFormed(gate'),
         pc' = [pc EXCEPT ![r] = place],
         place \in Inside => Gate!IsHolding(gate', r),
         place \in {"idle", "done"} => Apart(gate', r),
         \A d \in Requests : d # r =>
           /\ Gate!IsHolding(gate, d) => Gate!IsHolding(gate', d)
           /\ Apart(gate, d) => Apart(gate', d)
  PROVE  GateInOrder'
<1>1. pc'[r] = place /\ \A d \in Requests : d # r => pc'[d] = pc[d]
  BY DEF IInv, Types
<1>2. \A d \in Requests : /\ pc'[d] \in Inside => Gate!IsHolding(gate', d)
                          /\ pc'[d] \in {"idle", "done"} => Apart(gate', d)
  BY <1>1 DEF IInv, GateInOrder, SlotsMatchRequests, Apart
<1>3. \A d \in Requests : Gate!IsHolding(gate', d) <=> Gate!IsHolding(gate, d)'
  BY DEF Gate!IsHolding
<1>4. \A d \in Requests : Gate!IsWaiting(gate', d) <=> Gate!IsWaiting(gate, d)'
  BY DEF Gate!IsWaiting
<1>5. SlotsMatchRequests'
  BY <1>2, <1>3, <1>4 DEF SlotsMatchRequests, Apart
<1>6. G!WellFormed(gate)' BY DEF G!WellFormed, G!WellTyped, G!Counted, G!Queued, G!Busy
<1> QED BY <1>5, <1>6 DEF GateInOrder

\* The head of the loop: the request gets in, queues, or is told why not.
LEMMA EnterLoopStep ==
  ASSUME NEW g, G!WellFormed(g), NEW r \in Requests, Apart(g, r), EnterLoop(r, g)
  PROVE  /\ G!WellFormed(gate') /\ gate' \in {g, Gate!Acquired(g, r)}
         /\ \A d \in Requests : d # r =>
              /\ Gate!IsHolding(g, d) => Gate!IsHolding(gate', d)
              /\ Apart(g, d) => Apart(gate', d)
         /\ \E place \in {"cooldown", "queued", "done"} :
              /\ pc' = [pc EXCEPT ![r] = place]
              /\ place = "cooldown" => Gate!IsHolding(gate', r)
              /\ place = "done" => Apart(gate', r)
              /\ IF place = "done"
                 THEN \E result \in {CancelledBeforeSend, QueueFullError} :
                        outcome' = [outcome EXCEPT ![r] = result]
                 ELSE outcome' = outcome
<1> DEFINE h == Gate!Acquired(g, r)
<1>1. /\ G!WellFormed(h)
      /\ \A d \in Requests : d # r =>
           /\ Gate!IsHolding(h, d) <=> Gate!IsHolding(g, d)
           /\ Apart(h, d) <=> Apart(g, d)
      /\ Gate!IsHolding(h, r) \/ Gate!IsWaiting(h, r) \/ (Gate!QueueFull(g) /\ h = g)
  BY AcquireGate
<1> HIDE DEF h
<1>2. \/ gate' = g /\ pc' = [pc EXCEPT ![r] = "done"]
         /\ outcome' = [outcome EXCEPT ![r] = CancelledBeforeSend]
      \/ gate' = h /\ Gate!IsHolding(h, r) /\ pc' = [pc EXCEPT ![r] = "cooldown"]
         /\ outcome' = outcome
      \/ gate' = h /\ Gate!IsWaiting(h, r) /\ pc' = [pc EXCEPT ![r] = "queued"]
         /\ outcome' = outcome
      \/ gate' = h /\ Gate!QueueFull(g) /\ pc' = [pc EXCEPT ![r] = "done"]
         /\ outcome' = [outcome EXCEPT ![r] = QueueFullError]
  BY DEF EnterLoop, Go, Tell, h
<1>3. Gate!QueueFull(g) => h = g
  BY DEF Gate!QueueFull, Gate!Acquired, h
<1>4. G!WellFormed(gate') /\ gate' \in {g, h} BY <1>1, <1>2
<1>5. \A d \in Requests : d # r =>
        /\ Gate!IsHolding(g, d) => Gate!IsHolding(gate', d)
        /\ Apart(g, d) => Apart(gate', d)
  BY <1>1, <1>4
<1>6. \E place \in {"cooldown", "queued", "done"} :
        /\ pc' = [pc EXCEPT ![r] = place]
        /\ place = "cooldown" => Gate!IsHolding(gate', r)
        /\ place = "done" => Apart(gate', r)
        /\ IF place = "done"
           THEN \E result \in {CancelledBeforeSend, QueueFullError} :
                  outcome' = [outcome EXCEPT ![r] = result]
           ELSE outcome' = outcome
  <2>1. CASE gate' = g /\ pc' = [pc EXCEPT ![r] = "done"]
             /\ outcome' = [outcome EXCEPT ![r] = CancelledBeforeSend]
    BY <2>1
  <2>2. CASE gate' = h /\ Gate!IsHolding(h, r) /\ pc' = [pc EXCEPT ![r] = "cooldown"]
             /\ outcome' = outcome
    BY <2>2
  <2>3. CASE gate' = h /\ Gate!IsWaiting(h, r) /\ pc' = [pc EXCEPT ![r] = "queued"]
             /\ outcome' = outcome
    BY <2>3
  <2>4. CASE gate' = h /\ Gate!QueueFull(g) /\ pc' = [pc EXCEPT ![r] = "done"]
             /\ outcome' = [outcome EXCEPT ![r] = QueueFullError]
    BY <1>3, <2>4
  <2> QED BY <1>2, <2>1, <2>2, <2>3, <2>4
<1> QED BY <1>4, <1>5, <1>6 DEF h

\* The finally block gives the slot back that the request holds.
LEMMA LeaveStep ==
  ASSUME IInv, NEW r \in Requests, pc[r] \in Inside, NEW result, Leave(r, result)
  PROVE  GateInOrder' /\ pc' = [pc EXCEPT ![r] = "done"]
         /\ outcome' = [outcome EXCEPT ![r] = result]
<1>1. G!WellFormed(gate) /\ Gate!IsHolding(gate, r)
  BY DEF IInv, GateInOrder, SlotsMatchRequests
<1>2. /\ gate' = Gate!Released(gate, r)
      /\ pc' = [pc EXCEPT ![r] = "done"] /\ outcome' = [outcome EXCEPT ![r] = result]
  BY DEF Leave, Go, Tell
<1>3. /\ G!WellFormed(gate') /\ Apart(gate', r)
      /\ \A d \in Requests : d # r =>
           /\ Gate!IsHolding(gate, d) => Gate!IsHolding(gate', d)
           /\ Apart(gate, d) => Apart(gate', d)
  BY <1>1, <1>2, ReleaseGate
<1>4. "done" \in Places /\ "done" \notin Inside BY DEF Places, Inside
<1> QED BY <1>2, <1>3, <1>4, SlotsKept

\* A request that moves on with the gate as it is.
LEMMA MoveStep ==
  ASSUME IInv, NEW r \in Requests, NEW place \in Inside, Gate!IsHolding(gate, r),
         pc' = [pc EXCEPT ![r] = place], gate' = gate
  PROVE  GateInOrder'
<1>1. G!WellFormed(gate') BY DEF IInv, GateInOrder
<1>2. place \in Places /\ place \notin {"idle", "done"} BY DEF Places, Inside
<1> QED BY <1>1, <1>2, SlotsKept

\* A retry gives the slot back and enters the loop again in the same turn.
LEMMA RetryStep ==
  ASSUME IInv, NEW r \in Requests, pc[r] \in Inside,
         EnterLoop(r, Gate!Released(gate, r))
  PROVE  /\ GateInOrder'
         /\ gate' \in {Gate!Released(gate, r), Gate!Acquired(Gate!Released(gate, r), r)}
         /\ \E place \in {"cooldown", "queued", "done"} :
              /\ pc' = [pc EXCEPT ![r] = place]
              /\ IF place = "done"
                 THEN \E result \in {CancelledBeforeSend, QueueFullError} :
                        outcome' = [outcome EXCEPT ![r] = result]
                 ELSE outcome' = outcome
<1> DEFINE g == Gate!Released(gate, r)
<1>1. G!WellFormed(gate) /\ Gate!IsHolding(gate, r)
  BY DEF IInv, GateInOrder, SlotsMatchRequests
<1>2. /\ G!WellFormed(g) /\ Apart(g, r)
      /\ \A d \in Requests : d # r =>
           /\ Gate!IsHolding(gate, d) => Gate!IsHolding(g, d)
           /\ Apart(gate, d) => Apart(g, d)
  BY <1>1, ReleaseGate
<1>3. /\ G!WellFormed(gate') /\ gate' \in {g, Gate!Acquired(g, r)}
      /\ \A d \in Requests : d # r =>
           /\ Gate!IsHolding(g, d) => Gate!IsHolding(gate', d)
           /\ Apart(g, d) => Apart(gate', d)
  BY <1>2, EnterLoopStep
<1>4. PICK place \in {"cooldown", "queued", "done"} :
        /\ pc' = [pc EXCEPT ![r] = place]
        /\ place = "cooldown" => Gate!IsHolding(gate', r)
        /\ place = "done" => Apart(gate', r)
        /\ IF place = "done"
           THEN \E result \in {CancelledBeforeSend, QueueFullError} :
                  outcome' = [outcome EXCEPT ![r] = result]
           ELSE outcome' = outcome
  BY <1>2, EnterLoopStep
<1> HIDE DEF g
<1>5. place \in Places /\ (place \in Inside => place = "cooldown")
      /\ (place \in {"idle", "done"} => place = "done")
  BY <1>4 DEF Places, Inside
<1>6. GateInOrder' BY <1>2, <1>3, <1>4, <1>5, SlotsKept
<1> QED BY <1>3, <1>4, <1>6 DEF g

-----------------------------------------------------------------------------
(* Up to the send.                                                          *)

\* A request that ends before it sends is told so, and was not executed.
LEMMA EndsUnsent ==
  ASSUME IInv, NEW r \in Requests, pc[r] \notin {"sent", "done"},
         pc' = [pc EXCEPT ![r] = "done"],
         NEW result \in {CancelledBeforeSend, QueueFullError, BudgetError, AuthError},
         outcome' = [outcome EXCEPT ![r] = result],
         UNCHANGED <<attempts, retried401, retried429, upstream, commits>>
  PROVE  /\ AnswersInOrder(r)' /\ outcome' \in [Requests -> Outcomes]
         /\ attempts'[r] <= Retries(r)' + (IF pc'[r] \in {"sent", "done"} THEN 1 ELSE 0)
<1>1. pc'[r] = "done" /\ outcome'[r] = result BY DEF IInv, Types
<1>2. result \in Outcomes /\ result.kind = "failed" /\ ~result.outcomeUnknown
  BY Results
<1>3. AnswersInOrder(r) /\ SendsInOrder(r) BY DEF IInv
<1>4. AnswersInOrder(r)' BY <1>1, <1>2, <1>3 DEF AnswersInOrder
<1>5. outcome' \in [Requests -> Outcomes] BY <1>2 DEF IInv, Types
<1>6. attempts[r] \in Nat /\ Retries(r) \in Nat /\ Retries(r)' = Retries(r)
  BY DEF IInv, Types, Retries
<1>7. attempts'[r] <= Retries(r)' + (IF pc'[r] \in {"sent", "done"} THEN 1 ELSE 0)
  BY <1>1, <1>3, <1>6 DEF SendsInOrder
<1> QED BY <1>4, <1>5, <1>7

\* A request that moves on before it sends keeps what was said of it.
LEMMA MovesUnsent ==
  ASSUME IInv, NEW r \in Requests, pc[r] \notin {"sent", "done"},
         NEW place \in Places \ {"sent", "done"},
         pc' = [pc EXCEPT ![r] = place],
         UNCHANGED <<attempts, retried401, retried429, upstream, commits, outcome>>
  PROVE  /\ AnswersInOrder(r)' /\ pc' \in [Requests -> Places]
         /\ attempts'[r] <= Retries(r)' + (IF pc'[r] \in {"sent", "done"} THEN 1 ELSE 0)
<1>1. pc'[r] = place BY DEF IInv, Types
<1>2. AnswersInOrder(r) /\ SendsInOrder(r) BY DEF IInv
<1>3. AnswersInOrder(r)' BY <1>1, <1>2 DEF AnswersInOrder
<1>4. pc' \in [Requests -> Places] BY DEF IInv, Types
<1>5. attempts'[r] <= Retries(r)' + (IF pc'[r] \in {"sent", "done"} THEN 1 ELSE 0)
  BY <1>1, <1>2 DEF SendsInOrder, Retries
<1> QED BY <1>3, <1>4, <1>5

\* A request that starts enters the loop, bound by the cooldown that is running.
LEMMA BeginStep ==
  ASSUME IInv, NEW r \in Requests, Begin(r)
  PROVE  IInv'
<1> USE DEF Begin, localVars, apiVars
<1>0. Types BY DEF IInv
<1>1. G!WellFormed(gate) /\ Apart(gate, r)
  BY DEF IInv, GateInOrder, SlotsMatchRequests, Apart
<1>2. /\ G!WellFormed(gate')
      /\ \A d \in Requests : d # r =>
           /\ Gate!IsHolding(gate, d) => Gate!IsHolding(gate', d)
           /\ Apart(gate, d) => Apart(gate', d)
  BY <1>1, EnterLoopStep
<1>3. PICK place \in {"cooldown", "queued", "done"} :
        /\ pc' = [pc EXCEPT ![r] = place]
        /\ place = "cooldown" => Gate!IsHolding(gate', r)
        /\ place = "done" => Apart(gate', r)
        /\ IF place = "done"
           THEN \E result \in {CancelledBeforeSend, QueueFullError} :
                  outcome' = [outcome EXCEPT ![r] = result]
           ELSE outcome' = outcome
  BY <1>1, EnterLoopStep
<1>4. place \in Places /\ (place \in Inside => place = "cooldown")
      /\ (place \in {"idle", "done"} => place = "done")
  BY <1>3 DEF Places, Inside
<1>5. GateInOrder' BY <1>2, <1>3, <1>4, SlotsKept
<1>6. /\ AnswersInOrder(r)' /\ outcome' \in [Requests -> Outcomes]
      /\ attempts'[r] <= Retries(r)' + (IF pc'[r] \in {"sent", "done"} THEN 1 ELSE 0)
  <2>1. CASE place = "done" BY <1>3, <2>1, EndsUnsent
  <2>2. CASE place # "done"
    <3>1. place \in Places \ {"sent", "done"} /\ outcome' = outcome BY <1>3, <1>4, <2>2
    <3> QED BY <1>0, <1>3, <3>1, MovesUnsent DEF Types
  <2> QED BY <2>1, <2>2
<1>7. Types' BY <1>0, <1>3, <1>4, <1>6 DEF Types
<1>8. SendsInOrder(r)'
  <2>1. notBefore'[r] = resourceCooldown' /\ pc'[r] \notin {"token", "awaitToken"}
    BY <1>0, <1>3 DEF Types
  <2>2. resourceCooldown' \in Nat BY <1>0 DEF Types
  <2> QED BY <1>6, <2>1, <2>2 DEF SendsInOrder
<1>9. \A d \in Requests : d # r => Untouched(d)
  BY <1>0, <1>3 DEF Types, Untouched
<1>10. resourceCooldown <= resourceCooldown' BY <1>0 DEF Types
<1> QED BY <1>5, <1>6, <1>7, <1>8, <1>9, <1>10, RequestStep

\* The slot a waiting request is handed is the one it goes on with.
LEMMA TakeSlotStep ==
  ASSUME IInv, NEW r \in Requests, TakeSlot(r)
  PROVE  IInv'
<1> USE DEF TakeSlot, Go, localVars, apiVars
<1>0. Types BY DEF IInv
<1>1. "cooldown" \in Inside /\ "cooldown" \in Places \ {"sent", "done"}
  BY DEF Inside, Places
<1>2. GateInOrder' BY <1>1, MoveStep
<1>3. /\ AnswersInOrder(r)' /\ pc' \in [Requests -> Places]
      /\ attempts'[r] <= Retries(r)' + (IF pc'[r] \in {"sent", "done"} THEN 1 ELSE 0)
  BY <1>1, MovesUnsent
<1>4. Types' BY <1>0, <1>3 DEF Types
<1>5. SendsInOrder(r)'
  BY <1>0, <1>3 DEF IInv, Types, SendsInOrder
<1>6. \A d \in Requests : d # r => Untouched(d) BY <1>0 DEF Types, Untouched
<1>7. resourceCooldown <= resourceCooldown' BY <1>0 DEF Types
<1> QED BY <1>2, <1>3, <1>4, <1>5, <1>6, <1>7, RequestStep

\* A request whose listener took it out of the queue ends without a slot.
LEMMA LeaveQueueStep ==
  ASSUME IInv, NEW r \in Requests, LeaveQueue(r)
  PROVE  IInv'
<1> USE DEF LeaveQueue, Go, Tell, localVars, apiVars
<1>0. Types BY DEF IInv
<1>1. "done" \in Places /\ "done" \notin Inside BY DEF Places, Inside
<1>2. GateInOrder'
  <2>1. G!WellFormed(gate') /\ Apart(gate', r) BY DEF IInv, GateInOrder, Apart
  <2> QED BY <1>1, <2>1, SlotsKept
<1>3. /\ AnswersInOrder(r)' /\ outcome' \in [Requests -> Outcomes]
      /\ attempts'[r] <= Retries(r)' + (IF pc'[r] \in {"sent", "done"} THEN 1 ELSE 0)
  BY EndsUnsent
<1>4. Types' BY <1>0, <1>1, <1>3 DEF Types
<1>5. SendsInOrder(r)'
  BY <1>0, <1>3 DEF IInv, Types, SendsInOrder
<1>6. \A d \in Requests : d # r => Untouched(d) BY <1>0 DEF Types, Untouched
<1>7. resourceCooldown <= resourceCooldown' BY <1>0 DEF Types
<1> QED BY <1>2, <1>3, <1>4, <1>5, <1>6, <1>7, RequestStep

\* The finally block of a request that has not sent, or not again.
LEMMA LeavesUnsent ==
  ASSUME IInv, NEW r \in Requests, pc[r] \in Inside \ {"sent"},
         NEW result \in {CancelledBeforeSend, QueueFullError, BudgetError, AuthError},
         Leave(r, result), sleepLeft' \in [Requests -> 0..MaxRetryDelay],
         UNCHANGED <<resourceCooldown, attempts, retried401, retried429, apiVars,
                     notBefore>>
  PROVE  IInv'
<1> USE DEF apiVars
<1>0. Types BY DEF IInv
<1>1. /\ GateInOrder' /\ pc' = [pc EXCEPT ![r] = "done"]
      /\ outcome' = [outcome EXCEPT ![r] = result]
  BY LeaveStep
<1>2. pc[r] \notin {"sent", "done"} BY DEF Inside
<1>3. /\ AnswersInOrder(r)' /\ outcome' \in [Requests -> Outcomes]
      /\ attempts'[r] <= Retries(r)' + (IF pc'[r] \in {"sent", "done"} THEN 1 ELSE 0)
  BY <1>1, <1>2, EndsUnsent
<1>4. Types' BY <1>0, <1>1, <1>3 DEF Types, Places
<1>5. SendsInOrder(r)'
  BY <1>0, <1>1, <1>3 DEF IInv, Types, SendsInOrder
<1>6. \A d \in Requests : d # r => Untouched(d) BY <1>0, <1>1 DEF Types, Untouched
<1>7. resourceCooldown <= resourceCooldown' BY <1>0 DEF Types
<1> QED BY <1>1, <1>3, <1>4, <1>5, <1>6, <1>7, RequestStep

\* A request past the gate moves on, before its send.
LEMMA MovesInside ==
  ASSUME IInv, NEW r \in Requests, pc[r] \in Inside \ {"sent"},
         NEW place \in Inside \ {"sent"}, pc' = [pc EXCEPT ![r] = place],
         place = "token" => resourceCooldown = 0,
         place = "awaitToken" => pc[r] \in {"token", "awaitToken"} \/ resourceCooldown = 0,
         sleepLeft' \in [Requests -> 0..MaxRetryDelay],
         UNCHANGED <<gate, resourceCooldown, attempts, retried401, retried429, outcome,
                     apiVars, notBefore>>
  PROVE  IInv'
<1> USE DEF apiVars
<1>0. Types BY DEF IInv
<1>1. /\ pc[r] \notin {"sent", "done"} /\ place \in Places \ {"sent", "done"}
      /\ Gate!IsHolding(gate, r)
  BY DEF Inside, Places, IInv, GateInOrder, SlotsMatchRequests
<1>2. GateInOrder' BY <1>1, MoveStep
<1>3. /\ AnswersInOrder(r)' /\ pc' \in [Requests -> Places]
      /\ attempts'[r] <= Retries(r)' + (IF pc'[r] \in {"sent", "done"} THEN 1 ELSE 0)
  BY <1>1, MovesUnsent
<1>4. Types' BY <1>0, <1>3 DEF Types
<1>5. SendsInOrder(r)'
  <2>1. SendsInOrder(r) /\ notBefore[r] \in Nat /\ pc'[r] = place
    BY <1>0 DEF IInv, Types
  <2>2. place \in {"token", "awaitToken"} => notBefore[r] = 0
    BY <2>1 DEF SendsInOrder
  <2> QED BY <1>3, <2>1, <2>2 DEF SendsInOrder
<1>6. \A d \in Requests : d # r => Untouched(d) BY <1>0 DEF Types, Untouched
<1>7. resourceCooldown <= resourceCooldown' BY <1>0 DEF Types
<1> QED BY <1>2, <1>3, <1>4, <1>5, <1>6, <1>7, RequestStep

\* A request goes for its token only when the cooldown is over.
LEMMA CheckCooldownStep ==
  ASSUME IInv, NEW r \in Requests, CheckCooldown(r)
  PROVE  IInv'
<1> USE DEF CheckCooldown
<1>0. sleepLeft \in [Requests -> 0..MaxRetryDelay] BY DEF IInv, Types
<1>1. pc[r] \in Inside \ {"sent"} /\ {"token", "sleep"} \subseteq Inside \ {"sent"}
  BY DEF Inside
<1>2. CASE Leave(r, CancelledBeforeSend) /\ UNCHANGED sleepLeft
  BY <1>0, <1>1, <1>2, LeavesUnsent
<1>3. CASE Leave(r, BudgetError) /\ UNCHANGED sleepLeft
  BY <1>0, <1>1, <1>3, LeavesUnsent
<1>4. CASE /\ resourceCooldown = 0
           /\ Go(r, "token") /\ UNCHANGED <<gate, outcome, sleepLeft>>
  BY <1>0, <1>1, <1>4, MovesInside DEF Go
<1>5. CASE /\ resourceCooldown \in 1..MaxRetryDelay
           /\ sleepLeft' = [sleepLeft EXCEPT ![r] = resourceCooldown]
           /\ Go(r, "sleep") /\ UNCHANGED <<gate, outcome>>
  <2>1. sleepLeft' \in [Requests -> 0..MaxRetryDelay] BY <1>0, <1>5
  <2> QED BY <1>1, <1>5, <2>1, MovesInside DEF Go
<1> QED BY <1>2, <1>3, <1>4, <1>5

\* The sleep ends in another look at the cooldown, or with the request.
LEMMA SleepSteps ==
  ASSUME IInv, NEW r \in Requests, WakeUp(r) \/ CancelSleep(r)
  PROVE  IInv'
<1>0. sleepLeft \in [Requests -> 0..MaxRetryDelay] BY DEF IInv, Types
<1>1. pc[r] \in Inside \ {"sent"} /\ "cooldown" \in Inside \ {"sent"}
  BY DEF Inside, WakeUp, CancelSleep
<1>2. CASE WakeUp(r)
  BY <1>0, <1>1, <1>2, MovesInside DEF WakeUp, Go, localVars
<1>3. CASE CancelSleep(r)
  <2>1. MaxRetryDelay \in Nat BY TokenAssumption
  <2>2. sleepLeft' \in [Requests -> 0..MaxRetryDelay]
    BY <1>0, <1>3, <2>1 DEF CancelSleep
  <2> QED BY <1>1, <1>3, <2>2, LeavesUnsent DEF CancelSleep
<1> QED BY <1>2, <1>3

\* Asking for the token and waiting for it happen after the cooldown is over.
LEMMA TokenSteps ==
  ASSUME IInv, NEW r \in Requests, AskToken(r) \/ ReceiveToken(r) \/ GiveUpOnToken(r)
  PROVE  IInv'
<1>0. /\ sleepLeft \in [Requests -> 0..MaxRetryDelay]
      /\ pc \in [Requests -> Places]
  BY DEF IInv, Types
<1>1. pc[r] \in Inside \ {"sent"} /\ "awaitToken" \in Inside \ {"sent"}
  BY DEF Inside, AskToken, ReceiveToken, GiveUpOnToken
<1>2. CASE AskToken(r)
  BY <1>0, <1>1, <1>2, MovesInside DEF AskToken, Go, localVars
<1>3. CASE ReceiveToken(r)
  <2>1. pc' = [pc EXCEPT ![r] = "awaitToken"] /\ pc[r] = "awaitToken"
    BY <1>0, <1>3 DEF ReceiveToken
  <2> QED BY <1>0, <1>1, <1>3, <2>1, MovesInside DEF ReceiveToken, localVars
<1>4. CASE GiveUpOnToken(r)
  BY <1>0, <1>1, <1>4, LeavesUnsent DEF GiveUpOnToken, localVars
<1> QED BY <1>2, <1>3, <1>4

\* The attempt goes out: one more, after the last was refused.
LEMMA SendStep ==
  ASSUME IInv, NEW r \in Requests, Send(r)
  PROVE  IInv'
<1> USE DEF Send, Go
<1>0. Types BY DEF IInv
<1>1. "sent" \in Inside /\ "sent" \in Places /\ pc[r] \in Inside BY DEF Inside, Places
<1>2. GateInOrder'
  <2>1. Gate!IsHolding(gate, r) BY <1>1 DEF IInv, GateInOrder, SlotsMatchRequests
  <2> QED BY <1>1, <2>1, MoveStep
<1>3. Types' BY <1>0, <1>1 DEF Types
<1>4. /\ pc'[r] = "sent" /\ upstream'[r] = "open" /\ attempts'[r] = attempts[r] + 1
  BY <1>0 DEF Types
<1>5. SendsInOrder(r)'
  <2>1. /\ SendsInOrder(r) /\ attempts[r] \in Nat
        /\ Retries(r)' = Retries(r) /\ Retries(r) \in Nat
    BY <1>0 DEF IInv, Types, Retries
  <2> QED BY <1>4, <2>1 DEF SendsInOrder
<1>6. AnswersInOrder(r)'
  <2>1. AnswersInOrder(r) /\ outcome[r].kind = "pending" /\ commits[r] = 0
    BY DEF IInv, AnswersInOrder
  <2> QED BY <1>4, <2>1 DEF AnswersInOrder
<1>7. \A d \in Requests : d # r => Untouched(d) BY <1>0 DEF Types, Untouched
<1>8. resourceCooldown <= resourceCooldown' BY <1>0 DEF Types
<1> QED BY <1>2, <1>3, <1>5, <1>6, <1>7, <1>8, RequestStep

-----------------------------------------------------------------------------
(* The API and the answers.                                                 *)

\* The API executes an open attempt, of a request whose caller waits or has been
\* told that the outcome is unknown.
LEMMA ExecuteStep ==
  ASSUME IInv, NEW r \in Requests, Execute(r)
  PROVE  IInv'
<1> USE DEF Execute, localVars
<1>0. Types BY DEF IInv
<1>1. Types' BY <1>0 DEF Types
<1>2. GateInOrder'
  BY DEF IInv, GateInOrder, SlotsMatchRequests, Gate!IsHolding, Gate!IsWaiting,
         G!WellFormed, G!WellTyped, G!Counted, G!Queued, G!Busy
<1>3. SendsInOrder(r)' BY DEF IInv, SendsInOrder, Retries
<1>4. AnswersInOrder(r)'
  <2>1. AnswersInOrder(r) /\ commits'[r] = commits[r] + 1 /\ upstream'[r] = "executed"
    BY <1>0 DEF IInv, Types
  <2> QED BY <2>1 DEF AnswersInOrder
<1>5. \A d \in Requests : d # r => Untouched(d) BY <1>0 DEF Types, Untouched
<1>6. resourceCooldown <= resourceCooldown' BY <1>0 DEF Types
<1> QED BY <1>1, <1>2, <1>3, <1>4, <1>5, <1>6, RequestStep

\* What a refused attempt costs: one of the two retries, and nothing was executed.
LEMMA RefusedRetry ==
  ASSUME IInv, NEW r \in Requests, Refuse(r), EnterLoop(r, Gate!Released(gate, r)),
         \/ ~retried401[r] /\ retried401' = [retried401 EXCEPT ![r] = TRUE]
            /\ UNCHANGED retried429
         \/ ~retried429[r] /\ retried429' = [retried429 EXCEPT ![r] = TRUE]
            /\ UNCHANGED retried401,
         UNCHANGED <<sleepLeft, attempts>>,
         resourceCooldown' \in Nat, resourceCooldown <= resourceCooldown',
         NEW left \in Nat, left <= resourceCooldown',
         notBefore' = [notBefore EXCEPT ![r] = left]
  PROVE  IInv'
<1> USE DEF Refuse
<1>0. Types BY DEF IInv
<1>1. pc[r] \in Inside BY DEF Inside
<1>2. GateInOrder' BY <1>1, RetryStep
<1>3. PICK place \in {"cooldown", "queued", "done"} :
        /\ pc' = [pc EXCEPT ![r] = place]
        /\ IF place = "done"
           THEN \E result \in {CancelledBeforeSend, QueueFullError} :
                  outcome' = [outcome EXCEPT ![r] = result]
           ELSE outcome' = outcome
  BY <1>1, RetryStep
<1>4. /\ pc'[r] = place /\ upstream'[r] = "refused" /\ commits'[r] = commits[r]
      /\ notBefore'[r] = left /\ attempts'[r] = attempts[r]
  BY <1>0, <1>3 DEF Types
<1>5. /\ outcome' \in [Requests -> Outcomes]
      /\ \A d \in Requests : d # r => outcome'[d] = outcome[d]
      /\ IF place = "done" THEN outcome'[r].kind = "failed"
         ELSE outcome'[r] = outcome[r]
  <2>1. CASE place = "done"
    <3>1. PICK result \in {CancelledBeforeSend, QueueFullError} :
            outcome' = [outcome EXCEPT ![r] = result]
      BY <1>3, <2>1
    <3>2. result \in Outcomes /\ result.kind = "failed" BY Results
    <3> QED BY <1>0, <2>1, <3>1, <3>2 DEF Types
  <2>2. CASE place # "done"
    <3>1. outcome' = outcome BY <1>3, <2>2
    <3> QED BY <1>0, <2>2, <3>1 DEF Types
  <2> QED BY <2>1, <2>2
<1>6. Types'
  <2>1. pc' \in [Requests -> Places] BY <1>0, <1>3 DEF Types, Places, Inside
  <2>2. /\ upstream' \in [Requests -> {"none", "open", "executed", "refused"}]
        /\ commits' \in [Requests -> Nat]
    BY <1>0 DEF Types
  <2>3. /\ retried401' \in [Requests -> BOOLEAN]
        /\ retried429' \in [Requests -> BOOLEAN]
    BY <1>0 DEF Types
  <2>4. notBefore' \in [Requests -> Nat] BY <1>0 DEF Types
  <2> QED BY <1>0, <1>5, <2>1, <2>2, <2>3, <2>4 DEF Types
<1>7. SendsInOrder(r)'
  <2>1. SendsInOrder(r) /\ attempts[r] \in Nat BY <1>0 DEF IInv, Types
  <2>2. attempts[r] <= Retries(r) + 1 BY <2>1 DEF SendsInOrder
  <2>3. Retries(r)' = Retries(r) + 1 /\ Retries(r) \in Nat BY <1>0 DEF Types, Retries
  <2>4. attempts[r] <= Retries(r)' + 0 /\ attempts[r] <= Retries(r)' + 1
    BY <2>1, <2>2, <2>3
  <2> QED BY <1>3, <1>4, <2>4 DEF SendsInOrder
<1>8. AnswersInOrder(r)'
  <2>1. AnswersInOrder(r) /\ commits[r] = 0 /\ outcome[r].kind = "pending"
    BY DEF IInv, AnswersInOrder
  <2> QED BY <1>3, <1>4, <1>5, <2>1 DEF AnswersInOrder
<1>9. \A d \in Requests : d # r => Untouched(d)
  BY <1>0, <1>3, <1>5 DEF Types, Untouched
<1> QED BY <1>2, <1>6, <1>7, <1>8, <1>9, RequestStep

\* The end of a request that has sent.
LEMMA EndsSent ==
  ASSUME IInv, NEW r \in Requests, pc[r] = "sent",
         NEW result \in Outcomes, Leave(r, result),
         result.kind \in {"ok", "failed"},
         result.kind = "ok" => upstream'[r] = "executed",
         r \in Mutations /\ result.kind = "failed" /\ ~result.outcomeUnknown =>
           upstream'[r] = "refused",
         upstream' = upstream \/ Refuse(r),
         UNCHANGED <<sleepLeft, attempts, retried401, commits>>,
         \/ UNCHANGED retried429
         \/ ~retried429[r] /\ retried429' = [retried429 EXCEPT ![r] = TRUE],
         resourceCooldown' \in Nat, resourceCooldown <= resourceCooldown',
         NEW left \in Nat, left <= resourceCooldown',
         notBefore' = [notBefore EXCEPT ![r] = left]
  PROVE  IInv'
<1>0. Types BY DEF IInv
<1>1. pc[r] \in Inside BY DEF Inside
<1>2. /\ GateInOrder' /\ pc' = [pc EXCEPT ![r] = "done"]
      /\ outcome' = [outcome EXCEPT ![r] = result]
  BY <1>1, LeaveStep
<1>3. /\ pc'[r] = "done" /\ outcome'[r] = result /\ notBefore'[r] = left
  BY <1>0, <1>2 DEF Types
<1>4. /\ upstream' \in [Requests -> {"none", "open", "executed", "refused"}]
      /\ \A d \in Requests : d # r => upstream'[d] = upstream[d]
      /\ upstream[r] # "executed" => commits[r] = 0 /\ upstream'[r] # "executed"
      /\ upstream[r] = "executed" => commits[r] = 1 /\ upstream'[r] = "executed"
  BY <1>0 DEF Types, Refuse, IInv, AnswersInOrder
<1>5. /\ retried429' \in [Requests -> BOOLEAN]
      /\ \A d \in Requests : d # r => retried429'[d] = retried429[d]
  BY <1>0 DEF Types
<1>6. Types' BY <1>0, <1>2, <1>4, <1>5 DEF Types, Places
<1>7. SendsInOrder(r)'
  <2>1. SendsInOrder(r) /\ attempts[r] \in Nat BY <1>0 DEF IInv, Types
  <2>2. attempts[r] <= Retries(r) + 1 BY <2>1 DEF SendsInOrder
  <2>3. Retries(r)' \in {Retries(r), Retries(r) + 1} /\ Retries(r) \in Nat
    BY <1>0 DEF Types, Retries
  <2>4. attempts[r] <= Retries(r)' + 1 BY <2>1, <2>2, <2>3
  <2> QED BY <1>3, <2>4 DEF SendsInOrder
<1>8. AnswersInOrder(r)' BY <1>3, <1>4 DEF AnswersInOrder
<1>9. \A d \in Requests : d # r => Untouched(d)
  BY <1>0, <1>2, <1>4, <1>5 DEF Types, Untouched
<1> QED BY <1>2, <1>6, <1>7, <1>8, <1>9, RequestStep

\* An answer that says nothing about the cooldown leaves both times as they are.
LEMMA TimesKept ==
  ASSUME IInv, NEW r \in Requests, UNCHANGED <<resourceCooldown, notBefore>>
  PROVE  /\ resourceCooldown' \in Nat /\ resourceCooldown <= resourceCooldown'
         /\ notBefore[r] \in Nat /\ notBefore[r] <= resourceCooldown'
         /\ notBefore' = [notBefore EXCEPT ![r] = notBefore[r]]
BY DEF IInv, Types, SendsInOrder

\* A 429 never shortens the cooldown.
LEMMA TimesRecorded ==
  ASSUME IInv, NEW r \in Requests, NEW delay \in ResourceRetryAfters,
         RecordRateLimit(r, delay)
  PROVE  /\ resourceCooldown' \in Nat /\ resourceCooldown <= resourceCooldown'
         /\ delay \in Nat /\ delay <= resourceCooldown'
         /\ notBefore' = [notBefore EXCEPT ![r] = delay]
BY DEF IInv, Types, RecordRateLimit, Larger, Token!Larger

\* A success is reported for an attempt the API executed.
LEMMA SucceedStep ==
  ASSUME IInv, NEW r \in Requests, Succeed(r)
  PROVE  IInv'
<1> USE DEF Succeed, localVars, apiVars
<1>1. Succeeded \in Outcomes /\ Succeeded.kind = "ok" BY Results
<1>2. upstream' = upstream /\ upstream'[r] = "executed" OBVIOUS
<1> QED BY <1>1, <1>2, TimesKept, EndsSent

\* The first 401 is retried; the attempt was refused.
LEMMA RetryUnauthorizedStep ==
  ASSUME IInv, NEW r \in Requests, RetryUnauthorized(r)
  PROVE  IInv'
BY TimesKept, RefusedRetry DEF RetryUnauthorized

\* The first affordable 429 is retried, no earlier than the API asked.
LEMMA RetryRateLimitedStep ==
  ASSUME IInv, NEW r \in Requests, NEW delay \in ResourceRetryAfters,
         RetryRateLimited(r, delay)
  PROVE  IInv'
BY TimesRecorded, RefusedRetry DEF RetryRateLimited

\* Any other 429 ends the request; nothing was executed.
LEMMA FailRateLimitedStep ==
  ASSUME IInv, NEW r \in Requests, NEW delay \in ResourceRetryAfters,
         FailRateLimited(r, delay)
  PROVE  IInv'
<1> USE DEF FailRateLimited
<1>1. pc[r] = "sent" /\ upstream'[r] = "refused" /\ UNCHANGED commits
  BY DEF Refuse, IInv, Types
<1>2. AfterSend(r, 429) \in Outcomes /\ AfterSend(r, 429).kind = "failed" BY Results
<1>3. BudgetError \in Outcomes /\ BudgetError.kind = "failed" BY Results
<1>4. CASE Leave(r, AfterSend(r, 429)) /\ UNCHANGED retried429
  BY <1>1, <1>2, <1>4, TimesRecorded, EndsSent
<1>5. CASE /\ ~retried429[r] /\ Leave(r, BudgetError)
           /\ retried429' = [retried429 EXCEPT ![r] = TRUE]
  BY <1>1, <1>3, <1>5, TimesRecorded, EndsSent
<1> QED BY <1>4, <1>5

\* So does every other refusal.
LEMMA FailRefusedStep ==
  ASSUME IInv, NEW r \in Requests, FailRefused(r)
  PROVE  IInv'
<1> USE DEF FailRefused, localVars
<1>1. pc[r] = "sent" /\ upstream'[r] = "refused" /\ UNCHANGED commits
  BY DEF Refuse, IInv, Types
<1>2. PICK status \in {400, 401} : Leave(r, AfterSend(r, status)) OBVIOUS
<1>3. AfterSend(r, status) \in Outcomes /\ AfterSend(r, status).kind = "failed"
  BY Results
<1> QED BY <1>1, <1>2, <1>3, TimesKept, EndsSent

\* After a 5xx, no answer or a cancelled send, a write may have been executed.
LEMMA FailUncertainStep ==
  ASSUME IInv, NEW r \in Requests, FailUncertain(r)
  PROVE  IInv'
<1> USE DEF FailUncertain, localVars, apiVars
<1>1. PICK result : /\ Leave(r, result)
                    /\ \/ \E status \in {0, 500} : result = AfterSend(r, status)
                       \/ result = CancelledAfterSend(r)
  OBVIOUS
<1>2. /\ result \in Outcomes /\ result.kind = "failed"
      /\ r \in Mutations => result.outcomeUnknown
  BY <1>1, Results
<1> QED BY <1>1, <1>2, TimesKept, EndsSent

-----------------------------------------------------------------------------
(* Cancellation, the token's flights and time.                              *)

\* A cancellation touches the queue at most, never a slot or an answer.
LEMMA AbortStep ==
  ASSUME IInv, NEW r \in Requests, Abort(r)
  PROVE  IInv'
<1> USE DEF Abort, localVars, apiVars
<1>0. Types BY DEF IInv
<1>1. pc' = [pc EXCEPT ![r] = pc[r]] /\ pc[r] \in Places BY <1>0 DEF Types
<1>2. GateInOrder'
  <2>1. CASE Gate!IsWaiting(gate, r)
    <3>1. /\ G!WellFormed(gate')
          /\ \A d \in Requests : /\ Gate!IsHolding(gate', d) <=> Gate!IsHolding(gate, d)
                                 /\ Apart(gate, d) => Apart(gate', d)
      BY <2>1, WithdrawGate DEF IInv, GateInOrder
    <3>2. /\ pc[r] \in Inside => Gate!IsHolding(gate', r)
          /\ pc[r] \in {"idle", "done"} => Apart(gate', r)
      BY <3>1 DEF IInv, GateInOrder, SlotsMatchRequests, Apart
    <3> QED BY <1>1, <3>1, <3>2, SlotsKept
  <2>2. CASE ~Gate!IsWaiting(gate, r)
    <3>1. gate' = gate /\ G!WellFormed(gate') BY <2>2 DEF IInv, GateInOrder
    <3>2. /\ pc[r] \in Inside => Gate!IsHolding(gate', r)
          /\ pc[r] \in {"idle", "done"} => Apart(gate', r)
      BY <3>1 DEF IInv, GateInOrder, SlotsMatchRequests, Apart
    <3> QED BY <1>1, <3>1, <3>2, SlotsKept
  <2> QED BY <2>1, <2>2
<1>3. Types' BY <1>0 DEF Types
<1>4. SendsInOrder(r)' /\ AnswersInOrder(r)'
  BY DEF IInv, SendsInOrder, Retries, AnswersInOrder
<1>5. \A d \in Requests : d # r => Untouched(d) BY DEF Untouched
<1>6. resourceCooldown <= resourceCooldown' BY <1>0 DEF Types
<1> QED BY <1>2, <1>3, <1>4, <1>5, <1>6, RequestStep

\* Nothing the invariant speaks of changes.
LEMMA NothingMoves ==
  ASSUME IInv,
         UNCHANGED <<gate, resourceCooldown, pc, localVars, outcome, apiVars,
                     notBefore>>
  PROVE  IInv'
<1> USE DEF localVars, apiVars
<1>1. Types' BY DEF IInv, Types
<1>2. GateInOrder'
  BY DEF IInv, GateInOrder, SlotsMatchRequests, Gate!IsHolding, Gate!IsWaiting,
         G!WellFormed, G!WellTyped, G!Counted, G!Queued, G!Busy
<1>3. \A r \in Requests : SendsInOrder(r)' BY DEF IInv, SendsInOrder, Retries
<1>4. \A r \in Requests : AnswersInOrder(r)' BY DEF IInv, AnswersInOrder
<1> QED BY <1>1, <1>2, <1>3, <1>4 DEF IInv

\* Time passes for a request and for the shared cooldown alike.
LEMMA TickStep ==
  ASSUME IInv, Tick
  PROVE  IInv'
<1> USE DEF Tick, apiVars
<1>0. Types BY DEF IInv
<1>1. \A n \in Nat : Less1(n) \in Nat /\ Less1(n) <= n BY DEF Less1, Token!Less1
<1>2. \A m, n \in Nat : m <= n => Less1(m) <= Less1(n) BY DEF Less1, Token!Less1
<1>3. Less1(0) = 0 BY DEF Less1, Token!Less1
<1>4. Types'
  <2>1. MaxRetryDelay \in Nat BY TokenAssumption
  <2>2. sleepLeft' \in [Requests -> 0..MaxRetryDelay] BY <1>0, <1>1, <2>1 DEF Types
  <2>3. notBefore' \in [Requests -> Nat] /\ resourceCooldown' \in Nat
    BY <1>0, <1>1 DEF Types
  <2> QED BY <1>0, <2>2, <2>3 DEF Types
<1>5. GateInOrder'
  BY DEF IInv, GateInOrder, SlotsMatchRequests, Gate!IsHolding, Gate!IsWaiting,
         G!WellFormed, G!WellTyped, G!Counted, G!Queued, G!Busy
<1>6. ASSUME NEW r \in Requests PROVE SendsInOrder(r)'
  <2>1. SendsInOrder(r) /\ notBefore[r] \in Nat /\ resourceCooldown \in Nat
    BY <1>0 DEF IInv, Types
  <2>2. /\ notBefore'[r] = Less1(notBefore[r])
        /\ resourceCooldown' = Less1(resourceCooldown)
    OBVIOUS
  <2>3. notBefore'[r] <= resourceCooldown' BY <1>2, <2>1, <2>2 DEF SendsInOrder
  <2> QED BY <1>3, <2>1, <2>2, <2>3 DEF SendsInOrder, Retries
<1>7. \A r \in Requests : AnswersInOrder(r)' BY DEF IInv, AnswersInOrder
<1> QED BY <1>4, <1>5, <1>6, <1>7 DEF IInv

-----------------------------------------------------------------------------
(* The invariant is inductive.                                              *)

\* No request has begun, and the gate is empty.
LEMMA InitIInv == Init => IInv
<1> SUFFICES ASSUME Init PROVE IInv OBVIOUS
<1> USE DEF Init
<1>1. Types
  <2>1. Pending \in Outcomes BY Results
  <2>2. MaxRetryDelay \in Nat BY TokenAssumption
  <2> QED BY <2>1, <2>2 DEF Types, Places
<1>2. gate = G!EmptyGate BY SameGate DEF Gate!Init
<1>3. G!WellFormed(gate)
  BY <1>2, G!InitWellFormed DEF G!Init, G!LimitAssumption, G!MaxQueuedAssumption
<1>4. SlotsMatchRequests
  BY <1>2 DEF SlotsMatchRequests, Inside, Gate!IsHolding, Gate!IsWaiting, G!EmptyGate,
              G!GateState, Gate!Contains
<1>5. \A r \in Requests : SendsInOrder(r) BY DEF SendsInOrder, Retries
<1>6. \A r \in Requests : AnswersInOrder(r) BY Results DEF AnswersInOrder
<1> QED BY <1>1, <1>3, <1>4, <1>5, <1>6 DEF IInv, GateInOrder

\* Every step keeps the invariant.
LEMMA NextIInv == IInv /\ [Next]_vars => IInv'
<1> SUFFICES ASSUME IInv, [Next]_vars PROVE IInv' OBVIOUS
<1>1. ASSUME NEW r \in Requests, Begin(r) \/ Local(r) PROVE IInv'
  BY <1>1, BeginStep, TakeSlotStep, LeaveQueueStep, CheckCooldownStep, SleepSteps,
     TokenSteps, SendStep
     DEF Local
<1>2. ASSUME NEW r \in Requests, Answer(r) PROVE IInv'
  BY <1>2, SucceedStep, RetryUnauthorizedStep, FailRefusedStep, FailUncertainStep,
     RetryRateLimitedStep, FailRateLimitedStep
     DEF Answer
<1>3. ASSUME NEW r \in Requests, Execute(r) \/ Abort(r) PROVE IInv'
  BY <1>3, ExecuteStep, AbortStep
<1>4. ASSUME NEW f \in Flights, Flight(f) PROVE IInv'
  BY <1>4, NothingMoves DEF Flight
<1>5. CASE Tick BY <1>5, TickStep
<1>6. CASE UNCHANGED vars BY <1>6, NothingMoves DEF vars
<1> QED BY <1>1, <1>2, <1>3, <1>4, <1>5, <1>6 DEF Next

-----------------------------------------------------------------------------
(* What follows from the invariant.                                         *)

\* The inductive invariant holds in every reachable state.
THEOREM ClientInvariant == Spec => []IInv
<1>1. Init => IInv BY InitIInv
<1>2. IInv /\ [Next]_vars => IInv' BY NextIInv
<1> QED BY <1>1, <1>2, PTL DEF Spec

\* A request holds a slot exactly from acquire to its finally block: no failure,
\* retry or cancellation path keeps a slot or gives it back early.
THEOREM SlotsAreMatched == Spec => []SlotsMatchRequests
<1>1. IInv => SlotsMatchRequests BY DEF IInv, GateInOrder
<1> QED BY <1>1, ClientInvariant, PTL

\* At most three sends: one, one more for a 401 and one more for a 429.
THEOREM AttemptsAreBounded == Spec => []AttemptsBounded
<1>1. IInv => AttemptsBounded
  <2> SUFFICES ASSUME IInv, NEW r \in Requests PROVE attempts[r] <= 1 + Retries(r)
    BY DEF AttemptsBounded, Retries
  <2>1. attempts[r] \in Nat /\ Retries(r) \in Nat BY DEF IInv, Types, Retries
  <2> QED BY <2>1 DEF IInv, SendsInOrder
<1> QED BY <1>1, ClientInvariant, PTL

\* Only Send leads to "sent".
LEMMA SentBySend ==
  ASSUME IInv, Next, NEW r \in Requests, pc[r] # "sent", pc'[r] = "sent"
  PROVE  Send(r)
<1>0. pc \in [Requests -> Places] BY DEF IInv, Types
<1>1. ASSUME NEW q \in Requests, Begin(q) \/ Answer(q) PROVE FALSE
  <2>1. ASSUME NEW g, EnterLoop(q, g) PROVE FALSE
    BY <1>0, <2>1 DEF EnterLoop, Go
  <2>2. ASSUME NEW result, Leave(q, result) PROVE FALSE
    BY <1>0, <2>2 DEF Leave, Go
  <2> QED BY <1>1, <2>1, <2>2
          DEF Begin, Answer, Succeed, RetryUnauthorized, FailRefused, FailUncertain,
              RetryRateLimited, FailRateLimited
<1>2. ASSUME NEW q \in Requests, Local(q), ~Send(q) PROVE FALSE
  BY <1>0, <1>2 DEF Local, TakeSlot, LeaveQueue, CheckCooldown, WakeUp, CancelSleep,
     AskToken, ReceiveToken, GiveUpOnToken, Leave, Go
<1>3. ASSUME NEW q \in Requests, Execute(q) \/ Abort(q) PROVE FALSE
  BY <1>3 DEF Execute, Abort
<1>4. ASSUME NEW f \in Flights, Flight(f) PROVE FALSE BY <1>4 DEF Flight
<1>5. ASSUME Tick PROVE FALSE BY <1>5 DEF Tick
<1>6. ASSUME NEW q \in Requests, Send(q) PROVE q = r
  BY <1>0, <1>6 DEF Send, Go
<1> QED BY <1>1, <1>2, <1>3, <1>4, <1>5, <1>6 DEF Next

\* No request sends before the time is over that it was asked to wait, or that was
\* running when it started: waitForCooldown comes between every retry and its send,
\* and the cooldown it reads is never shortened by another answer.
THEOREM RetryAfterIsHonoured == Spec => RetryAfterHonoured
<1>1. IInv /\ [Next]_vars =>
        [\A r \in Requests : pc[r] # "sent" /\ pc'[r] = "sent" => notBefore[r] = 0]_vars
  <2>1. ASSUME IInv, Next, NEW r \in Requests, pc[r] # "sent", pc'[r] = "sent"
        PROVE  notBefore[r] = 0
    <3>1. Send(r) BY <2>1, SentBySend
    <3> QED BY <2>1, <3>1 DEF Send, IInv, SendsInOrder
  <2> QED BY <2>1
<1> QED BY <1>1, ClientInvariant, PTL DEF Spec, RetryAfterHonoured

-----------------------------------------------------------------------------
(* The client uses its gate and its token as they are meant to be used, so  *)
(* what is proved of them alone holds inside the client.                    *)

\* A step of the client is a step of its gate or leaves the gate alone: acquire for
\* a request apart from it, release and rejoin for a holder, cancel for any request.
LEMMA GateStep ==
  ASSUME IInv, [Next]_vars
  PROVE  [Gate!Next]_gate
<1> SUFFICES ASSUME gate' # gate PROVE Gate!Next BY DEF Gate!Next
<1>1. ASSUME NEW r \in Requests, pc[r] \in Inside, NEW result, Leave(r, result)
      PROVE  Gate!Release(r)
  BY <1>1 DEF Leave, Gate!Release, IInv, GateInOrder, SlotsMatchRequests
<1>2. ASSUME NEW r \in Requests, pc[r] \in Inside, EnterLoop(r, Gate!Released(gate, r))
      PROVE  Gate!Release(r) \/ Gate!Rejoin(r)
  <2>1. Gate!IsHolding(gate, r) BY <1>2 DEF IInv, GateInOrder, SlotsMatchRequests
  <2> QED BY <1>2, <2>1, RetryStep DEF Gate!Release, Gate!Rejoin
<1>3. ASSUME NEW r \in Requests, Begin(r) PROVE Gate!Acquire(r)
  <2>1. Apart(gate, r) /\ G!WellFormed(gate)
    BY <1>3 DEF Begin, IInv, GateInOrder, SlotsMatchRequests, Apart
  <2>2. gate' = Gate!Acquired(gate, r) BY <1>3, <2>1, EnterLoopStep DEF Begin
  <2> QED BY <2>1, <2>2 DEF Apart, Gate!Acquire
<1>4. ASSUME NEW r \in Requests, Local(r) PROVE Gate!Release(r)
  <2>1. CASE TakeSlot(r) \/ LeaveQueue(r) \/ WakeUp(r) \/ AskToken(r) \/ ReceiveToken(r)
             \/ Send(r)
    BY <2>1 DEF TakeSlot, LeaveQueue, WakeUp, AskToken, ReceiveToken, Send
  <2>2. CASE CheckCooldown(r) \/ CancelSleep(r) \/ GiveUpOnToken(r)
    BY <1>1, <2>2 DEF CheckCooldown, CancelSleep, GiveUpOnToken, Inside
  <2> QED BY <1>4, <2>1, <2>2 DEF Local
<1>5. ASSUME NEW r \in Requests, Answer(r) PROVE Gate!Release(r) \/ Gate!Rejoin(r)
  <2>1. pc[r] \in Inside
    BY <1>5 DEF Answer, Succeed, RetryUnauthorized, FailRefused, FailUncertain,
       RetryRateLimited, FailRateLimited, Refuse, Inside
  <2> QED BY <1>1, <1>2, <1>5, <2>1
          DEF Answer, Succeed, RetryUnauthorized, FailRefused, FailUncertain,
              RetryRateLimited, FailRateLimited
<1>6. ASSUME NEW r \in Requests, Execute(r) \/ Abort(r) PROVE Gate!Cancel(r)
  BY <1>6 DEF Execute, Abort, Gate!Cancel
<1>7. ASSUME Tick \/ \E f \in Flights : Flight(f) PROVE FALSE
  BY <1>7 DEF Tick, Flight
<1>8. ~UNCHANGED vars BY DEF vars
<1> QED BY <1>3, <1>4, <1>5, <1>6, <1>7, <1>8 DEF Next, Gate!Next

\* The client acquires for a request that neither holds nor waits, releases what it
\* holds, and withdraws who waits: it runs the gate as RequestGate specifies it.
THEOREM GateIsUsedAsMeant == Spec => Gate!Spec
<1>1. Init => Gate!Init BY DEF Init
<1>2. IInv /\ [Next]_vars => [Gate!Next]_gate BY GateStep
<1> QED BY <1>1, <1>2, ClientInvariant, PTL DEF Spec, Gate!Spec

\* So what is proved of the gate alone holds of the gate inside the client.
THEOREM GateStaysInOrder ==
  Spec => [](Gate!SlotsAccounted /\ Gate!QueueConsistent /\ Gate!WorkConserving)
<1>0. \A S : G!Cardinality(S) = Gate!Cardinality(S)
  BY DEF G!Cardinality, Gate!Cardinality
<1>1. IInv => G!WellFormed(gate) BY DEF IInv, GateInOrder
<1>2. G!WellFormed(gate) => Gate!SlotsAccounted
  BY <1>0 DEF G!WellFormed, G!WellTyped, G!Counted, Gate!SlotsAccounted
<1>3. G!WellFormed(gate) => Gate!QueueConsistent
  BY DEF G!WellFormed, G!Queued, Gate!QueueConsistent
<1>4. G!WellFormed(gate) => Gate!WorkConserving
  BY DEF G!WellFormed, G!Busy, Gate!WorkConserving
<1> QED BY <1>1, <1>2, <1>3, <1>4, ClientInvariant, PTL

-----------------------------------------------------------------------------
(* The client keeps the promise of WriteOutcome.                            *)

\* A step tells one caller that still waits, or lets the API execute one attempt,
\* or does neither.
LEMMA OneEventAtATime ==
  ASSUME IInv, Next
  PROVE  \/ UNCHANGED <<outcome, commits>>
         \/ \E r \in Requests : Execute(r)
         \/ \E r \in Requests : /\ pc[r] # "done" /\ UNCHANGED commits
                                /\ \E result : outcome' = [outcome EXCEPT ![r] = result]
<1> DEFINE Tells(r) == /\ pc[r] # "done" /\ UNCHANGED commits
                       /\ \E result : outcome' = [outcome EXCEPT ![r] = result]
<1>1. ASSUME NEW r, NEW result, Leave(r, result)
      PROVE  outcome' = [outcome EXCEPT ![r] = result]
  BY <1>1 DEF Leave, Tell
<1>2. ASSUME NEW r, NEW g, EnterLoop(r, g)
      PROVE  \/ outcome' = outcome
             \/ \E result : outcome' = [outcome EXCEPT ![r] = result]
  BY <1>2 DEF EnterLoop, Tell
<1>3. ASSUME NEW r \in Requests, Begin(r)
      PROVE  Tells(r) \/ UNCHANGED <<outcome, commits>>
  BY <1>2, <1>3 DEF Begin, apiVars
<1>4. ASSUME NEW r \in Requests, Local(r)
      PROVE  Tells(r) \/ UNCHANGED <<outcome, commits>>
  <2>1. CASE TakeSlot(r) \/ WakeUp(r) \/ AskToken(r) \/ ReceiveToken(r) \/ Send(r)
    BY <2>1 DEF TakeSlot, WakeUp, AskToken, ReceiveToken, Send, apiVars
  <2>2. CASE LeaveQueue(r) BY <2>2 DEF LeaveQueue, Tell, apiVars
  <2>3. CASE CheckCooldown(r) \/ CancelSleep(r) \/ GiveUpOnToken(r)
    BY <1>1, <2>3 DEF CheckCooldown, CancelSleep, GiveUpOnToken, apiVars
  <2> QED BY <1>4, <2>1, <2>2, <2>3 DEF Local
<1>5. ASSUME NEW r \in Requests, Answer(r)
      PROVE  Tells(r) \/ UNCHANGED <<outcome, commits>>
  <2>1. pc[r] = "sent" /\ UNCHANGED commits
    BY <1>5 DEF Answer, Succeed, RetryUnauthorized, FailRefused, FailUncertain,
       RetryRateLimited, FailRateLimited, Refuse, apiVars
  <2> QED BY <1>1, <1>2, <1>5, <2>1
          DEF Answer, Succeed, RetryUnauthorized, FailRefused, FailUncertain,
              RetryRateLimited, FailRateLimited
<1>6. ASSUME NEW r \in Requests, Abort(r) PROVE UNCHANGED <<outcome, commits>>
  BY <1>6 DEF Abort, apiVars
<1>7. ASSUME Tick \/ \E f \in Flights : Flight(f) PROVE UNCHANGED <<outcome, commits>>
  BY <1>7 DEF Tick, Flight, apiVars
<1> QED BY <1>3, <1>4, <1>5, <1>6, <1>7 DEF Next

\* What the promise sees of an outcome.
Shown(o) == CASE o.kind = "pending" -> "pending"
              [] o.kind = "ok" -> "ok"
              [] o.outcomeUnknown -> "unsure"
              [] OTHER -> "failed"

\* The state functions the promise is about.
Executions == [r \in Mutations |-> commits[r]]
Told == [r \in Mutations |-> Shown(outcome[r])]

\* Told "ok", a write has been executed; told "failed", it has not, and an attempt
\* that could still be executed belongs to a caller that waits or is unsure.
ToldTheTruth ==
  \A w \in Mutations :
    /\ Executions[w] \in 0..1
    /\ Told[w] \in {"pending", "ok", "unsure", "failed"}
    /\ Told[w] = "pending" <=> pc[w] # "done"
    /\ Told[w] = "ok" => Executions[w] = 1
    /\ Told[w] = "failed" => Executions[w] = 0
    /\ upstream[w] = "open" => /\ Executions[w] = 0
                               /\ Told[w] \in {"pending", "unsure"}

\* It follows from the invariant.
LEMMA TruthFollows == IInv => ToldTheTruth
<1> SUFFICES ASSUME IInv, NEW w \in Mutations
             PROVE  /\ commits[w] \in 0..1
                    /\ Shown(outcome[w]) \in {"pending", "ok", "unsure", "failed"}
                    /\ Shown(outcome[w]) = "pending" <=> pc[w] # "done"
                    /\ Shown(outcome[w]) = "ok" => commits[w] = 1
                    /\ Shown(outcome[w]) = "failed" => commits[w] = 0
                    /\ upstream[w] = "open" =>
                         /\ commits[w] = 0
                         /\ Shown(outcome[w]) \in {"pending", "unsure"}
  BY DEF ToldTheTruth, Executions, Told
<1>1. w \in Requests /\ AnswersInOrder(w) BY DEF IInv
<1>2. outcome[w] \in {Pending, Succeeded} \cup Failures
  BY <1>1 DEF IInv, Types, Outcomes
<1>3. CASE outcome[w] = Pending
  <2>1. outcome[w].kind = "pending" /\ Shown(outcome[w]) = "pending"
    BY <1>3 DEF Pending, Shown
  <2> QED BY <1>1, <2>1 DEF AnswersInOrder
<1>4. CASE outcome[w] = Succeeded
  <2>1. outcome[w].kind = "ok" /\ Shown(outcome[w]) = "ok"
    BY <1>4 DEF Succeeded, Pending, Shown
  <2> QED BY <1>1, <2>1 DEF AnswersInOrder
<1>5. CASE outcome[w] \in Failures /\ outcome[w].outcomeUnknown
  <2>1. outcome[w].kind = "failed" /\ Shown(outcome[w]) = "unsure"
    BY <1>5 DEF Failures, Shown
  <2> QED BY <1>1, <2>1 DEF AnswersInOrder
<1>6. CASE outcome[w] \in Failures /\ ~outcome[w].outcomeUnknown
  <2>1. outcome[w].kind = "failed" /\ Shown(outcome[w]) = "failed"
    BY <1>6 DEF Failures, Shown
  <2> QED BY <1>1, <1>6, <2>1 DEF AnswersInOrder
<1> QED BY <1>2, <1>3, <1>4, <1>5, <1>6

\* A step of the client is a step of the promise or leaves it alone.
LEMMA PromiseStep ==
  ASSUME IInv, ToldTheTruth, ToldTheTruth', [Next]_vars
  PROVE  [Promise!Next]_(Promise!vars)
<1>1. Promise!vars = <<Executions, Told>> BY DEF Promise!vars, Executions, Told, Shown
<1>2. (Promise!vars)' = <<Executions', Told'>>
  BY DEF Promise!vars, Executions, Told, Shown
<1>3. ASSUME NEW w \in Mutations, Executions[w] = 0, Told[w] \in {"pending", "unsure"},
             Executions' = [Executions EXCEPT ![w] = 1], Told' = Told
      PROVE  Promise!Execute(w)
  BY <1>3 DEF Promise!Execute, Executions, Told, Shown
<1>4. ASSUME NEW w \in Mutations, NEW result \in {"ok", "failed", "unsure"},
             Told[w] = "pending", result = "ok" => Executions[w] = 1,
             result = "failed" => Executions[w] = 0,
             Told' = [Told EXCEPT ![w] = result], Executions' = Executions
      PROVE  Promise!Tell(w, result)
  BY <1>4 DEF Promise!Tell, Executions, Told, Shown
<1>5. CASE UNCHANGED <<outcome, commits>>
  BY <1>1, <1>2, <1>5 DEF Executions, Told
<1>6. CASE \E r \in Requests : Execute(r)
  <2>1. PICK r \in Requests : Execute(r) BY <1>6
  <2>2. CASE r \notin Mutations
    <3>1. Executions' = Executions /\ Told' = Told
      BY <2>1, <2>2 DEF Execute, Executions, Told, IInv, Types
    <3> QED BY <1>1, <1>2, <3>1
  <2>3. CASE r \in Mutations
    <3>1. Executions[r] = 0 /\ Told[r] \in {"pending", "unsure"}
      BY <2>1, <2>3 DEF ToldTheTruth, Execute
    <3>2. Told' = Told BY <2>1 DEF Execute, Told
    <3>3. Executions' = [Executions EXCEPT ![r] = 1]
      <4>1. commits' = [commits EXCEPT ![r] = 1] /\ commits \in [Requests -> Nat]
        BY <2>1, <2>3, <3>1 DEF Execute, Executions, IInv, Types
      <4> QED BY <2>3, <4>1 DEF Executions
    <3>4. Promise!Execute(r) BY <1>3, <2>3, <3>1, <3>2, <3>3
    <3> QED BY <2>3, <3>4 DEF Promise!Next
  <2> QED BY <2>2, <2>3
<1>7. CASE \E r \in Requests : /\ pc[r] # "done" /\ UNCHANGED commits
                               /\ \E result : outcome' = [outcome EXCEPT ![r] = result]
  <2>1. PICK r \in Requests : /\ pc[r] # "done" /\ UNCHANGED commits
                              /\ \E result : outcome' = [outcome EXCEPT ![r] = result]
    BY <1>7
  <2>2. Executions' = Executions BY <2>1 DEF Executions
  <2>3. CASE r \notin Mutations
    <3>1. Told' = Told BY <2>1, <2>3 DEF Told, IInv, Types
    <3> QED BY <1>1, <1>2, <2>2, <3>1
  <2>4. CASE r \in Mutations
    <3>1. Told[r] = "pending" BY <2>1, <2>4 DEF ToldTheTruth
    <3>2. Told' = [Told EXCEPT ![r] = Told'[r]]
      BY <2>1, <2>4 DEF Told, IInv, Types
    <3>3. /\ Told'[r] \in {"pending", "ok", "unsure", "failed"}
          /\ Told'[r] = "ok" => Executions'[r] = 1
          /\ Told'[r] = "failed" => Executions'[r] = 0
      BY <2>4 DEF ToldTheTruth
    <3>4. CASE Told'[r] = "pending"
      <4>1. Told' = Told BY <3>1, <3>2, <3>4 DEF Told
      <4> QED BY <1>1, <1>2, <2>2, <4>1
    <3>5. CASE Told'[r] # "pending"
      <4>1. PICK result \in {"ok", "failed", "unsure"} : result = Told'[r]
        BY <3>3, <3>5
      <4>2. Promise!Tell(r, result) BY <1>4, <2>2, <2>4, <3>1, <3>2, <3>3, <4>1
      <4> QED BY <2>4, <4>2 DEF Promise!Next
    <3> QED BY <3>4, <3>5
  <2> QED BY <2>3, <2>4
<1>8. CASE UNCHANGED vars BY <1>5, <1>8 DEF vars, apiVars
<1> QED BY <1>5, <1>6, <1>7, <1>8, OneEventAtATime

\* Through every retry, timeout, lost connection and cancellation: a write is
\* executed at most once, "ok" means it was, and a failure not marked
\* outcomeUnknown means it was not and never will be.
THEOREM PromiseIsKept == Spec => KeepsPromise
<1>1. Init => Promise!Init
  BY DEF Init, Promise!Init, Pending
<1>2. IInv /\ ToldTheTruth /\ ToldTheTruth' /\ [Next]_vars =>
        [Promise!Next]_(Promise!vars)
  BY PromiseStep
<1> QED BY <1>1, <1>2, TruthFollows, ClientInvariant, PTL
        DEF Spec, KeepsPromise, Promise!Spec

\* What the promise amounts to in every state: no write has been executed twice, one
\* told "ok" has been executed, one told "failed" has not, and while an attempt may
\* still be executed its caller waits or has been told that the outcome is unknown.
THEOREM TruthIsTold == Spec => []ToldTheTruth
BY TruthFollows, ClientInvariant, PTL

\* An answer is final, and after a failure not marked outcomeUnknown no step of the
\* client or of the API executes the write: the caller may issue it again.
THEOREM FailuresAreSafeToRepeat ==
  Spec => [][\A w \in Mutations : Told[w] = "failed" => /\ Told'[w] = "failed"
                                                      /\ Executions'[w] = 0]_vars
<1> DEFINE Final == \A w \in Mutations : Told[w] = "failed" => /\ Told'[w] = "failed"
                                                              /\ Executions'[w] = 0
<1>1. ASSUME IInv, ToldTheTruth, ToldTheTruth', [Next]_vars PROVE Final
  <2>1. [Promise!Next]_(Promise!vars) BY <1>1, PromiseStep
  <2>2. CASE Promise!Next
    <3> SUFFICES ASSUME NEW w \in Mutations, Told[w] = "failed" PROVE Told'[w] = "failed"
      BY <1>1 DEF ToldTheTruth
    <3>1. PICK v \in Mutations : \/ Promise!Execute(v)
                               \/ \E result \in {"ok", "failed", "unsure"} : Promise!Tell(v, result)
      BY <2>2 DEF Promise!Next
    <3>2. CASE Promise!Execute(v)
      BY <3>2 DEF Promise!Execute, Told, Shown
    <3>3. CASE \E result \in {"ok", "failed", "unsure"} : Promise!Tell(v, result)
      BY <3>3 DEF Promise!Tell, Told, Shown
    <3> QED BY <3>1, <3>2, <3>3
  <2>3. CASE UNCHANGED Promise!vars
    BY <1>1, <2>3 DEF Promise!vars, Told, Shown, Executions, ToldTheTruth
  <2> QED BY <2>1, <2>2, <2>3
<1> QED BY <1>1, TruthFollows, ClientInvariant, PTL DEF Spec

-----------------------------------------------------------------------------
(* The client asks for its token as AccessToken lets it, so what is proved  *)
(* of the acquisition alone holds inside the client.                        *)

\* Every end of an attempt is done with its token, and only a cancellation sets a
\* signal: no step of the client does anything to the token that is not its own.
LEMMA TokenStep == [Next]_vars => [Token!Next]_(Token!vars)
<1> SUFFICES ASSUME [Next]_vars PROVE [Token!Next]_(Token!vars) OBVIOUS
<1> DEFINE Same == UNCHANGED <<tokenState, signal>>
<1>1. Same => UNCHANGED Token!vars
  BY DEF tokenState, Token!vars, Token!stateVars, Token!tokenVars, Token!flightVars,
         Token!callerVars, Token!sharedVars
<1>2. ASSUME NEW r \in Requests, Token!Finish(r), UNCHANGED signal PROVE Token!Next
  BY <1>2 DEF Token!Next, Token!NewCall
<1>3. ASSUME NEW r \in Requests, Token!Rejected(r), UNCHANGED signal PROVE Token!Next
  BY <1>3 DEF Token!Next
<1>4. ASSUME NEW r \in Requests, Begin(r) PROVE Same
  BY <1>4 DEF Begin
<1>5. ASSUME NEW r \in Requests, Local(r) PROVE Same \/ Token!Next
  <2>1. CASE TakeSlot(r) \/ LeaveQueue(r) \/ CheckCooldown(r) \/ WakeUp(r)
             \/ CancelSleep(r) \/ Send(r)
    BY <2>1 DEF TakeSlot, LeaveQueue, CheckCooldown, WakeUp, CancelSleep, Send
  <2>2. CASE AskToken(r) \/ ReceiveToken(r)
    BY <2>2 DEF AskToken, ReceiveToken, Token!Next
  <2>3. CASE GiveUpOnToken(r) BY <1>2, <2>3 DEF GiveUpOnToken
  <2> QED BY <1>5, <2>1, <2>2, <2>3 DEF Local
<1>6. ASSUME NEW r \in Requests, Answer(r) PROVE Token!Next
  BY <1>2, <1>3, <1>6
     DEF Answer, Succeed, RetryUnauthorized, FailRefused, FailUncertain,
         RetryRateLimited, FailRateLimited
<1>7. ASSUME NEW r \in Requests, Execute(r) PROVE Same
  BY <1>7 DEF Execute
<1>8. ASSUME NEW r \in Requests, Abort(r) PROVE Token!Next
  <2>1. UNCHANGED Token!stateVars
    BY <1>8 DEF Abort, tokenState, Token!stateVars, Token!tokenVars, Token!flightVars,
       Token!callerVars, Token!sharedVars
  <2> QED BY <1>8, <2>1 DEF Abort, Token!Next, Token!Cancel
<1>9. ASSUME NEW f \in Flights, Flight(f) PROVE Token!Next
  BY <1>9 DEF Flight, Token!Next
<1>10. ASSUME Tick PROVE Token!Next
  BY <1>10 DEF Tick, Token!Next
<1>11. CASE UNCHANGED vars BY <1>1, <1>11 DEF vars
<1> QED BY <1>1, <1>4, <1>5, <1>6, <1>7, <1>8, <1>9, <1>10, <1>11 DEF Next

\* The client runs the acquisition as AccessToken specifies it.
THEOREM TokenIsUsedAsMeant == Spec => Token!Spec
<1>1. Init => Token!Init BY DEF Init
<1> QED BY <1>1, TokenStep, PTL DEF Spec, Token!Spec

\* The two instances of the acquisition, in the client and in its proofs, agree.
LEMMA SameToken ==
  /\ Token!Init => T!Init
  /\ [Token!Next]_(Token!vars) => [T!Next]_(T!vars)
  /\ T!TypeOK => Token!TypeOK
  /\ T!WaitersCounted => Token!WaitersCounted
  /\ T!FetchWanted => Token!FetchWanted
  /\ T!CancelIsolation => Token!CancelIsolation
  /\ T!RefreshJustified => Token!RefreshJustified
<1> USE DEF Token!NoToken, T!NoToken, Token!Less1, T!Less1, Token!Larger, T!Larger,
            Token!Fetching, T!Fetching, Token!Ended, T!Ended,
            Token!tokenVars, T!tokenVars, Token!flightVars, T!flightVars,
            Token!callerVars, T!callerVars, Token!sharedVars, T!sharedVars
<1>1. Token!Init => T!Init BY DEF Token!Init, T!Init
<1>2. ASSUME NEW c PROVE Token!CallerStep(c) => T!CallerStep(c)
  BY DEF Token!CallerStep, T!CallerStep, Token!RefuseCancelled, T!RefuseCancelled,
         Token!UseCached, T!UseCached, Token!JoinFlight, T!JoinFlight,
         Token!StartFlight, T!StartFlight, Token!HasUsableToken, T!HasUsableToken,
         Token!Joinable, T!Joinable, Token!AfterCooldownCheck, T!AfterCooldownCheck,
         Token!NapFor, T!NapFor
<1>3. ASSUME NEW c PROVE Token!ReturnStep(c) => T!ReturnStep(c)
  BY DEF Token!ReturnStep, T!ReturnStep, Token!GetToken, T!GetToken,
         Token!GetFailure, T!GetFailure, Token!GiveUp, T!GiveUp,
         Token!LeaveFlight, T!LeaveFlight
<1>4. ASSUME NEW c PROVE Token!Rejected(c) => T!Rejected(c)
  BY DEF Token!Rejected, T!Rejected, Token!IsCurrent, T!IsCurrent
<1>5. ASSUME NEW c PROVE Token!Cancel(c) => T!Cancel(c)
  BY DEF Token!Cancel, T!Cancel, Token!stateVars, T!stateVars
<1>6. ASSUME NEW c PROVE Token!NewCall(c) => T!NewCall(c)
  BY DEF Token!NewCall, T!NewCall, Token!Finish, T!Finish
<1>7. ASSUME NEW f PROVE Token!FlightStep(f) => T!FlightStep(f)
  BY DEF Token!FlightStep, T!FlightStep, Token!Wake, T!Wake,
         Token!AbortFetch, T!AbortFetch, Token!Settle, T!Settle,
         Token!Forget, T!Forget, Token!EndFetch, T!EndFetch,
         Token!AfterCooldownCheck, T!AfterCooldownCheck, Token!NapFor, T!NapFor
<1>8. ASSUME NEW f PROVE Token!Reply(f) => T!Reply(f)
  BY DEF Token!Reply, T!Reply, Token!Install, T!Install, Token!FetchError,
         T!FetchError, Token!RateLimited, T!RateLimited, Token!EndFetch, T!EndFetch,
         Token!StillWanted, T!StillWanted,
         Token!AfterCooldownCheck, T!AfterCooldownCheck, Token!NapFor, T!NapFor
<1>9. Token!Elapse => T!Elapse BY DEF Token!Elapse, T!Elapse
<1>10. Token!Next => T!Next
  BY <1>2, <1>3, <1>4, <1>5, <1>6, <1>7, <1>8, <1>9 DEF Token!Next, T!Next
<1>11. UNCHANGED Token!vars => UNCHANGED T!vars
  BY DEF Token!vars, T!vars, Token!stateVars, T!stateVars
<1>12. T!TypeOK => Token!TypeOK BY DEF Token!TypeOK, T!TypeOK
<1>13. T!WaitersCounted => Token!WaitersCounted
  <2>1. \A S : T!Cardinality(S) = Token!Cardinality(S)
    BY DEF T!Cardinality, Token!Cardinality
  <2> QED BY <2>1 DEF Token!WaitersCounted, T!WaitersCounted, Token!WaitingFor,
                      T!WaitingFor
<1>14. T!FetchWanted => Token!FetchWanted BY DEF Token!FetchWanted, T!FetchWanted
<1>15. T!CancelIsolation => Token!CancelIsolation
  BY DEF Token!CancelIsolation, T!CancelIsolation
<1>16. T!RefreshJustified => Token!RefreshJustified
  BY DEF Token!RefreshJustified, T!RefreshJustified
<1> QED BY <1>1, <1>10, <1>11, <1>12, <1>13, <1>14, <1>15, <1>16

\* What AccessTokenProofs assumes of its constants holds of the client's.
LEMMA TokenConstants == T!FlightsAssumption /\ T!TimesAssumption
BY TokenAssumption DEF T!FlightsAssumption, T!TimesAssumption

\* So what is proved of the acquisition alone holds of it inside the client.
THEOREM TokenStaysInOrder ==
  Spec => [](/\ Token!TypeOK /\ Token!WaitersCounted /\ Token!FetchWanted
             /\ Token!CancelIsolation /\ Token!RefreshJustified)
<1>1. Init => T!Init BY SameToken DEF Init
<1>2. [Next]_vars => [T!Next]_(T!vars) BY TokenStep, SameToken
<1>3. T!Init => T!IInv BY T!InitIInv, TokenConstants
<1>4. T!IInv /\ [T!Next]_(T!vars) => T!IInv' BY T!NextIInv, TokenConstants
<1>5. T!IInv => T!TypeOK /\ T!CancelIsolation BY DEF T!IInv
<1>6. T!IInv => T!WaitersCounted
  BY DEF T!IInv, T!Counted, T!JoinedInUse, T!WaitersCounted
<1>7. T!IInv => T!FetchWanted
  BY DEF T!IInv, T!FlightsInOrder, T!Alive, T!Fetching, T!FetchWanted
<1>8. T!IInv => T!RefreshJustified
  BY DEF T!IInv, T!TypeOK, T!TokensInOrder, T!RefreshJustified, T!NoToken
<1> QED BY <1>1, <1>2, <1>3, <1>4, <1>5, <1>6, <1>7, <1>8, SameToken, PTL DEF Spec

\* Every variable of the client keeps its type; so no request sends four times.
THEOREM ClientTypes == Spec => []TypeOK
<1>1. IInv /\ Gate!TypeOK /\ Token!TypeOK => TypeOK
  <2> SUFFICES ASSUME IInv
               PROVE  attempts \in [Requests -> 0..3] /\ pc \in [Requests -> Places]
    BY DEF IInv, Types, TypeOK, Places, Inside
  <2>1. ASSUME NEW r \in Requests PROVE attempts[r] \in 0..3
    <3>1. /\ attempts[r] \in Nat /\ Retries(r) \in 0..2
          /\ attempts[r] <= Retries(r) + 1
      BY DEF IInv, Types, SendsInOrder, Retries
    <3> QED BY <3>1
  <2> QED BY <2>1 DEF IInv, Types
<1>2. IInv => Gate!TypeOK
  BY DEF IInv, GateInOrder, G!WellFormed, G!WellTyped, Gate!TypeOK
<1> QED BY <1>1, <1>2, ClientInvariant, TokenStaysInOrder, PTL
=============================================================================
