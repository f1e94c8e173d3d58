-------------------------- MODULE ServiceTitanClient --------------------------
(***************************************************************************)
(* The request loop of src/client.ts with the gate and the token           *)
(* acquisition it uses, and the ServiceTitan API it talks to.               *)
(*                                                                         *)
(* A request holds a slot of the gate from acquire to the finally block.   *)
(* Inside it waits out the shared cooldown, gets a token, and sends one    *)
(* attempt.  A first 401 and a first 429 give the slot back and start over; *)
(* every other failure ends the request.  Its signal can be aborted at any *)
(* moment.  Steps run from one await to the next, and steps of different    *)
(* requests interleave.                                                    *)
(***************************************************************************)
EXTENDS Integers, FiniteSets, SequencesExt

CONSTANTS Requests,
          Mutations,            \* the requests that write
          Limit, MaxQueued,     \* of the gate
          MaxRetryDelay,        \* maxRetryDelayMs
          ResourceRetryAfters,  \* Retry-After values of the API
          Flights, NoFlight, Lifetimes, ExpiryBuffer, RetryAfters, MaxGeneration

ASSUME MutationsAssumption == Mutations \subseteq Requests
ASSUME RetryAftersAssumption == ResourceRetryAfters \subseteq Nat
ASSUME GateAssumption == Limit \in Nat \ {0} /\ MaxQueued \in Nat \ {0}
ASSUME TokenAssumption ==
  /\ NoFlight \notin Flights
  /\ Lifetimes \subseteq Nat \ {0} /\ RetryAfters \subseteq Nat
  /\ ExpiryBuffer \in Nat /\ MaxRetryDelay \in Nat \ {0} /\ MaxGeneration \in Nat

VARIABLES
  gate,
  accessToken, tokenLeft, tokenGeneration, authCooldown, tokenFlight,
  phase, attempt, nap, aborted, settled, waiters, issued,
  at, joined, held, signal, spent,
  resourceCooldown,   \* time to resourceCooldownUntil
  pc,                 \* where the request stands
  sleepLeft,          \* time left of the request's own sleep
  attempts,           \* sends so far
  retried401, retried429,
  outcome,            \* what the caller of request() was told
  upstream,           \* what became of the latest attempt at the API
  commits,            \* how often the API executed the request
  notBefore           \* time the API asked this request to stay away

Gate  == INSTANCE RequestGate
Token == INSTANCE AccessToken WITH Callers <- Requests

tokenState == <<accessToken, tokenLeft, tokenGeneration, spent, phase, attempt, nap,
                aborted, settled, waiters, issued, at, joined, held, authCooldown,
                tokenFlight>>
localVars  == <<sleepLeft, attempts, retried401, retried429>>
apiVars    == <<upstream, commits>>
vars == <<gate, tokenState, signal, resourceCooldown, pc, localVars, outcome, apiVars,
          notBefore>>

Larger(a, b) == Token!Larger(a, b)
Less1(n) == Token!Less1(n)

-----------------------------------------------------------------------------
(* What a caller can be told.                                               *)

Pending == [kind |-> "pending", status |-> 0, cancelled |-> FALSE,
            outcomeUnknown |-> FALSE, retryable |-> FALSE]
Succeeded == [Pending EXCEPT !.kind = "ok", !.status = 200]

\* sanitizeError: a sent write that drew no answer, or a server error, may
\* have been executed.
Sanitized(status, cancelled, mutation) ==
  LET unknown == mutation /\ (status = 0 \/ status >= 500) IN
  [kind |-> "failed", status |-> status, cancelled |-> cancelled,
   outcomeUnknown |-> unknown,
   retryable |-> ~unknown /\ ~cancelled /\ (status = 429 \/ status >= 500 \/ status = 0)]

\* Errors raised while no attempt is under way carry mutation = false.
CancelledBeforeSend == Sanitized(0, TRUE, FALSE)
QueueFullError == [Sanitized(0, FALSE, FALSE) EXCEPT !.retryable = TRUE]
BudgetError == Sanitized(429, FALSE, FALSE)
AuthError == Sanitized(401, FALSE, FALSE)
AfterSend(r, status) == Sanitized(status, FALSE, r \in Mutations)
CancelledAfterSend(r) == Sanitized(0, TRUE, r \in Mutations)

Init ==
  /\ Gate!Init /\ Token!Init
  /\ resourceCooldown = 0
  /\ pc = [r \in Requests |-> "idle"]
  /\ sleepLeft = [r \in Requests |-> 0]
  /\ attempts = [r \in Requests |-> 0]
  /\ retried401 = [r \in Requests |-> FALSE]
  /\ retried429 = [r \in Requests |-> FALSE]
  /\ outcome = [r \in Requests |-> Pending]
  /\ upstream = [r \in Requests |-> "none"]
  /\ commits = [r \in Requests |-> 0]
  /\ notBefore = [r \in Requests |-> 0]

Go(r, place) == pc' = [pc EXCEPT ![r] = place]
Tell(r, result) == outcome' = [outcome EXCEPT ![r] = result]

\* The finally block and the outer catch: the slot goes back, the caller is told.
LeaveKeepingSlot(r, result) == gate' = gate /\ Go(r, "done") /\ Tell(r, result)
Leave(r, result) ==
  /\ gate' = Gate!Released(gate, r)
  /\ Go(r, "done")
  /\ Tell(r, result)

\* The head of the loop: throwIfAborted and acquire run in one turn, on the
\* gate g that the turn has left so far.
EnterLoop(r, g) ==
  LET entered == Gate!Acquired(g, r) IN
  \/ /\ signal[r]
     /\ gate' = g
     /\ Go(r, "done") /\ Tell(r, CancelledBeforeSend)
  \/ /\ ~signal[r] /\ Gate!IsHolding(entered, r)
     /\ gate' = entered
     /\ Go(r, "cooldown") /\ UNCHANGED outcome
  \/ /\ ~signal[r] /\ Gate!IsWaiting(entered, r)
     /\ gate' = entered
     /\ Go(r, "queued") /\ UNCHANGED outcome
  \/ /\ ~signal[r] /\ Gate!QueueFull(g)
     /\ gate' = entered
     /\ Go(r, "done") /\ Tell(r, QueueFullError)

-----------------------------------------------------------------------------
(* Up to the send.                                                          *)

\* A call that starts during a cooldown is bound by what is left of it.
Begin(r) ==
  /\ pc[r] = "idle"
  /\ EnterLoop(r, gate)
  /\ notBefore' = [notBefore EXCEPT ![r] = resourceCooldown]
  /\ UNCHANGED <<tokenState, signal, resourceCooldown, localVars, apiVars>>

\* The continuation of acquire, once another request has handed over its slot.
TakeSlot(r) ==
  /\ pc[r] = "queued" /\ Gate!IsHolding(gate, r)
  /\ Go(r, "cooldown")
  /\ UNCHANGED <<gate, tokenState, signal, resourceCooldown, localVars, outcome,
                 apiVars, notBefore>>

\* The abort listener took the waiter out of the queue; no slot was held.
LeaveQueue(r) ==
  /\ pc[r] = "queued" /\ ~Gate!IsHolding(gate, r) /\ ~Gate!IsWaiting(gate, r)
  /\ Go(r, "done") /\ Tell(r, CancelledBeforeSend)
  /\ UNCHANGED <<gate, tokenState, signal, resourceCooldown, localVars, apiVars,
                 notBefore>>

\* waitForCooldown("resource"), at its start and after each sleep.
CheckCooldown(r) ==
  /\ pc[r] = "cooldown"
  /\ \/ /\ signal[r]
        /\ Leave(r, CancelledBeforeSend) /\ UNCHANGED sleepLeft
     \/ /\ ~signal[r] /\ resourceCooldown = 0
        /\ Go(r, "token") /\ UNCHANGED <<gate, outcome, sleepLeft>>
     \/ /\ ~signal[r] /\ resourceCooldown > MaxRetryDelay
        /\ Leave(r, BudgetError) /\ UNCHANGED sleepLeft
     \/ /\ ~signal[r] /\ resourceCooldown \in 1..MaxRetryDelay
        /\ sleepLeft' = [sleepLeft EXCEPT ![r] = resourceCooldown]
        /\ Go(r, "sleep") /\ UNCHANGED <<gate, outcome>>
  /\ UNCHANGED <<tokenState, signal, resourceCooldown, attempts, retried401,
                 retried429, apiVars, notBefore>>

WakeUp(r) ==
  /\ pc[r] = "sleep" /\ sleepLeft[r] = 0
  /\ Go(r, "cooldown")
  /\ UNCHANGED <<gate, tokenState, signal, resourceCooldown, localVars, outcome,
                 apiVars, notBefore>>

CancelSleep(r) ==
  /\ pc[r] = "sleep" /\ signal[r]
  /\ Leave(r, CancelledBeforeSend)
  /\ sleepLeft' = [sleepLeft EXCEPT ![r] = 0]
  /\ UNCHANGED <<tokenState, signal, resourceCooldown, attempts, retried401,
                 retried429, apiVars, notBefore>>

AskToken(r) ==
  /\ pc[r] = "token"
  /\ Token!CallerStep(r)
  /\ Go(r, "awaitToken")
  /\ UNCHANGED <<gate, signal, resourceCooldown, localVars, outcome, apiVars,
                 notBefore>>

ReceiveToken(r) ==
  /\ pc[r] = "awaitToken"
  /\ Token!ReturnStep(r)
  /\ UNCHANGED <<gate, signal, resourceCooldown, pc, localVars, outcome, apiVars,
                 notBefore>>

\* The token came, the signal is checked once more, and the attempt goes out.
Send(r) ==
  /\ pc[r] = "awaitToken" /\ at[r] = "token" /\ ~signal[r]
  /\ attempts' = [attempts EXCEPT ![r] = @ + 1]
  /\ upstream' = [upstream EXCEPT ![r] = "open"]
  /\ Go(r, "sent")
  /\ UNCHANGED <<gate, tokenState, signal, resourceCooldown, sleepLeft,
                 retried401, retried429, outcome, commits, notBefore>>

\* No token, or a cancellation that arrived with it.
GiveUpOnToken(r) ==
  /\ pc[r] = "awaitToken"
  /\ \/ at[r] = "failed" /\ Leave(r, AuthError)
     \/ at[r] = "cancelled" /\ Leave(r, CancelledBeforeSend)
     \/ at[r] = "token" /\ signal[r] /\ Leave(r, CancelledBeforeSend)
  /\ Token!Finish(r)
  /\ UNCHANGED <<signal, resourceCooldown, localVars, apiVars, notBefore>>

-----------------------------------------------------------------------------
(* The API.  It executes an attempt at most once, at any time after it was  *)
(* sent, even after the client has stopped waiting; it answers 401, 429 or  *)
(* another 4xx only to an attempt it did not and will not execute.          *)

Execute(r) ==
  /\ upstream[r] = "open"
  /\ upstream' = [upstream EXCEPT ![r] = "executed"]
  /\ commits' = [commits EXCEPT ![r] = @ + 1]
  /\ UNCHANGED <<gate, tokenState, signal, resourceCooldown, pc, localVars,
                 outcome, notBefore>>

Refuse(r) ==
  /\ pc[r] = "sent" /\ upstream[r] = "open"
  /\ upstream' = [upstream EXCEPT ![r] = "refused"]
  /\ UNCHANGED commits

-----------------------------------------------------------------------------
(* The answers.                                                             *)

Succeed(r) ==
  /\ pc[r] = "sent" /\ upstream[r] = "executed"
  /\ Leave(r, Succeeded)
  /\ Token!Finish(r)
  /\ UNCHANGED <<signal, resourceCooldown, localVars, apiVars, notBefore>>

RetryEveryUnauthorized(r) ==
  /\ Refuse(r)
  /\ retried401' = [retried401 EXCEPT ![r] = TRUE]
  /\ Token!Rejected(r)
  /\ EnterLoop(r, Gate!Released(gate, r))
  /\ UNCHANGED <<signal, resourceCooldown, sleepLeft, attempts, retried429, notBefore>>

\* The first 401 drops the token it used, unless a newer one is cached.
RetryUnauthorized(r) ==
  /\ ~retried401[r]
  /\ Refuse(r)
  /\ retried401' = [retried401 EXCEPT ![r] = TRUE]
  /\ Token!Rejected(r)
  /\ EnterLoop(r, Gate!Released(gate, r))
  /\ UNCHANGED <<signal, resourceCooldown, sleepLeft, attempts, retried429, notBefore>>

\* A 429 is recorded for every request.  The first one is retried when the
\* delay is within the budget.
RecordLatestRateLimit(r, delay) ==
  /\ resourceCooldown' = delay
  /\ notBefore' = [notBefore EXCEPT ![r] = delay]
RecordRateLimit(r, delay) ==
  /\ resourceCooldown' = Larger(resourceCooldown, delay)
  /\ notBefore' = [notBefore EXCEPT ![r] = delay]

RetryRateLimited(r, delay) ==
  /\ ~retried429[r] /\ delay <= MaxRetryDelay
  /\ Refuse(r)
  /\ RecordRateLimit(r, delay)
  /\ retried429' = [retried429 EXCEPT ![r] = TRUE]
  /\ Token!Finish(r)
  /\ EnterLoop(r, Gate!Released(gate, r))
  /\ UNCHANGED <<signal, sleepLeft, attempts, retried401>>

FailRateLimited(r, delay) ==
  /\ Refuse(r)
  /\ RecordRateLimit(r, delay)
  /\ \/ retried429[r] /\ Leave(r, AfterSend(r, 429)) /\ UNCHANGED retried429
     \/ /\ ~retried429[r] /\ delay > MaxRetryDelay
        /\ Leave(r, BudgetError)
        /\ retried429' = [retried429 EXCEPT ![r] = TRUE]
  /\ Token!Finish(r)
  /\ UNCHANGED <<signal, sleepLeft, attempts, retried401>>

\* Any other refusal, a second 401 included: nothing was executed.
FailRefused(r) ==
  /\ Refuse(r)
  /\ \E status \in {400, 401} :
       /\ status = 401 => retried401[r]
       /\ Leave(r, AfterSend(r, status))
  /\ Token!Finish(r)
  /\ UNCHANGED <<signal, resourceCooldown, localVars, notBefore>>

\* A 5xx, a timeout, a lost connection, a cancelled send.
RetryUncertain(r) ==
  /\ pc[r] = "sent" /\ ~retried429[r]
  /\ retried429' = [retried429 EXCEPT ![r] = TRUE]
  /\ Token!Finish(r)
  /\ EnterLoop(r, Gate!Released(gate, r))
  /\ UNCHANGED <<signal, sleepLeft, attempts, retried401, resourceCooldown,
                 apiVars, notBefore>>
FailUncertain(r) ==
  /\ pc[r] = "sent"
  /\ \/ \E status \in {0, 500} : Leave(r, AfterSend(r, status))
     \/ signal[r] /\ Leave(r, CancelledAfterSend(r))
  /\ Token!Finish(r)
  /\ UNCHANGED <<signal, resourceCooldown, localVars, apiVars, notBefore>>

Answer(r) ==
  \/ Succeed(r) \/ RetryUnauthorized(r) \/ FailRefused(r) \/ FailUncertain(r)
  \/ \E delay \in ResourceRetryAfters : RetryRateLimited(r, delay) \/ FailRateLimited(r, delay)

-----------------------------------------------------------------------------
(* Cancellation runs the gate's listener in the same turn; the other awaits *)
(* notice it in a step of their own.                                        *)
Abort(r) ==
  /\ ~signal[r] /\ pc[r] # "done"
  /\ signal' = [signal EXCEPT ![r] = TRUE]
  /\ gate' = IF Gate!IsWaiting(gate, r) THEN Gate!Withdrawn(gate, r) ELSE gate
  /\ UNCHANGED <<tokenState, resourceCooldown, pc, localVars, outcome, apiVars,
                 notBefore>>

Flight(f) ==
  /\ Token!FlightStep(f) \/ Token!Reply(f)
  /\ UNCHANGED <<gate, signal, resourceCooldown, pc, localVars, outcome, apiVars,
                 notBefore>>

Tick ==
  /\ Token!Elapse
  /\ resourceCooldown' = Less1(resourceCooldown)
  /\ sleepLeft' = [r \in Requests |-> Less1(sleepLeft[r])]
  /\ notBefore' = [r \in Requests |-> Less1(notBefore[r])]
  /\ UNCHANGED <<gate, signal, pc, attempts, retried401, retried429, outcome, apiVars>>

Local(r) ==
  \/ TakeSlot(r) \/ LeaveQueue(r) \/ CheckCooldown(r) \/ WakeUp(r)
  \/ CancelSleep(r) \/ AskToken(r) \/ ReceiveToken(r) \/ Send(r)
  \/ GiveUpOnToken(r)

Next ==
  \/ \E r \in Requests : Begin(r) \/ Local(r) \/ Answer(r) \/ Execute(r) \/ Abort(r)
  \/ \E f \in Flights : Flight(f)
  \/ Tick

\* Continuations run, timers fire, and both HTTP clients have timeouts.
Fairness ==
  /\ WF_vars(Tick)
  /\ \A f \in Flights : WF_vars(Flight(f))
  /\ \A r \in Requests : WF_vars(Local(r)) /\ WF_vars(Answer(r))

Spec == Init /\ [][Next]_vars /\ Fairness

-----------------------------------------------------------------------------
TypeOK ==
  /\ Gate!TypeOK /\ Token!TypeOK
  /\ resourceCooldown \in Nat
  /\ pc \in [Requests -> {"idle", "queued", "cooldown", "sleep", "token",
                          "awaitToken", "sent", "done"}]
  /\ sleepLeft \in [Requests -> 0..MaxRetryDelay]
  /\ attempts \in [Requests -> 0..3]
  /\ retried401 \in [Requests -> BOOLEAN] /\ retried429 \in [Requests -> BOOLEAN]
  /\ upstream \in [Requests -> {"none", "open", "executed", "refused"}]
  /\ commits \in [Requests -> Nat]
  /\ notBefore \in [Requests -> Nat]

Inside == {"cooldown", "sleep", "token", "awaitToken", "sent"}

(* A slot is held exactly while a request is between acquire and its       *)
(* finally block, the grant it has not yet noticed included.  No failure,  *)
(* cancellation or retry path keeps a slot, and none gives one back early. *)
SlotsMatchRequests ==
  /\ \A r \in Requests : pc[r] \in Inside => Gate!IsHolding(gate, r)
  /\ \A r \in Requests : pc[r] \in {"idle", "done"} =>
       ~Gate!IsHolding(gate, r) /\ ~Gate!IsWaiting(gate, r)

(* The bounds of the retry loop: one send, one more for a 401 and one more *)
(* for a 429, in whatever order they come.                                 *)
AttemptsBounded ==
  \A r \in Requests :
    attempts[r] <= 1 + (IF retried401[r] THEN 1 ELSE 0) + (IF retried429[r] THEN 1 ELSE 0)

(* Neither a request that was told to retry later, nor one that starts     *)
(* while a Retry-After is running, sends before that time is over.         *)
RetryAfterHonoured ==
  [][\A r \in Requests : pc[r] # "sent" /\ pc'[r] = "sent" => notBefore[r] = 0]_vars

(* Every request that starts ends, whatever the gate, the token endpoint   *)
(* and the API do: nobody waits for ever on a slot, a token or a cooldown. *)
EveryRequestEnds == \A r \in Requests : pc[r] # "idle" ~> pc[r] = "done"

(* Seen from a caller of a write, the client keeps the promise of          *)
(* WriteOutcome: a failure not marked outcomeUnknown is one the API did    *)
(* not and will not execute.                                               *)
Promise == INSTANCE WriteOutcome
  WITH Writes <- Mutations,
       executions <- [r \in Mutations |-> commits[r]],
       told <- [r \in Mutations |->
                  CASE outcome[r].kind = "pending" -> "pending"
                    [] outcome[r].kind = "ok" -> "ok"
                    [] outcome[r].outcomeUnknown -> "unsure"
                    [] OTHER -> "failed"]
KeepsPromise == Promise!Spec
=============================================================================
