------------------------------ MODULE ToolCalls ------------------------------
(***************************************************************************)
(* The handler ToolRegistry.wrapTool puts around every tool (registry.ts),  *)
(* with the tool's answer as utils.ts delivers it and the audit entry.      *)
(*                                                                         *)
(* A tool's own handler makes one request through the ServiceTitan client, *)
(* which keeps the promise of WriteOutcome, and hands the result or the    *)
(* error to toolResult or toolError.  What the host is told, and what the   *)
(* audit log says, must keep the same promise.                              *)
(***************************************************************************)
EXTENDS Naturals, FiniteSets

CONSTANTS Reads, WriteCalls, Deletes,  \* calls, by the operation of their tool
          MaxCalls                     \* maxConcurrentToolCalls

Mutations == WriteCalls \cup Deletes
Calls == Reads \cup Mutations

ASSUME OperationsAssumption ==
  Reads \cap Mutations = {} /\ WriteCalls \cap Deletes = {}
ASSUME MaxCallsAssumption == MaxCalls \in Nat \ {0}

VARIABLES
  config,       \* readonlyMode, experimentalWrites, confirmWrites
  activeCalls,
  pc,           \* where a call stands
  signal,       \* cancelled by the host or by its deadline
  consent,      \* what the call came with: an allowed caller, a confirmation
  executions,   \* how often the API executed a mutation
  clientTold,   \* what the client told the tool's handler
  response,     \* what the host is told
  audit         \* the audit entry of a call

clientVars == <<executions, clientTold>>
vars == <<config, activeCalls, pc, signal, consent, clientVars, response, audit>>

Client == INSTANCE WriteOutcome WITH Writes <- Mutations, told <- clientTold

Silent == [kind |-> "none", mutationCompleted |-> FALSE, outcomeUnknown |-> FALSE]
NoEntry == [logged |-> FALSE, success |-> FALSE, outcomeUnknown |-> FALSE]

\* A policy that allows writes without experimentalWrites fails at start.
Init ==
  /\ config \in [readonly : BOOLEAN, experimental : BOOLEAN, confirmWrites : BOOLEAN]
  /\ config.readonly \/ config.experimental
  /\ activeCalls = 0
  /\ pc = [c \in Calls |-> "idle"]
  /\ signal = [c \in Calls |-> FALSE]
  /\ consent = [c \in Calls |-> [allowed |-> FALSE, confirmed |-> FALSE]]
  /\ Client!Init
  /\ response = [c \in Calls |-> Silent]
  /\ audit = [c \in Calls |-> NoEntry]

-----------------------------------------------------------------------------
(* Admission.                                                               *)

BusyPastTheLimit == activeCalls > MaxCalls
Busy == activeCalls >= MaxCalls

\* The checks of executeHandler before the handler runs.
AdmittedByWritesOnly(c, asked) ==
  /\ asked.allowed
  /\ c \in Mutations => ~config.readonly /\ config.experimental
  /\ c \in WriteCalls /\ config.confirmWrites => asked.confirmed
Admitted(c, asked) ==
  /\ asked.allowed
  /\ c \in Mutations => ~config.readonly /\ config.experimental
  /\ c \in WriteCalls /\ config.confirmWrites => asked.confirmed
  /\ c \in Deletes => asked.confirmed

\* In readonly mode mutations are not registered.
Registered(c) == c \in Mutations => ~config.readonly

RefusedAnswer(c) == response' = [response EXCEPT ![c] = [Silent EXCEPT !.kind = "refused"]]

\* Cancelled before it began, or all places taken.
TurnAway(c) ==
  /\ pc[c] = "idle" /\ Registered(c)
  /\ signal[c] \/ Busy
  /\ pc' = [pc EXCEPT ![c] = "done"]
  /\ RefusedAnswer(c)
  /\ UNCHANGED <<config, activeCalls, signal, consent, clientVars, audit>>

\* A call that will be refused takes a place too, for a turn or two.
Enter(c, asked) ==
  /\ pc[c] = "idle" /\ Registered(c)
  /\ ~signal[c] /\ ~Busy
  /\ activeCalls' = activeCalls + 1
  /\ pc' = [pc EXCEPT ![c] = IF Admitted(c, asked) THEN "handler" ELSE "refusing"]
  /\ consent' = [consent EXCEPT ![c] = asked]
  /\ UNCHANGED <<config, signal, clientVars, response, audit>>

-----------------------------------------------------------------------------
(* The tool's handler.                                                      *)

\* The client's request, for as long as the handler waits for it and, when
\* the outcome is unknown, after.
ApiExecutes(c) ==
  /\ c \in Mutations /\ pc[c] # "idle"
  /\ pc[c] = "handler" \/ clientTold[c] = "unsure"
  /\ Client!Execute(c)
  /\ UNCHANGED <<config, activeCalls, pc, signal, consent, response, audit>>

\* A cancelled request ends as failed before it is sent, and as unsure after.
ClientAnswers(c, result) ==
  /\ c \in Mutations /\ pc[c] = "handler"
  /\ Client!Tell(c, result)
  /\ UNCHANGED <<config, activeCalls, pc, signal, consent, response, audit>>

\* toolResult: inline, stored behind a handle, or not deliverable at all.
\* toolError: an unknown outcome keeps its flag within any budget.
DeliveredForReads(c, result, fits) ==
  IF result = "ok" /\ fits
  THEN [Silent EXCEPT !.kind = "ok"]
  ELSE [Silent EXCEPT !.kind = "error", !.outcomeUnknown = (result = "unsure")]
Delivered(c, result, fits) ==
  IF result = "ok" /\ fits
  THEN [Silent EXCEPT !.kind = "ok"]
  ELSE [kind |-> "error",
        mutationCompleted |-> result = "ok" /\ c \in Mutations,
        outcomeUnknown |-> result = "unsure"]

\* auditResult: success is that of the mutation, not that of its delivery.
EntryByResponse(answer) ==
  [logged |-> TRUE, success |-> answer.kind = "ok",
   outcomeUnknown |-> answer.outcomeUnknown]
Entry(answer) ==
  [logged |-> TRUE, success |-> answer.kind = "ok" \/ answer.mutationCompleted,
   outcomeUnknown |-> answer.outcomeUnknown]

\* The finally block.
LeaveForgetting(c) == pc' = [pc EXCEPT ![c] = "done"] /\ activeCalls' = activeCalls
Leave(c) == pc' = [pc EXCEPT ![c] = "done"] /\ activeCalls' = activeCalls - 1

\* Refused, or the preview of a delete: no handler, no audit entry.
Refuse(c) ==
  /\ pc[c] = "refusing"
  /\ RefusedAnswer(c)
  /\ Leave(c)
  /\ UNCHANGED <<config, signal, consent, clientVars, audit>>

\* The handler has its answer.  A sink that fails loses the entry and nothing
\* else.  A handler that throws, before its request or on its error, is here too.
Return(c, result, fits, sinkWorks) ==
  LET answer == Delivered(c, result, fits) IN
  /\ pc[c] = "handler"
  /\ response' = [response EXCEPT ![c] = answer]
  /\ audit' = [audit EXCEPT ![c] = IF c \in Mutations /\ sinkWorks THEN Entry(answer) ELSE @]
  /\ Leave(c)
  /\ UNCHANGED <<config, signal, consent, clientVars>>

ReturnMutation(c, fits, sinkWorks) ==
  /\ c \in Mutations /\ clientTold[c] # "pending"
  /\ Return(c, clientTold[c], fits, sinkWorks)

ReturnRead(c, result, fits) ==
  /\ c \in Reads
  /\ Return(c, result, fits, TRUE)

\* The host cancels, its transport closes, or the deadline passes.
Abort(c) ==
  /\ ~signal[c] /\ pc[c] # "done"
  /\ signal' = [signal EXCEPT ![c] = TRUE]
  /\ UNCHANGED <<config, activeCalls, pc, consent, clientVars, response, audit>>

Next ==
  \E c \in Calls :
    \/ TurnAway(c) \/ Refuse(c)
    \/ \E asked \in [allowed : BOOLEAN, confirmed : BOOLEAN] : Enter(c, asked)
    \/ ApiExecutes(c)
    \/ \E result \in {"ok", "failed", "unsure"} : ClientAnswers(c, result)
    \/ \E fits, sinkWorks \in BOOLEAN : ReturnMutation(c, fits, sinkWorks)
    \/ \E result \in {"ok", "failed"}, fits \in BOOLEAN : ReturnRead(c, result, fits)
    \/ Abort(c)

Spec == Init /\ [][Next]_vars

-----------------------------------------------------------------------------
TypeOK ==
  /\ config \in [readonly : BOOLEAN, experimental : BOOLEAN, confirmWrites : BOOLEAN]
  /\ activeCalls \in 0..MaxCalls
  /\ pc \in [Calls -> {"idle", "refusing", "handler", "done"}]
  /\ signal \in [Calls -> BOOLEAN]
  /\ consent \in [Calls -> [allowed : BOOLEAN, confirmed : BOOLEAN]]
  /\ Client!TypeOK
  /\ response \in [Calls -> [kind : {"none", "refused", "ok", "error"},
                             mutationCompleted : BOOLEAN, outcomeUnknown : BOOLEAN]]
  /\ audit \in [Calls -> [logged : BOOLEAN, success : BOOLEAN, outcomeUnknown : BOOLEAN]]

(* The busy counter is the number of calls inside the wrapper: refusals,    *)
(* failures and cancellations neither use up nor invent places.            *)
CallsCounted == activeCalls = Cardinality({c \in Calls : pc[c] \in {"refusing", "handler"}})

(* Nothing is executed upstream without an allowed caller, a configuration *)
(* that permits mutations and the confirmation the operation asks for,     *)
(* late executions of calls that were given up included.                   *)
NothingWithoutConsent ==
  \A c \in Mutations : executions[c] > 0 =>
    /\ consent[c].allowed /\ ~config.readonly /\ config.experimental
    /\ (c \in Deletes \/ config.confirmWrites) => consent[c].confirmed

(* What the host is told keeps the client's promise: an answer without a   *)
(* flag is never given for a mutation that was, or may yet be, executed,   *)
(* whether or not its result could be delivered.                           *)
Meaning(success, unknown) ==
  IF success THEN "ok" ELSE IF unknown THEN "unsure" ELSE "failed"

HostTold(c) ==
  IF pc[c] # "done" THEN "pending"
  ELSE Meaning(response[c].kind = "ok" \/ response[c].mutationCompleted,
               response[c].outcomeUnknown)
HostPromise == INSTANCE WriteOutcome
  WITH Writes <- Mutations, told <- [c \in Mutations |-> HostTold(c)]
HostKeepsPromise == HostPromise!Spec

(* The audit log keeps it too: success means executed, failure without     *)
(* outcomeUnknown means not executed.  A call without an entry says        *)
(* nothing.                                                                *)
AuditTold(c) ==
  IF ~audit[c].logged THEN "pending" ELSE Meaning(audit[c].success, audit[c].outcomeUnknown)
AuditTruthful ==
  \A c \in Mutations : /\ AuditTold(c) = "ok" => executions[c] = 1
                       /\ AuditTold(c) = "failed" => executions[c] = 0
=============================================================================
