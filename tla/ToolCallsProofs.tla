--------------------------- MODULE ToolCallsProofs ---------------------------
(***************************************************************************)
(* For any calls and any limit: nothing is executed without consent, the   *)
(* host and the audit log are told the truth, and the busy counter is      *)
(* exact.  The argument follows one mutation at a time through its stages. *)
(***************************************************************************)
EXTENDS ToolCalls, FiniteSetTheorems, TLAPS

Askings == [allowed : BOOLEAN, confirmed : BOOLEAN]
Answers == [kind : {"none", "refused", "ok", "error"},
            mutationCompleted : BOOLEAN, outcomeUnknown : BOOLEAN]
Entries == [logged : BOOLEAN, success : BOOLEAN, outcomeUnknown : BOOLEAN]

Typed ==
  /\ config \in [readonly : BOOLEAN, experimental : BOOLEAN, confirmWrites : BOOLEAN]
  /\ pc \in [Calls -> {"idle", "refusing", "handler", "done"}]
  /\ signal \in [Calls -> BOOLEAN]
  /\ consent \in [Calls -> Askings]
  /\ executions \in [Mutations -> 0..1]
  /\ clientTold \in [Mutations -> {"pending", "ok", "failed", "unsure"}]
  /\ response \in [Calls -> Answers]
  /\ audit \in [Calls -> Entries]

\* The calls inside the wrapper, and their count.
Inside == {c \in Calls : pc[c] \in {"refusing", "handler"}}
Counted ==
  /\ IsFiniteSet(Inside) /\ activeCalls = Cardinality(Inside)
  /\ activeCalls \in 0..MaxCalls

\* What the client told is true, and it is told only for admitted calls.
ClientTrue(c) ==
  /\ clientTold[c] = "ok" => executions[c] = 1
  /\ clientTold[c] = "failed" => executions[c] = 0
  /\ pc[c] \in {"idle", "refusing"} => clientTold[c] = "pending" /\ executions[c] = 0
  /\ pc[c] = "handler" \/ clientTold[c] # "pending" \/ executions[c] # 0
       => Admitted(c, consent[c])

\* What host and log say of a call that is over is what the client told; a call
\* that never reached its handler failed.
Retold(c) ==
  /\ pc[c] # "done" => AuditTold(c) = "pending"
  /\ pc[c] = "done" /\ clientTold[c] = "pending" =>
       executions[c] = 0 /\ HostTold(c) = "failed" /\ AuditTold(c) = "pending"
  /\ pc[c] = "done" /\ clientTold[c] # "pending" =>
       HostTold(c) = clientTold[c] /\ AuditTold(c) \in {"pending", clientTold[c]}

Truth == \A c \in Mutations : ClientTrue(c) /\ Retold(c)

Inv == Typed /\ Truth

-----------------------------------------------------------------------------
LEMMA InitInv == Init => Inv
<1> SUFFICES ASSUME Init PROVE Inv
  OBVIOUS
<1>1. Typed
  BY DEF Init, Client!Init, Typed, Askings, Answers, Entries, Silent, NoEntry, Mutations, Calls
<1>2. ASSUME NEW c \in Mutations PROVE ClientTrue(c) /\ Retold(c)
  BY <1>2 DEF Init, Client!Init, ClientTrue, Retold, AuditTold, Meaning, NoEntry, Mutations, Calls
<1> QED BY <1>1, <1>2 DEF Inv, Truth

(* What the answer and the entry say of the client's result, for any budget. *)
LEMMA DeliveryTruthful ==
  ASSUME NEW c \in Mutations, NEW result \in {"ok", "failed", "unsure"}, NEW fits \in BOOLEAN
  PROVE  LET answer == Delivered(c, result, fits)
             entry == Entry(answer) IN
         /\ answer \in Answers /\ entry \in Entries
         /\ answer.kind = "ok" \/ answer.mutationCompleted <=> result = "ok"
         /\ answer.outcomeUnknown <=> result = "unsure"
         /\ entry.logged /\ entry.success = (result = "ok")
         /\ entry.outcomeUnknown = (result = "unsure")
BY DEF Delivered, Entry, Silent, Answers, Entries

LEMMA NextInv == Inv /\ [Next]_vars => Inv'
<1> SUFFICES ASSUME Inv, [Next]_vars PROVE Inv'
  OBVIOUS
<1> USE DEF Inv
<1> Mutations \subseteq Calls
  BY DEF Calls
<1>1. ASSUME NEW c \in Calls, TurnAway(c) PROVE Inv'
  <2>1. Typed'
    BY <1>1 DEF TurnAway, RefusedAnswer, Typed, Silent, Answers, clientVars
  <2>2. ASSUME NEW d \in Mutations PROVE ClientTrue(d)' /\ Retold(d)'
    <3>1. CASE d = c
      BY <1>1, <2>2, <3>1 DEF TurnAway, RefusedAnswer, Typed, Truth, ClientTrue, Retold,
         HostTold, AuditTold, Meaning, Silent, clientVars, Admitted
    <3>2. CASE d # c
      BY <1>1, <2>2, <3>2 DEF TurnAway, RefusedAnswer, Typed, Truth, ClientTrue, Retold,
         HostTold, AuditTold, Meaning, clientVars, Admitted
    <3> QED BY <3>1, <3>2
  <2> QED BY <2>1, <2>2 DEF Truth
<1>2. ASSUME NEW c \in Calls, Refuse(c) PROVE Inv'
  <2>1. Typed'
    BY <1>2 DEF Refuse, Leave, RefusedAnswer, Typed, Silent, Answers, clientVars
  <2>2. ASSUME NEW d \in Mutations PROVE ClientTrue(d)' /\ Retold(d)'
    <3>1. CASE d = c
      BY <1>2, <2>2, <3>1 DEF Refuse, Leave, RefusedAnswer, Typed, Truth, ClientTrue, Retold,
         HostTold, AuditTold, Meaning, Silent, clientVars, Admitted
    <3>2. CASE d # c
      BY <1>2, <2>2, <3>2 DEF Refuse, Leave, RefusedAnswer, Typed, Truth, ClientTrue, Retold,
         HostTold, AuditTold, Meaning, clientVars, Admitted
    <3> QED BY <3>1, <3>2
  <2> QED BY <2>1, <2>2 DEF Truth
<1>3. ASSUME NEW c \in Calls, NEW asked \in Askings, Enter(c, asked) PROVE Inv'
  <2>1. Typed'
    BY <1>3 DEF Enter, Typed, clientVars
  <2>2. ASSUME NEW d \in Mutations PROVE ClientTrue(d)' /\ Retold(d)'
    BY <1>3, <2>2 DEF Enter, Typed, Truth, ClientTrue, Retold, HostTold, AuditTold, Meaning,
       clientVars, Admitted
  <2> QED BY <2>1, <2>2 DEF Truth
<1>4. ASSUME NEW c \in Calls, ApiExecutes(c) PROVE Inv'
  <2>1. Typed'
    BY <1>4 DEF ApiExecutes, Client!Execute, Typed
  <2>2. ASSUME NEW d \in Mutations PROVE ClientTrue(d)' /\ Retold(d)'
    BY <1>4, <2>2 DEF ApiExecutes, Client!Execute, Typed, Truth, ClientTrue, Retold,
       HostTold, AuditTold, Meaning, Admitted
  <2> QED BY <2>1, <2>2 DEF Truth
<1>5. ASSUME NEW c \in Calls, NEW result \in {"ok", "failed", "unsure"}, ClientAnswers(c, result)
      PROVE  Inv'
  <2>1. Typed'
    BY <1>5 DEF ClientAnswers, Client!Tell, Typed
  <2>2. ASSUME NEW d \in Mutations PROVE ClientTrue(d)' /\ Retold(d)'
    BY <1>5, <2>2 DEF ClientAnswers, Client!Tell, Typed, Truth, ClientTrue, Retold,
       HostTold, AuditTold, Meaning, Admitted
  <2> QED BY <2>1, <2>2 DEF Truth
<1>6. ASSUME NEW c \in Calls, NEW fits \in BOOLEAN, NEW sinkWorks \in BOOLEAN,
             ReturnMutation(c, fits, sinkWorks)
      PROVE  Inv'
  <2> DEFINE answer == Delivered(c, clientTold[c], fits)
             entry == Entry(answer)
  <2>1. c \in Mutations /\ clientTold[c] \in {"ok", "failed", "unsure"}
    BY <1>6 DEF ReturnMutation, Typed
  <2>2. /\ answer \in Answers /\ entry \in Entries
        /\ answer.kind = "ok" \/ answer.mutationCompleted <=> clientTold[c] = "ok"
        /\ answer.outcomeUnknown <=> clientTold[c] = "unsure"
        /\ entry.logged /\ entry.success = (clientTold[c] = "ok")
        /\ entry.outcomeUnknown = (clientTold[c] = "unsure")
    BY <2>1, DeliveryTruthful
  <2>3. /\ pc[c] = "handler" /\ pc' = [pc EXCEPT ![c] = "done"]
        /\ response' = [response EXCEPT ![c] = answer]
        /\ audit' = [audit EXCEPT ![c] = IF sinkWorks THEN entry ELSE @]
        /\ UNCHANGED <<config, signal, consent, executions, clientTold>>
    BY <1>6, <2>1 DEF ReturnMutation, Return, Leave, clientVars
  <2> HIDE DEF answer, entry
  <2>4. Typed'
    BY <2>2, <2>3 DEF Typed
  <2>5. ASSUME NEW d \in Mutations PROVE ClientTrue(d)' /\ Retold(d)'
    <3>1. ClientTrue(d)'
      BY <2>3, <2>5 DEF Typed, Truth, ClientTrue, Admitted
    <3>2. CASE d # c
      BY <2>3, <3>1, <3>2 DEF Typed, Truth, Retold, HostTold, AuditTold, Meaning
    <3>3. CASE d = c
      <4>1. pc'[c] = "done" /\ response'[c] = answer /\ audit'[c] \in {entry, audit[c]}
            /\ clientTold'[c] = clientTold[c] /\ executions'[c] = executions[c]
        BY <2>3 DEF Typed
      <4>2. AuditTold(c) = "pending" /\ ~audit[c].logged
        BY <2>1, <2>3 DEF Truth, Retold, AuditTold, Meaning
      <4>3. HostTold(c)' = clientTold[c]
        BY <2>1, <2>2, <4>1 DEF HostTold, Meaning
      <4>4. AuditTold(c)' \in {"pending", clientTold[c]}
        BY <2>1, <2>2, <4>1, <4>2 DEF AuditTold, Meaning
      <4> QED BY <3>1, <3>3, <2>1, <4>1, <4>3, <4>4 DEF Retold
    <3> QED BY <3>2, <3>3
  <2> QED BY <2>4, <2>5 DEF Truth
<1>7. ASSUME NEW c \in Calls, NEW result \in {"ok", "failed"}, NEW fits \in BOOLEAN,
             ReturnRead(c, result, fits)
      PROVE  Inv'
  <2>1. c \notin Mutations
    BY <1>7, OperationsAssumption DEF ReturnRead
  <2>2. Delivered(c, result, fits) \in Answers
    BY DEF Delivered, Silent, Answers
  <2>3. /\ pc[c] = "handler" /\ pc' = [pc EXCEPT ![c] = "done"]
        /\ response' = [response EXCEPT ![c] = Delivered(c, result, fits)]
        /\ audit' = [audit EXCEPT ![c] = @]
        /\ UNCHANGED <<config, signal, consent, executions, clientTold>>
    BY <1>7, <2>1 DEF ReturnRead, Return, Leave, clientVars
  <2>4. Typed'
    BY <2>2, <2>3 DEF Typed
  <2>5. ASSUME NEW d \in Mutations PROVE ClientTrue(d)' /\ Retold(d)'
    BY <2>1, <2>3, <2>5 DEF Typed, Truth, ClientTrue, Retold, HostTold, AuditTold, Meaning, Admitted
  <2> QED BY <2>4, <2>5 DEF Truth
<1>8. ASSUME NEW c \in Calls, Abort(c) PROVE Inv'
  BY <1>8 DEF Abort, Typed, Truth, ClientTrue, Retold, HostTold, AuditTold, Meaning, Admitted, clientVars
<1>9. CASE UNCHANGED vars
  BY <1>9 DEF vars, Typed, Truth, ClientTrue, Retold, HostTold, AuditTold, Meaning, Admitted, clientVars
<1> QED BY <1>1, <1>2, <1>3, <1>4, <1>5, <1>6, <1>7, <1>8, <1>9 DEF Next, Askings

LEMMA AlwaysInv == Spec => []Inv
BY InitInv, NextInv, PTL DEF Spec

-----------------------------------------------------------------------------
(* A mutation is executed only for an allowed caller, when mutations are    *)
(* enabled, and confirmed where that is asked for, however late the API     *)
(* executes it.                                                             *)
THEOREM ToolsNothingWithoutConsent == Spec => []NothingWithoutConsent
<1>1. Inv => NothingWithoutConsent
  BY DEF Inv, Typed, Truth, ClientTrue, Admitted, NothingWithoutConsent, Mutations
<1> QED BY <1>1, AlwaysInv, PTL

(* The audit log never calls an executed mutation failed or a failed one a  *)
(* success, whether or not its result could be delivered.                   *)
THEOREM ToolsAuditTruthful == Spec => []AuditTruthful
<1>1. ASSUME Inv, NEW c \in Mutations
      PROVE  /\ AuditTold(c) = "ok" => executions[c] = 1
             /\ AuditTold(c) = "failed" => executions[c] = 0
  <2>1. AuditTold(c) # "pending" => pc[c] = "done" /\ clientTold[c] # "pending"
    BY <1>1 DEF Inv, Truth, Retold
  <2>2. AuditTold(c) # "pending" => AuditTold(c) = clientTold[c]
    BY <1>1, <2>1 DEF Inv, Truth, Retold
  <2> QED BY <1>1, <2>2 DEF Inv, Truth, ClientTrue
<1>2. Inv => AuditTruthful
  BY <1>1 DEF AuditTruthful
<1> QED BY <1>2, AlwaysInv, PTL

-----------------------------------------------------------------------------
(* Entering adds a call to those inside and to the counter, leaving takes    *)
(* it from both, and nothing else touches either.                           *)
LEMMA CountedNext == Inv /\ Counted /\ [Next]_vars => Counted'
<1> SUFFICES ASSUME Inv, Counted, [Next]_vars PROVE Counted'
  OBVIOUS
<1> USE MaxCallsAssumption DEF Inv, Typed
<1> Mutations \subseteq Calls
  BY DEF Calls
<1> activeCalls \in Nat
  BY DEF Counted
<1>1. ASSUME Inside' = Inside, activeCalls' = activeCalls PROVE Counted'
  BY <1>1 DEF Counted
<1>2. ASSUME NEW c \in Calls, pc[c] \in {"refusing", "handler"}, Leave(c) PROVE Counted'
  <2>1. Inside' = Inside \ {c} /\ c \in Inside
    BY <1>2 DEF Leave, Inside
  <2>2. IsFiniteSet(Inside') /\ Cardinality(Inside') = Cardinality(Inside) - 1
    BY <2>1, FS_RemoveElement DEF Counted
  <2>3. Cardinality(Inside') \in Nat
    BY <2>2, FS_CardinalityType
  <2> QED BY <1>2, <2>2, <2>3 DEF Leave, Counted
<1>3. ASSUME NEW c \in Calls, NEW asked, Enter(c, asked) PROVE Counted'
  <2>1. Inside' = Inside \cup {c} /\ c \notin Inside
    BY <1>3 DEF Enter, Inside
  <2>2. IsFiniteSet(Inside') /\ Cardinality(Inside') = Cardinality(Inside) + 1
    BY <2>1, FS_AddElement DEF Counted
  <2> QED BY <1>3, <2>2 DEF Enter, Busy, Counted
<1>4. ASSUME NEW c \in Calls, TurnAway(c) PROVE Counted'
  BY <1>4, <1>1 DEF TurnAway, Inside
<1>5. ASSUME NEW c \in Calls, Refuse(c) PROVE Counted'
  BY <1>5, <1>2 DEF Refuse
<1>6. ASSUME NEW c \in Calls, NEW result, NEW fits, NEW sinkWorks, Return(c, result, fits, sinkWorks)
      PROVE  Counted'
  BY <1>6, <1>2 DEF Return
<1>7. ASSUME NEW c \in Calls, NEW result, ApiExecutes(c) \/ ClientAnswers(c, result) \/ Abort(c)
      PROVE  Counted'
  BY <1>7, <1>1 DEF ApiExecutes, ClientAnswers, Abort, Inside
<1>8. CASE UNCHANGED vars
  BY <1>8, <1>1 DEF vars, Inside
<1> QED BY <1>3, <1>4, <1>5, <1>6, <1>7, <1>8 DEF Next, ReturnMutation, ReturnRead

LEMMA AlwaysCounted == Spec => [](Inv /\ Counted)
<1>1. ASSUME Init PROVE Counted
  <2>1. Inside = {}
    BY <1>1 DEF Init, Inside
  <2>2. IsFiniteSet(Inside) /\ Cardinality(Inside) = 0
    BY <2>1, FS_EmptySet
  <2> QED BY <1>1, <2>2, MaxCallsAssumption DEF Init, Counted
<1> QED BY <1>1, InitInv, NextInv, CountedNext, PTL DEF Spec

(* Each variable has its type; the counter stays within its limit.          *)
THEOREM ToolsTypeOK == Spec => []TypeOK
<1>1. Inv /\ Counted => TypeOK
  BY DEF Inv, Typed, Counted, TypeOK, Client!TypeOK, Askings, Answers, Entries
<1> QED BY <1>1, AlwaysCounted, PTL

(* The busy counter is the number of calls inside the wrapper.              *)
THEOREM ToolsCallsCounted == Spec => []CallsCounted
<1>1. Counted => CallsCounted
  BY DEF Counted, Inside, CallsCounted
<1> QED BY <1>1, AlwaysCounted, PTL

-----------------------------------------------------------------------------
(* The wrapper implements WriteOutcome, told what the host is told: an      *)
(* execution is one there, the end of a mutating call an answer, and         *)
(* everything else a stutter.                                               *)
THEOREM ToolsKeepPromise == Spec => HostKeepsPromise
<1> DEFINE hostTold == [c \in Mutations |-> HostTold(c)]
<1> Mutations \subseteq Calls
  BY DEF Calls
<1>1. ASSUME Init PROVE HostPromise!Init
  <2>1. \A c \in Mutations : HostTold(c) = "pending"
    BY <1>1 DEF Init, HostTold
  <2> QED BY <1>1, <2>1 DEF Init, Client!Init, HostPromise!Init
<1>2. ASSUME Inv, Inv', [Next]_vars PROVE [HostPromise!Next]_(HostPromise!vars)
  <2> USE DEF Inv, Typed
  <2> SUFFICES (\E w \in Mutations : \/ HostPromise!Execute(w)
                                     \/ \E result \in {"ok", "failed", "unsure"} :
                                          HostPromise!Tell(w, result))
               \/ (executions' = executions /\ hostTold' = hostTold)
    BY DEF HostPromise!Next, HostPromise!vars
  <2>1. ASSUME executions' = executions, response' = response, pc' = pc
        PROVE  hostTold' = hostTold
    BY <2>1 DEF HostTold
  \* A call that ends tells the host what the mutation's story is.
  <2>2. ASSUME NEW c \in Calls, pc[c] # "done", pc' = [pc EXCEPT ![c] = "done"],
               NEW answer \in Answers, response' = [response EXCEPT ![c] = answer],
               UNCHANGED <<executions, clientTold>>
        PROVE  \/ \E w \in Mutations : \E result \in {"ok", "failed", "unsure"} :
                    HostPromise!Tell(w, result)
               \/ executions' = executions /\ hostTold' = hostTold
    <3>1. ASSUME NEW d \in Mutations, d # c PROVE HostTold(d)' = HostTold(d)
      BY <2>2, <3>1 DEF HostTold
    <3>2. CASE c \notin Mutations
      BY <2>2, <3>1, <3>2
    <3>3. CASE c \in Mutations
      <4>1. HostTold(c) = "pending" /\ pc'[c] = "done"
        BY <1>2, <2>2 DEF HostTold
      <4>2. /\ HostTold(c)' \in {"ok", "failed", "unsure"}
            /\ HostTold(c)' = "ok" => executions[c] = 1
            /\ HostTold(c)' = "failed" => executions[c] = 0
        <5>1. Retold(c)' /\ ClientTrue(c)'
          BY <1>2, <3>3 DEF Truth
        <5>2. clientTold'[c] = clientTold[c] /\ executions'[c] = executions[c]
              /\ clientTold[c] \in {"pending", "ok", "failed", "unsure"}
          BY <1>2, <2>2, <3>3
        <5> QED BY <4>1, <5>1, <5>2 DEF Retold, ClientTrue
      <4>3. hostTold' = [hostTold EXCEPT ![c] = HostTold(c)']
        BY <3>1, <3>3
      <4>4. HostPromise!Tell(c, HostTold(c)')
        BY <2>2, <3>3, <4>1, <4>2, <4>3 DEF HostPromise!Tell
      <4> QED BY <3>3, <4>2, <4>4
    <3> QED BY <3>2, <3>3
  <2>3. ASSUME NEW c \in Calls, TurnAway(c) \/ Refuse(c)
        PROVE  \/ \E w \in Mutations : \E result \in {"ok", "failed", "unsure"} :
                    HostPromise!Tell(w, result)
               \/ executions' = executions /\ hostTold' = hostTold
    <3>1. [Silent EXCEPT !.kind = "refused"] \in Answers
      BY DEF Silent, Answers
    <3> QED BY <2>2, <2>3, <3>1 DEF TurnAway, Refuse, Leave, RefusedAnswer, clientVars
  <2>4. ASSUME NEW c \in Calls, NEW result, NEW fits, NEW sinkWorks,
               Return(c, result, fits, sinkWorks)
        PROVE  \/ \E w \in Mutations : \E r \in {"ok", "failed", "unsure"} :
                    HostPromise!Tell(w, r)
               \/ executions' = executions /\ hostTold' = hostTold
    <3>1. Delivered(c, result, fits) \in Answers
      BY DEF Delivered, Silent, Answers
    <3> QED BY <2>2, <2>4, <3>1 DEF Return, Leave, clientVars
  <2>5. ASSUME NEW c \in Calls, NEW asked, Enter(c, asked)
        PROVE  executions' = executions /\ hostTold' = hostTold
    BY <2>5 DEF Enter, HostTold, clientVars
  <2>6. ASSUME NEW c \in Calls, ApiExecutes(c) PROVE HostPromise!Execute(c) /\ c \in Mutations
    <3>1. c \in Mutations /\ executions[c] = 0 /\ hostTold' = hostTold
          /\ executions' = [executions EXCEPT ![c] = 1]
      BY <2>6 DEF ApiExecutes, Client!Execute, HostTold
    <3>2. HostTold(c) \in {"pending", "unsure"}
      BY <1>2, <2>6, <3>1 DEF ApiExecutes, Truth, Retold, HostTold
    <3> QED BY <3>1, <3>2 DEF HostPromise!Execute
  <2>7. ASSUME NEW c \in Calls, NEW result, ClientAnswers(c, result) \/ Abort(c)
        PROVE  executions' = executions /\ hostTold' = hostTold
    BY <2>7, <2>1 DEF ClientAnswers, Client!Tell, Abort, clientVars
  <2>8. CASE UNCHANGED vars
    BY <2>8, <2>1 DEF vars, clientVars
  <2> HIDE DEF hostTold
  <2> QED BY <1>2, <2>3, <2>4, <2>5, <2>6, <2>7, <2>8 DEF Next, ReturnMutation, ReturnRead
<1> QED BY <1>1, <1>2, AlwaysInv, PTL DEF Spec, HostKeepsPromise, HostPromise!Spec

\* A mutation reported as failed without outcomeUnknown is never executed after the
\* report: what an agent that reads it may conclude, whatever the API still does
\* (toolError and toolResult, utils.ts 152-294).
THEOREM ReportedFailuresAreFinal ==
  Spec => [][\A w \in Mutations : HostTold(w) = "failed" => /\ HostTold(w)' = "failed"
                                                          /\ executions'[w] = 0]_vars
<1> DEFINE hostTold == [c \in Mutations |-> HostTold(c)]
           Final == \A w \in Mutations : HostTold(w) = "failed" => /\ HostTold(w)' = "failed"
                                                                 /\ executions'[w] = 0
<1>1. ASSUME Inv, [HostPromise!Next]_(HostPromise!vars) PROVE Final
  <2> SUFFICES ASSUME NEW w \in Mutations, hostTold[w] = "failed"
               PROVE  hostTold'[w] = "failed" /\ executions'[w] = 0
    OBVIOUS
  <2>1. executions[w] = 0 /\ executions \in [Mutations -> 0..1]
    <3>1. pc[w] = "done" /\ ClientTrue(w) /\ Retold(w)
      BY <1>1 DEF Inv, Truth, HostTold
    <3> QED BY <1>1, <3>1 DEF Inv, Typed, ClientTrue, Retold
  <2>2. CASE UNCHANGED HostPromise!vars
    BY <2>1, <2>2 DEF HostPromise!vars
  <2>3. ASSUME NEW v \in Mutations, HostPromise!Execute(v)
        PROVE  hostTold'[w] = "failed" /\ executions'[w] = 0
    <3> HIDE DEF hostTold
    <3> QED BY <2>1, <2>3 DEF HostPromise!Execute, hostTold
  <2>4. ASSUME NEW v \in Mutations, NEW r \in {"ok", "failed", "unsure"}, HostPromise!Tell(v, r)
        PROVE  hostTold'[w] = "failed" /\ executions'[w] = 0
    BY <2>1, <2>4 DEF HostPromise!Tell
  <2> QED BY <1>1, <2>2, <2>3, <2>4 DEF HostPromise!Next
<1> QED BY <1>1, AlwaysInv, ToolsKeepPromise, PTL DEF HostKeepsPromise, HostPromise!Spec
=============================================================================
