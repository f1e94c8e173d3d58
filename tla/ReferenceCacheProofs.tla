-------------------------- MODULE ReferenceCacheProofs --------------------------
(***************************************************************************)
(* The reference cache implements SharedResult, for any callers, kinds of   *)
(* data and bounds.  The invariant says of a call what its point on the way  *)
(* implies (CallsTrue), that a call which joined waits for a shared load of   *)
(* what it asked for that still runs (JoinedTrue), and that a slot keeps only *)
(* whole results and registers only loads that run (SlotsTrue).              *)
(***************************************************************************)
EXTENDS ReferenceCache, TLAPS

\* What is true of a call at each point of its way.
CallsTrue ==
  \A c \in Calls :
    /\ pc[c] = "idle" => topic[c] = None /\ page[c] = 0 /\ told[c] = Nothing /\ c \notin complete
    /\ pc[c] # "idle" => topic[c] \in Slots
    /\ pc[c] = "loading" => page[c] # 0 /\ told[c] = Nothing /\ c \notin complete
    /\ pc[c] = "joined" => page[c] = 0 /\ told[c] = Nothing /\ c \notin Signalled
    /\ pc[c] = "done" => told[c] # Nothing /\ told[c].is # "nothing"
    /\ pc[c] = "done" /\ page[c] # 0 /\ told[c].is = "whole" => c \in complete

\* A call that joined waits for a shared load of what it asked for.
JoinedTrue ==
  \A c \in Calls : pc[c] = "joined" =>
    /\ waitsFor[c] \in Calls \ Signalled
    /\ pc[waitsFor[c]] = "loading" /\ topic[waitsFor[c]] = topic[c]

\* What is kept is whole; what is registered runs and is shared.
SlotsTrue ==
  \A s \in Slots :
    /\ LET k == state[s].kept IN k # None =>
         topic[k] = s /\ page[k] # 0 /\ pc[k] = "done" /\ told[k].is = "whole" /\ k \in complete
    /\ LET l == state[s].inFlight IN l # None => pc[l] = "loading" /\ topic[l] = s

IInv == TypeOK /\ CallsTrue /\ JoinedTrue /\ SlotsTrue

USE DEF SlotState

LEMMA InitEstablishes == Init => IInv
<1> SUFFICES ASSUME Init PROVE IInv
  OBVIOUS
<1>1. TypeOK
  BY NoneAssumption, ClearsAssumption, LimitsAssumption DEF Init, TypeOK, Nothing, Empty
<1>2. CallsTrue /\ JoinedTrue
  BY DEF Init, CallsTrue, JoinedTrue
<1>3. SlotsTrue
  BY DEF Init, SlotsTrue, Empty
<1> QED
  BY <1>1, <1>2, <1>3 DEF IInv

-----------------------------------------------------------------------------
(* The slots of the cache are left alone by all but the callbacks of a load.  *)

\* A call that is answered at once.
LEMMA AnsweredPreserves ==
  ASSUME IInv, NEW c \in Calls, NEW s \in Slots, NEW a,
         a \in [is : {"whole", "cancelled"}, by : Calls \cup {None}],
         pc[c] = "idle", topic' = [topic EXCEPT ![c] = s], Tell({c}, a),
         UNCHANGED <<era, aborted, state, waitsFor, page, complete>>
  PROVE  IInv'
<1>1. /\ told' = [told EXCEPT ![c] = a] /\ pc' = [pc EXCEPT ![c] = "done"]
  BY DEF Tell, IInv, TypeOK
<1>2. a # Nothing /\ a.is # "nothing" /\ page[c] = 0 /\ c \notin complete
  BY DEF Nothing, IInv, CallsTrue
<1>3. TypeOK'
  BY <1>1 DEF IInv, TypeOK
<1>4. CallsTrue'
  BY <1>1, <1>2 DEF IInv, TypeOK, CallsTrue, Nothing
<1>5. JoinedTrue'
  BY <1>1 DEF IInv, TypeOK, JoinedTrue
<1>6. SlotsTrue'
  <2> SUFFICES ASSUME NEW t \in Slots
               PROVE  /\ LET k == state[t].kept IN k # None =>
                           topic'[k] = t /\ page[k] # 0 /\ pc'[k] = "done" /\ told'[k].is = "whole" /\ k \in complete
                      /\ LET l == state[t].inFlight IN l # None => pc'[l] = "loading" /\ topic'[l] = t
    BY DEF SlotsTrue
  <2>1. state[t].kept \in Calls \cup {None} /\ state[t].inFlight \in Calls \cup {None}
    BY DEF IInv, TypeOK
  <2>2. state[t].kept # None => state[t].kept # c
    BY DEF IInv, SlotsTrue
  <2>3. state[t].inFlight # None => state[t].inFlight # c
    BY DEF IInv, SlotsTrue
  <2> QED
    BY <1>1, <2>1, <2>2, <2>3 DEF IInv, TypeOK, SlotsTrue
<1> QED
  BY <1>3, <1>4, <1>5, <1>6 DEF IInv

LEMMA JoinPreserves ==
  ASSUME IInv, NEW c \in Calls \ Signalled, NEW s \in Slots, NEW l,
         l = state[s].inFlight, l # None,
         pc[c] = "idle", topic' = [topic EXCEPT ![c] = s],
         pc' = [pc EXCEPT ![c] = "joined"], waitsFor' = [waitsFor EXCEPT ![c] = l],
         UNCHANGED <<era, aborted, state, page, complete, told>>
  PROVE  IInv'
<1>1. l \in Calls \ Signalled /\ pc[l] = "loading" /\ topic[l] = s /\ l # c
  BY DEF IInv, TypeOK, SlotsTrue
<1>2. TypeOK'
  BY <1>1 DEF IInv, TypeOK
<1>3. CallsTrue'
  BY DEF IInv, TypeOK, CallsTrue
<1>4. JoinedTrue'
  BY <1>1 DEF IInv, TypeOK, JoinedTrue
<1>5. SlotsTrue'
  <2> SUFFICES ASSUME NEW t \in Slots
               PROVE  /\ LET k == state[t].kept IN k # None =>
                           topic'[k] = t /\ page[k] # 0 /\ pc'[k] = "done" /\ told[k].is = "whole" /\ k \in complete
                      /\ LET m == state[t].inFlight IN m # None => pc'[m] = "loading" /\ topic'[m] = t
    BY DEF SlotsTrue
  <2>1. state[t].kept \in Calls \cup {None} /\ state[t].inFlight \in Calls \cup {None}
    BY DEF IInv, TypeOK
  <2>2. state[t].kept # None => state[t].kept # c
    BY DEF IInv, SlotsTrue
  <2>3. state[t].inFlight # None => state[t].inFlight # c
    BY DEF IInv, SlotsTrue
  <2> QED
    BY <2>1, <2>2, <2>3 DEF IInv, TypeOK, SlotsTrue
<1> QED
  BY <1>2, <1>3, <1>4, <1>5 DEF IInv

LEMMA StartPreserves ==
  ASSUME IInv, NEW c \in Calls, NEW s \in Slots,
         ~ (Shares(c) /\ state[s].inFlight # None),
         pc[c] = "idle", topic' = [topic EXCEPT ![c] = s], StartLoad(c, s),
         UNCHANGED <<era, aborted>>
  PROVE  IInv'
<1>1. /\ pc' = [pc EXCEPT ![c] = "loading"] /\ page' = [page EXCEPT ![c] = 1]
      /\ state' = (IF Shares(c) THEN [state EXCEPT ![s].inFlight = c] ELSE state)
      /\ UNCHANGED <<waitsFor, complete, told>>
  BY DEF StartLoad
<1>2. c \notin complete /\ told[c] = Nothing
  BY DEF IInv, CallsTrue
<1>3. TypeOK'
  <2>1. 1 \in 0 .. MaxPages
    BY LimitsAssumption
  <2>2. state' \in [Slots -> SlotState]
    BY <1>1 DEF IInv, TypeOK, Shares
  <2> QED
    BY <1>1, <2>1, <2>2 DEF IInv, TypeOK
<1>4. CallsTrue'
  BY <1>1, <1>2 DEF IInv, TypeOK, CallsTrue
<1>5. JoinedTrue'
  BY <1>1 DEF IInv, TypeOK, JoinedTrue
<1>6. SlotsTrue'
  <2> SUFFICES ASSUME NEW t \in Slots
               PROVE  /\ LET k == state'[t].kept IN k # None =>
                           topic'[k] = t /\ page'[k] # 0 /\ pc'[k] = "done" /\ told[k].is = "whole" /\ k \in complete
                      /\ LET m == state'[t].inFlight IN m # None => pc'[m] = "loading" /\ topic'[m] = t
    BY <1>1 DEF SlotsTrue
  <2>1. /\ state'[t].kept = state[t].kept
        /\ state'[t].inFlight = state[t].inFlight \/ (t = s /\ state'[t].inFlight = c)
    BY <1>1 DEF IInv, TypeOK
  <2>2. state[t].kept \in Calls \cup {None} /\ state[t].inFlight \in Calls \cup {None}
    BY DEF IInv, TypeOK
  <2>3. state[t].kept # None => state[t].kept # c
    BY DEF IInv, SlotsTrue
  <2>4. state[t].inFlight # None => state[t].inFlight # c
    BY DEF IInv, SlotsTrue
  <2> QED
    BY <1>1, <2>1, <2>2, <2>3, <2>4 DEF IInv, TypeOK, SlotsTrue
<1> QED
  BY <1>3, <1>4, <1>5, <1>6 DEF IInv

LEMMA GetOrLoadPreserves ==
  ASSUME IInv, NEW c \in Calls, NEW name \in Namespaces, GetOrLoad(c, name)
  PROVE  IInv'
<1>1. PICK s \in Slots : s = <<era, name>>
  BY DEF IInv, TypeOK, Slots
<1>2. pc[c] = "idle" /\ topic' = [topic EXCEPT ![c] = s] /\ UNCHANGED <<era, aborted>>
  BY <1>1 DEF GetOrLoad
<1>3. \/ Tell({c}, Answer("cancelled", None)) /\ UNCHANGED <<state, waitsFor, page, complete>>
      \/ Fresh(s) /\ Tell({c}, Answer("whole", state[s].kept)) /\ UNCHANGED <<state, waitsFor, page, complete>>
      \/ /\ Shares(c) /\ state[s].inFlight # None
         /\ pc' = [pc EXCEPT ![c] = "joined"]
         /\ waitsFor' = [waitsFor EXCEPT ![c] = state[s].inFlight]
         /\ UNCHANGED <<state, page, complete, told>>
      \/ ~ (Shares(c) /\ state[s].inFlight # None) /\ StartLoad(c, s)
  BY <1>1 DEF GetOrLoad
<1>4. Answer("cancelled", None) \in [is : {"whole", "cancelled"}, by : Calls \cup {None}]
  BY DEF Answer
<1>5. Fresh(s) => Answer("whole", state[s].kept) \in [is : {"whole", "cancelled"}, by : Calls \cup {None}]
  BY DEF Answer, Fresh, IInv, TypeOK
<1> QED
  BY <1>2, <1>3, <1>4, <1>5, AnsweredPreserves, JoinPreserves, StartPreserves DEF Shares

-----------------------------------------------------------------------------
(* The end of a load.                                                         *)

\* Those who await a load that runs wait for what it loads; none is cancelled with it.
LEMMA ListenersWait ==
  ASSUME IInv, NEW l \in Calls, pc[l] = "loading"
  PROVE  /\ Listeners(l) \subseteq Calls /\ l \in Listeners(l)
         /\ \A c \in Listeners(l) : topic[c] = topic[l] /\ topic[c] \in Slots /\ told[c] = Nothing
         /\ \A c \in Listeners(l) \ {l} : pc[c] = "joined" /\ page[c] = 0 /\ c \notin aborted
         /\ l \in aborted => Listeners(l) = {l}
BY DEF Listeners, IInv, TypeOK, CallsTrue, JoinedTrue

LEMMA UnregisteredIs ==
  ASSUME NEW st \in SlotState, NEW l
  PROVE  /\ Unregistered(st, l) \in SlotState
         /\ Unregistered(st, l).inFlight = (IF st.inFlight = l THEN None ELSE st.inFlight)
         /\ Unregistered(st, l).kept = st.kept /\ Unregistered(st, l).left = st.left
BY DEF Unregistered

LEMMA EndPreserves ==
  ASSUME IInv, NEW l \in Calls, pc[l] = "loading", NEW new, NEW a,
         new \in SlotState,
         new.inFlight = (IF state[topic[l]].inFlight = l THEN None ELSE state[topic[l]].inFlight),
         a \in [is : {"whole", "failed", "cancelled"}, by : Calls \cup {None}],
         \/ a.is = "whole" /\ new.kept = l /\ complete' = complete \cup {l}
         \/ a.is # "whole" /\ new.kept = state[topic[l]].kept /\ complete' = complete,
         state' = [state EXCEPT ![topic[l]] = new], Tell(Listeners(l), a),
         UNCHANGED <<era, topic, waitsFor, page, aborted>>
  PROVE  IInv'
<1> DEFINE D == Listeners(l)
<1>1. /\ D \subseteq Calls /\ l \in D
      /\ \A c \in D \ {l} : pc[c] = "joined" /\ page[c] = 0
      /\ \A c \in Calls \ D : pc[c] = "joined" => waitsFor[c] # l
  BY ListenersWait DEF Listeners
<1>2. topic[l] \in Slots /\ page[l] # 0
  BY DEF IInv, CallsTrue
<1>3. /\ told' = [c \in Calls |-> IF c \in D THEN a ELSE told[c]]
      /\ pc' = [c \in Calls |-> IF c \in D THEN "done" ELSE pc[c]]
  BY DEF Tell
<1> HIDE DEF D
<1>4. TypeOK'
  <2>1. state' \in [Slots -> SlotState]
    BY <1>2 DEF IInv, TypeOK
  <2>2. told' \in [Calls -> [is : {"nothing", "whole", "failed", "cancelled"}, by : Calls \cup {None}]]
    BY <1>3 DEF IInv, TypeOK
  <2>3. pc' \in [Calls -> {"idle", "loading", "joined", "done"}]
    BY <1>3 DEF IInv, TypeOK
  <2> QED
    BY <2>1, <2>2, <2>3 DEF IInv, TypeOK
<1>5. CallsTrue'
  <2> SUFFICES ASSUME NEW c \in Calls
               PROVE  /\ pc'[c] = "idle" => topic[c] = None /\ page[c] = 0 /\ told'[c] = Nothing /\ c \notin complete'
                      /\ pc'[c] # "idle" => topic[c] \in Slots
                      /\ pc'[c] = "loading" => page[c] # 0 /\ told'[c] = Nothing /\ c \notin complete'
                      /\ pc'[c] = "joined" => page[c] = 0 /\ told'[c] = Nothing /\ c \notin Signalled
                      /\ pc'[c] = "done" => told'[c] # Nothing /\ told'[c].is # "nothing"
                      /\ pc'[c] = "done" /\ page[c] # 0 /\ told'[c].is = "whole" => c \in complete'
    BY DEF CallsTrue
  <2>1. a # Nothing /\ a.is # "nothing"
    BY DEF Nothing
  <2>2. CASE c \in D
    BY <1>1, <1>2, <1>3, <2>1, <2>2 DEF IInv, CallsTrue
  <2>3. CASE c \notin D
    BY <1>1, <1>3, <2>3 DEF IInv, CallsTrue
  <2> QED
    BY <2>2, <2>3
<1>6. JoinedTrue'
  BY <1>1, <1>3 DEF IInv, JoinedTrue
<1>7. SlotsTrue'
  <2> SUFFICES ASSUME NEW t \in Slots
               PROVE  /\ LET k == state'[t].kept IN k # None =>
                           topic[k] = t /\ page[k] # 0 /\ pc'[k] = "done" /\ told'[k].is = "whole" /\ k \in complete'
                      /\ LET m == state'[t].inFlight IN m # None => pc'[m] = "loading" /\ topic[m] = t
    BY DEF SlotsTrue
  <2>1. state[t].kept \in Calls \cup {None} /\ state[t].inFlight \in Calls \cup {None}
    BY DEF IInv, TypeOK
  <2>2. state[t].kept # None => pc[state[t].kept] = "done" /\ state[t].kept \notin D
    BY <1>1, <2>1 DEF IInv, SlotsTrue
  <2>3. state[t].inFlight # None =>
          pc[state[t].inFlight] = "loading" /\ topic[state[t].inFlight] = t
          /\ (state[t].inFlight \notin D \/ state[t].inFlight = l)
    BY <1>1, <2>1 DEF IInv, SlotsTrue
  <2>4. CASE t = topic[l]
    <3>1. state'[t] = new
      BY <1>2, <2>4 DEF IInv, TypeOK
    <3> QED
      BY <1>1, <1>2, <1>3, <2>1, <2>2, <2>3, <2>4, <3>1 DEF IInv, SlotsTrue
  <2>5. CASE t # topic[l]
    <3>1. state'[t] = state[t]
      BY <1>2, <2>5 DEF IInv, TypeOK
    <3> QED
      BY <1>3, <2>1, <2>2, <2>3, <2>5, <3>1 DEF IInv, SlotsTrue
  <2> QED
    BY <2>4, <2>5
<1> QED
  BY <1>4, <1>5, <1>6, <1>7 DEF IInv

LEMMA SucceedPreserves ==
  ASSUME IInv, NEW l \in Calls, pc[l] = "loading", Succeed(l), complete' = complete \cup {l},
         UNCHANGED <<era, topic, waitsFor, page, aborted>>
  PROVE  IInv'
<1>1. topic[l] \in Slots
  BY DEF IInv, CallsTrue
<1> DEFINE old == state[topic[l]]
           new == [Unregistered(old, l) EXCEPT !.kept = l, !.left = Ttl]
<1>2. old \in SlotState
  BY <1>1 DEF IInv, TypeOK
<1>3. /\ new \in SlotState
      /\ new.inFlight = (IF old.inFlight = l THEN None ELSE old.inFlight) /\ new.kept = l
  <2> HIDE DEF old
  <2>1. PICK free \in SlotState :
          free = Unregistered(old, l) /\ free.inFlight = (IF old.inFlight = l THEN None ELSE old.inFlight)
    BY <1>2, UnregisteredIs
  <2>2. new = [free EXCEPT !.kept = l, !.left = Ttl]
    BY <2>1
  <2>3. Ttl \in 0 .. Ttl
    BY LimitsAssumption
  <2> HIDE DEF new
  <2> QED
    BY <2>1, <2>2, <2>3
<1>4. state' = [state EXCEPT ![topic[l]] = new]
  BY <1>1 DEF Succeed, IInv, TypeOK
<1>5. /\ Tell(Listeners(l), Answer("whole", l)) /\ Answer("whole", l).is = "whole"
      /\ Answer("whole", l) \in [is : {"whole", "failed", "cancelled"}, by : Calls \cup {None}]
  BY DEF Succeed, Answer
<1> HIDE DEF new
<1> QED
  BY <1>3, <1>4, <1>5, EndPreserves

LEMMA FailPreserves ==
  ASSUME IInv, NEW l \in Calls, pc[l] = "loading", NEW why, Fail(l, why),
         why \in [is : {"failed", "cancelled"}, by : Calls \cup {None}],
         UNCHANGED <<era, topic, waitsFor, page, complete, aborted>>
  PROVE  IInv'
<1>1. topic[l] \in Slots
  BY DEF IInv, CallsTrue
<1> DEFINE old == state[topic[l]]
           new == Unregistered(old, l)
<1>2. old \in SlotState
  BY <1>1 DEF IInv, TypeOK
<1>3. /\ new \in SlotState
      /\ new.inFlight = (IF old.inFlight = l THEN None ELSE old.inFlight) /\ new.kept = old.kept
  BY <1>2, UnregisteredIs
<1>4. state' = [state EXCEPT ![topic[l]] = new]
  BY <1>1 DEF Fail, IInv, TypeOK
<1>5. /\ Tell(Listeners(l), why) /\ why.is # "whole"
      /\ why \in [is : {"whole", "failed", "cancelled"}, by : Calls \cup {None}]
  BY DEF Fail
<1> HIDE DEF new
<1> QED
  BY <1>3, <1>4, <1>5, EndPreserves

LEMMA PagePreserves ==
  ASSUME IInv, NEW l \in Calls, NEW hasMore \in BOOLEAN, NEW empty \in BOOLEAN, Page(l, hasMore, empty)
  PROVE  IInv'
<1>1. pc[l] = "loading" /\ UNCHANGED <<era, topic, waitsFor, aborted>>
  BY DEF Page
<1>2. CASE Verdict(page[l], hasMore, empty) = "next"
  <2>1. /\ hasMore /\ page[l] # MaxPages
        /\ page' = [page EXCEPT ![l] = @ + 1] /\ UNCHANGED <<state, pc, told, complete>>
    <3>1. hasMore /\ page[l] # MaxPages
      BY <1>2 DEF Verdict
    <3>2. complete' = complete
      BY <3>1 DEF Page
    <3> QED
      BY <1>2, <3>1, <3>2 DEF Page
  <2>2. page[l] \in 0 .. MaxPages /\ page[l] + 1 \in 0 .. MaxPages /\ page[l] + 1 # 0
    <3>1. page[l] \in 0 .. MaxPages
      BY DEF IInv, TypeOK
    <3> QED
      BY <2>1, <3>1, LimitsAssumption
  <2>3. TypeOK'
    BY <1>1, <2>1, <2>2 DEF IInv, TypeOK
  <2>4. CallsTrue' /\ JoinedTrue'
    BY <1>1, <2>1, <2>2 DEF IInv, TypeOK, CallsTrue, JoinedTrue
  <2>5. SlotsTrue'
    <3> SUFFICES ASSUME NEW t \in Slots, state[t].kept # None
                 PROVE  page'[state[t].kept] # 0
      BY <1>1, <2>1 DEF IInv, SlotsTrue
    <3>1. state[t].kept # l
      BY <1>1 DEF IInv, SlotsTrue
    <3> QED
      BY <2>1, <3>1 DEF IInv, TypeOK, SlotsTrue
  <2> QED
    BY <2>3, <2>4, <2>5 DEF IInv
<1>3. CASE Verdict(page[l], hasMore, empty) = "done"
  <2>1. ~ hasMore
    BY <1>3 DEF Verdict
  <2>2. complete' = complete \cup {l} /\ Succeed(l) /\ page' = page
    BY <1>3, <2>1 DEF Page
  <2> QED
    BY <1>1, <2>2, SucceedPreserves
<1>4. CASE Verdict(page[l], hasMore, empty) = "refuse"
  <2>1. hasMore
    BY <1>4 DEF Verdict
  <2>2. Fail(l, Answer("failed", l)) /\ UNCHANGED <<page, complete>>
    BY <1>4, <2>1 DEF Page
  <2>3. Answer("failed", l) \in [is : {"failed", "cancelled"}, by : Calls \cup {None}]
    BY DEF Answer
  <2> QED
    BY <1>1, <2>2, <2>3, FailPreserves
<1> QED
  BY <1>2, <1>3, <1>4 DEF Verdict

LEMMA FailuresPreserve ==
  ASSUME IInv, NEW l \in Calls, RequestFails(l) \/ AbandonLoad(l)
  PROVE  IInv'
<1>1. /\ Answer("failed", l) \in [is : {"failed", "cancelled"}, by : Calls \cup {None}]
      /\ Answer("cancelled", None) \in [is : {"failed", "cancelled"}, by : Calls \cup {None}]
  BY DEF Answer
<1> QED
  BY <1>1, FailPreserves DEF RequestFails, AbandonLoad

-----------------------------------------------------------------------------
(* The other steps.                                                           *)

LEMMA AbortPreserves ==
  ASSUME IInv, NEW c \in Calls, Abort(c)
  PROVE  IInv'
BY DEF Abort, IInv, TypeOK, CallsTrue, JoinedTrue, SlotsTrue

LEMMA ClearPreserves ==
  ASSUME IInv, Clear
  PROVE  IInv'
<1>1. era' \in 0 .. MaxClears
  BY ClearsAssumption DEF Clear, IInv, TypeOK
<1> QED
  BY <1>1 DEF Clear, IInv, TypeOK, CallsTrue, JoinedTrue, SlotsTrue

\* What Tick does to a slot.
LEMMA TickEach ==
  ASSUME IInv, Tick, NEW s \in Slots
  PROVE  /\ state'[s] \in SlotState
         /\ state'[s].kept = state[s].kept /\ state'[s].inFlight = state[s].inFlight
         /\ state'[s].left > 0 => state[s].left > 0
<1>1. PICK old \in SlotState : old = state[s]
  BY DEF IInv, TypeOK
<1>2. PICK n \in 0 .. Ttl : n = (IF old.left > 0 THEN old.left - 1 ELSE 0)
  BY LimitsAssumption
<1>3. state'[s] = [old EXCEPT !.left = n]
  BY <1>1, <1>2 DEF Tick
<1> QED
  BY <1>1, <1>2, <1>3, LimitsAssumption

LEMMA TickPreserves ==
  ASSUME IInv, Tick
  PROVE  IInv'
<1>1. UNCHANGED <<era, topic, pc, waitsFor, page, complete, aborted, told>>
  BY DEF Tick
<1>2. state' \in [Slots -> SlotState]
  BY TickEach DEF Tick
<1>3. TypeOK'
  BY <1>1, <1>2 DEF IInv, TypeOK
<1>4. CallsTrue' /\ JoinedTrue'
  BY <1>1 DEF IInv, CallsTrue, JoinedTrue
<1>5. SlotsTrue'
  BY <1>1, TickEach DEF IInv, SlotsTrue
<1> QED
  BY <1>3, <1>4, <1>5 DEF IInv

LEMMA NextPreserves == IInv /\ [Next]_vars => IInv'
<1> SUFFICES ASSUME IInv, [Next]_vars PROVE IInv'
  OBVIOUS
<1>1. CASE Next
  BY <1>1, GetOrLoadPreserves, PagePreserves, FailuresPreserve, AbortPreserves, ClearPreserves, TickPreserves
     DEF Next
<1>2. CASE UNCHANGED vars
  BY <1>2 DEF vars, IInv, TypeOK, CallsTrue, JoinedTrue, SlotsTrue
<1> QED
  BY <1>1, <1>2

LEMMA Invariance == Spec => []IInv
BY InitEstablishes, NextPreserves, PTL DEF Spec

-----------------------------------------------------------------------------
(* The steps of the cache as steps of SharedResult.                           *)

Load == [l \in Calls |-> LoadOf(l)]

\* A load that is whole is kept, one that runs has no answer yet, and a call without
\* a load of its own has none.
LEMMA LoadsAre ==
  ASSUME IInv, NEW l \in Calls
  PROVE  /\ Load[l] = "running" <=> pc[l] = "loading"
         /\ Load[l] = "none" <=> page[l] = 0
         /\ Load[l] = "whole" => /\ pc[l] = "done" /\ topic[l] \in Slots
                                 /\ state[topic[l]].kept = l /\ state[topic[l]].left > 0
BY DEF Load, LoadOf, IInv, TypeOK, CallsTrue

LEMMA InitRefines == Init => Shared!Init
BY DEF Init, Shared!Init, LoadOf, Nothing, Shared!Nothing

\* A call that is answered at once starts no load.
LEMMA AnsweredLoads ==
  ASSUME IInv, NEW c \in Calls, NEW s \in Slots, NEW a, pc[c] = "idle",
         topic' = [topic EXCEPT ![c] = s], Tell({c}, a), UNCHANGED <<state, page, complete>>
  PROVE  Load' = Load /\ told' = [told EXCEPT ![c] = a]
<1>1. told' = [told EXCEPT ![c] = a] /\ pc' = [pc EXCEPT ![c] = "done"]
  BY DEF Tell, IInv, TypeOK
<1>2. page[c] = 0
  BY DEF IInv, CallsTrue
<1>3. \A l \in Calls : LoadOf(l)' = LoadOf(l)
  BY <1>1, <1>2 DEF LoadOf, IInv, TypeOK
<1> QED
  BY <1>1, <1>3 DEF Load

LEMMA GetOrLoadRefines ==
  ASSUME IInv, NEW c \in Calls, NEW name \in Namespaces, GetOrLoad(c, name)
  PROVE  Shared!Next
<1>1. PICK s \in Slots : s = <<era, name>>
  BY DEF IInv, TypeOK, Slots
<1>2. pc[c] = "idle" /\ topic[c] = None /\ topic' = [topic EXCEPT ![c] = s] /\ UNCHANGED <<era, aborted>>
  BY <1>1 DEF GetOrLoad, IInv, CallsTrue
<1> SUFFICES \/ /\ c \in aborted /\ told' = [told EXCEPT ![c] = Answer("cancelled", None)] /\ Load' = Load
             \/ \E l \in Calls : /\ Load[l] = "whole" /\ topic[l] = s /\ c \notin aborted
                                 /\ told' = [told EXCEPT ![c] = Answer("whole", l)] /\ Load' = Load
             \/ \E l \in Calls : Load[l] = "running" /\ topic[l] = s /\ UNCHANGED <<Load, told>>
             \/ Load' = [Load EXCEPT ![c] = "running"] /\ told' = told
  BY <1>2 DEF Shared!Next, Shared!Ask, Answer, Load
<1>3. CASE c \in aborted
  <2>1. Tell({c}, Answer("cancelled", None)) /\ UNCHANGED <<state, page, complete>>
    BY <1>1, <1>3 DEF GetOrLoad
  <2> QED
    BY <1>2, <1>3, <2>1, AnsweredLoads
<1>4. CASE c \notin aborted /\ Fresh(s)
  <2> DEFINE k == state[s].kept
  <2>1. Tell({c}, Answer("whole", k)) /\ UNCHANGED <<state, page, complete>>
    BY <1>1, <1>4 DEF GetOrLoad
  <2>2. k \in Calls /\ topic[k] = s /\ Load[k] = "whole"
    BY <1>4 DEF Fresh, Load, LoadOf, IInv, TypeOK, SlotsTrue
  <2> QED
    BY <1>2, <1>4, <2>1, <2>2, AnsweredLoads
<1>5. CASE c \notin aborted /\ ~ Fresh(s) /\ Shares(c) /\ state[s].inFlight # None
  <2> DEFINE l == state[s].inFlight
  <2>1. pc' = [pc EXCEPT ![c] = "joined"] /\ UNCHANGED <<state, page, complete, told>>
    BY <1>1, <1>5 DEF GetOrLoad
  <2>2. l \in Calls /\ topic[l] = s /\ pc[l] = "loading"
    BY <1>5 DEF IInv, TypeOK, SlotsTrue
  <2>3. page[c] = 0
    BY <1>2 DEF IInv, CallsTrue
  <2>4. \A k \in Calls : LoadOf(k)' = LoadOf(k)
    BY <1>2, <2>1, <2>3 DEF LoadOf, IInv, TypeOK
  <2> QED
    BY <2>1, <2>2, <2>4, LoadsAre DEF Load
<1>6. CASE c \notin aborted /\ ~ Fresh(s) /\ ~ (Shares(c) /\ state[s].inFlight # None)
  <2>1. /\ pc' = [pc EXCEPT ![c] = "loading"] /\ page' = [page EXCEPT ![c] = 1]
        /\ state' = (IF Shares(c) THEN [state EXCEPT ![s].inFlight = c] ELSE state)
        /\ UNCHANGED <<complete, told>>
    BY <1>1, <1>6 DEF GetOrLoad, StartLoad
  <2>2. LoadOf(c)' = "running"
    BY <2>1 DEF LoadOf, IInv, TypeOK
  <2>3. \A t \in Slots : state'[t].kept = state[t].kept /\ state'[t].left = state[t].left
    BY <2>1 DEF IInv, TypeOK
  <2>4. ASSUME NEW k \in Calls, k # c PROVE LoadOf(k)' = LoadOf(k)
    <3>1. page'[k] = page[k] /\ pc'[k] = pc[k] /\ topic'[k] = topic[k]
      BY <1>2, <2>1, <2>4 DEF IInv, TypeOK
    <3>2. page[k] = 0 \/ topic[k] \in Slots
      BY DEF IInv, CallsTrue
    <3> QED
      BY <2>1, <2>3, <3>1, <3>2 DEF LoadOf
  <2> QED
    BY <2>1, <2>2, <2>4 DEF Load
<1> QED
  BY <1>3, <1>4, <1>5, <1>6

\* The end of a load with an answer is a Settle of SharedResult.
LEMMA EndRefines ==
  ASSUME IInv, NEW l \in Calls, pc[l] = "loading", l \notin aborted, NEW outcome \in {"whole", "failed"},
         Tell(Listeners(l), Answer(outcome, l)), Load'[l] = outcome,
         \A k \in Calls \ {l} : Load'[k] = Load[k] \/ (Load[k] = "whole" /\ Load'[k] = "gone"),
         UNCHANGED <<topic, aborted>>
  PROVE  Shared!Next
<1> DEFINE D == Listeners(l)
<1>1. /\ D \subseteq Calls /\ l \in D /\ D \cap aborted = {}
      /\ \A c \in D : topic[c] = topic[l] /\ topic[c] # None /\ told[c] = Nothing
  BY ListenersWait, NoneAssumption DEF Slots
<1>2. told' = [c \in Calls |-> IF c \in D THEN [is |-> outcome, by |-> l] ELSE told[c]]
  BY DEF Tell, Answer
<1>3. Load[l] = "running"
  BY LoadsAre
<1> DEFINE old == {k \in Calls \ {l} : Load[k] = "whole" /\ Load'[k] = "gone"}
<1>4. /\ old \in SUBSET {k \in Calls : Load[k] = "whole"}
      /\ Load' = [k \in Calls |-> IF k = l THEN outcome ELSE IF k \in old THEN "gone" ELSE Load[k]]
  BY DEF Load
<1>5. \A c \in D : Shared!Waiting(c)
  BY <1>1 DEF Shared!Waiting, Shared!Nothing, Nothing
<1> HIDE DEF D, old
<1>6. Shared!Settle(l, outcome, D)
  BY <1>1, <1>2, <1>3, <1>4, <1>5 DEF Shared!Settle, Load
<1> QED
  BY <1>1, <1>6 DEF Shared!Next

LEMMA SucceedRefines ==
  ASSUME IInv, NEW l \in Calls, pc[l] = "loading", l \notin aborted, Succeed(l), complete' = complete \cup {l},
         UNCHANGED <<topic, page, aborted>>
  PROVE  Shared!Next
<1>1. topic[l] \in Slots /\ page[l] # 0
  BY DEF IInv, CallsTrue
<1> DEFINE D == Listeners(l)
<1>2. /\ Tell(D, Answer("whole", l)) /\ D \subseteq Calls /\ l \in D
      /\ \A c \in D \ {l} : page[c] = 0
  BY ListenersWait DEF Succeed
<1>3. /\ state'[topic[l]].kept = l /\ state'[topic[l]].left = Ttl
      /\ \A t \in Slots \ {topic[l]} : state'[t] = state[t]
  <2>1. PICK old \in SlotState :
          old = Unregistered(state[topic[l]], l)
    BY <1>1, UnregisteredIs DEF IInv, TypeOK
  <2>2. state' = [state EXCEPT ![topic[l]] = [old EXCEPT !.kept = l, !.left = Ttl]]
    BY <1>1, <2>1 DEF Succeed, IInv, TypeOK
  <2> QED
    BY <1>1, <2>1, <2>2 DEF IInv, TypeOK
<1>4. /\ told' = [c \in Calls |-> IF c \in D THEN Answer("whole", l) ELSE told[c]]
      /\ pc' = [c \in Calls |-> IF c \in D THEN "done" ELSE pc[c]]
  BY <1>2 DEF Tell
<1> HIDE DEF D
<1>5. Load'[l] = "whole"
  BY <1>1, <1>2, <1>3, <1>4, LimitsAssumption DEF Load, LoadOf, Answer
<1>6. ASSUME NEW k \in Calls \ {l}
      PROVE  Load'[k] = Load[k] \/ (Load[k] = "whole" /\ Load'[k] = "gone")
  <2>1. CASE k \in D
    BY <1>2, <2>1 DEF Load, LoadOf
  <2>2. CASE k \notin D /\ topic[k] # topic[l]
    <3>1. page[k] = 0 \/ topic[k] \in Slots
      BY DEF IInv, CallsTrue
    <3> QED
      BY <1>3, <1>4, <2>2, <3>1 DEF Load, LoadOf
  <2>3. CASE k \notin D /\ topic[k] = topic[l]
    BY <1>3, <1>4, <2>3 DEF Load, LoadOf
  <2> QED
    BY <2>1, <2>2, <2>3
<1> QED
  BY <1>2, <1>5, <1>6, EndRefines DEF D

\* A load that fails leaves what is kept as it was.
LEMMA FailedLoads ==
  ASSUME IInv, NEW l \in Calls, pc[l] = "loading", NEW why, Fail(l, why),
         why \in [is : {"failed", "cancelled"}, by : Calls \cup {None}],
         UNCHANGED <<topic, page, complete>>
  PROVE  Load' = [Load EXCEPT ![l] = IF why.is = "failed" THEN "failed" ELSE "gone"]
<1>1. topic[l] \in Slots /\ page[l] # 0
  BY DEF IInv, CallsTrue
<1> DEFINE D == Listeners(l)
<1>2. D \subseteq Calls /\ l \in D /\ \A c \in D \ {l} : page[c] = 0
  BY ListenersWait
<1>3. /\ told' = [c \in Calls |-> IF c \in D THEN why ELSE told[c]]
      /\ pc' = [c \in Calls |-> IF c \in D THEN "done" ELSE pc[c]]
  BY DEF Fail, Tell
<1>4. \A t \in Slots : state'[t].kept = state[t].kept /\ state'[t].left = state[t].left
  <2>1. PICK old \in SlotState :
          old = state[topic[l]]
    BY <1>1 DEF IInv, TypeOK
  <2>2. Unregistered(old, l).kept = old.kept /\ Unregistered(old, l).left = old.left
    BY UnregisteredIs
  <2>3. state' = [state EXCEPT ![topic[l]] = Unregistered(old, l)]
    BY <2>1 DEF Fail
  <2> QED
    BY <1>1, <2>1, <2>2, <2>3 DEF IInv, TypeOK
<1> HIDE DEF D
<1>5. LoadOf(l)' = IF why.is = "failed" THEN "failed" ELSE "gone"
  BY <1>1, <1>2, <1>3 DEF LoadOf
<1>6. ASSUME NEW k \in Calls \ {l}
      PROVE  LoadOf(k)' = LoadOf(k)
  <2>1. CASE k \in D
    BY <1>2, <2>1 DEF LoadOf
  <2>2. CASE k \notin D
    <3>1. page[k] = 0 \/ topic[k] \in Slots
      BY DEF IInv, CallsTrue
    <3> QED
      BY <1>3, <1>4, <2>2, <3>1 DEF LoadOf
  <2> QED
    BY <2>1, <2>2
<1> QED
  BY <1>5, <1>6 DEF Load

LEMMA FailuresRefine ==
  ASSUME IInv, NEW l \in Calls, pc[l] = "loading", l \notin aborted, Fail(l, Answer("failed", l)),
         UNCHANGED <<topic, page, complete, aborted>>
  PROVE  Shared!Next
<1>1. /\ Answer("failed", l) \in [is : {"failed", "cancelled"}, by : Calls \cup {None}]
      /\ Answer("failed", l).is = "failed" /\ Tell(Listeners(l), Answer("failed", l))
  BY DEF Answer, Fail
<1>2. Load' = [Load EXCEPT ![l] = "failed"]
  BY <1>1, FailedLoads
<1>3. Load'[l] = "failed" /\ \A k \in Calls \ {l} : Load'[k] = Load[k]
  BY <1>2 DEF Load
<1> QED
  BY <1>1, <1>3, EndRefines

LEMMA AbandonLoadRefines ==
  ASSUME IInv, NEW l \in Calls, AbandonLoad(l)
  PROVE  Shared!Next
<1>1. /\ pc[l] = "loading" /\ l \in aborted /\ Fail(l, Answer("cancelled", None))
      /\ UNCHANGED <<topic, page, complete, aborted>>
  BY DEF AbandonLoad
<1>2. Answer("cancelled", None) \in [is : {"failed", "cancelled"}, by : Calls \cup {None}]
      /\ Answer("cancelled", None).is = "cancelled"
  BY DEF Answer
<1>3. Load' = [Load EXCEPT ![l] = "gone"]
  BY <1>1, <1>2, FailedLoads
<1>4. Listeners(l) = {l} /\ topic[l] # None /\ told[l] = Nothing
  BY <1>1, ListenersWait, NoneAssumption DEF Slots
<1>5. told' = [told EXCEPT ![l] = [is |-> "cancelled", by |-> None]]
  BY <1>1, <1>4 DEF Fail, Tell, Answer, IInv, TypeOK
<1>6. Shared!Withdraw(l)
  BY <1>1, <1>3, <1>4, <1>5 DEF Shared!Withdraw, Shared!Waiting, Shared!Nothing, Nothing, Load
<1> QED
  BY <1>6 DEF Shared!Next

LEMMA PageRefines ==
  ASSUME IInv, NEW l \in Calls, NEW hasMore \in BOOLEAN, NEW empty \in BOOLEAN, Page(l, hasMore, empty)
  PROVE  Shared!Next \/ UNCHANGED Shared!vars
<1>1. pc[l] = "loading" /\ l \notin aborted /\ UNCHANGED <<era, topic, waitsFor, aborted>>
  BY DEF Page
<1>2. CASE Verdict(page[l], hasMore, empty) = "next"
  <2>1. hasMore
    BY <1>2 DEF Verdict
  <2>2. complete' = complete
    BY <2>1 DEF Page
  <2>3. page' = [page EXCEPT ![l] = @ + 1] /\ UNCHANGED <<state, pc, told>>
    BY <1>2 DEF Page
  <2>4. page[l] # 0 /\ page'[l] # 0
    <3>1. page[l] \in 0 .. MaxPages /\ page[l] # 0 /\ page'[l] = page[l] + 1
      BY <1>1, <2>3 DEF IInv, TypeOK, CallsTrue
    <3> QED
      BY <3>1, LimitsAssumption
  <2>5. \A k \in Calls : LoadOf(k)' = LoadOf(k)
    BY <1>1, <2>2, <2>3, <2>4 DEF LoadOf, IInv, TypeOK
  <2> QED
    BY <1>1, <2>3, <2>5 DEF Shared!vars
<1>3. CASE Verdict(page[l], hasMore, empty) = "done"
  <2>1. ~ hasMore
    BY <1>3 DEF Verdict
  <2>2. complete' = complete \cup {l} /\ Succeed(l) /\ page' = page
    BY <1>3, <2>1 DEF Page
  <2> QED
    BY <1>1, <2>2, SucceedRefines
<1>4. CASE Verdict(page[l], hasMore, empty) = "refuse"
  <2>1. hasMore
    BY <1>4 DEF Verdict
  <2>2. Fail(l, Answer("failed", l)) /\ UNCHANGED <<page, complete>>
    BY <1>4, <2>1 DEF Page
  <2> QED
    BY <1>1, <2>2, FailuresRefine
<1> QED
  BY <1>2, <1>3, <1>4 DEF Verdict

LEMMA AbortRefines ==
  ASSUME NEW c \in Calls, Abort(c)
  PROVE  Shared!Next
<1>1. Load' = Load
  BY DEF Abort, Load, LoadOf
<1>2. Shared!Abort(c)
  BY <1>1 DEF Abort, Shared!Abort, Load
<1> QED
  BY <1>2 DEF Shared!Next

\* What expires is forgotten.
LEMMA TickRefines ==
  ASSUME IInv, Tick
  PROVE  Shared!Next \/ UNCHANGED Shared!vars
<1>1. UNCHANGED <<topic, pc, page, complete, aborted, told>>
  BY DEF Tick
<1>2. ASSUME NEW k \in Calls
      PROVE  Load'[k] = Load[k] \/ (Load[k] = "whole" /\ Load'[k] = "gone")
  <2>1. page[k] = 0 \/ topic[k] \in Slots
    BY DEF IInv, CallsTrue
  <2> QED
    BY <1>1, <2>1, TickEach DEF Load, LoadOf
<1> DEFINE old == {k \in Calls : Load[k] = "whole" /\ Load'[k] = "gone"}
<1>3. Load' = [k \in Calls |-> IF k \in old THEN "gone" ELSE Load[k]]
  BY <1>2 DEF Load
<1>4. CASE old = {}
  <2>1. Load' = Load
    BY <1>2, <1>4 DEF Load
  <2> QED
    BY <1>1, <2>1 DEF Load, Shared!vars
<1>5. CASE old # {}
  <2>1. old \in SUBSET Calls /\ \A k \in old : Load[k] = "whole"
    OBVIOUS
  <2> HIDE DEF old
  <2>2. Shared!Forget(old)
    BY <1>1, <1>3, <1>5, <2>1 DEF Shared!Forget, Load
  <2> QED
    BY <2>1, <2>2 DEF Shared!Next
<1> QED
  BY <1>4, <1>5

LEMMA StepRefines == IInv /\ [Next]_vars => [Shared!Next]_(Shared!vars)
<1> SUFFICES ASSUME IInv, [Next]_vars PROVE Shared!Next \/ UNCHANGED Shared!vars
  OBVIOUS
<1>1. ASSUME NEW l \in Calls, RequestFails(l) PROVE Shared!Next
  BY <1>1, FailuresRefine DEF RequestFails
<1>2. ASSUME Clear \/ UNCHANGED vars PROVE UNCHANGED Shared!vars
  BY <1>2 DEF Clear, vars, Shared!vars, LoadOf
<1> QED
  BY <1>1, <1>2, GetOrLoadRefines, PageRefines, AbandonLoadRefines, AbortRefines, TickRefines DEF Next

\* THEOREM. For any callers, kinds of data, numbers of pages and times to live, the
\* reference cache keeps the promise of SharedResult: nobody is served a partial,
\* expired or foreign load, or cancelled with another call (getOrLoad 379-416,
\* fetchAllPages 177-216).
THEOREM CacheSharesWholeLoads == Spec => SharesWholeLoads
BY Invariance, InitRefines, StepRefines, PTL DEF Spec, SharesWholeLoads, Shared!Spec
=============================================================================
