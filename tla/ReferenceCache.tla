---------------------------- MODULE ReferenceCache ----------------------------
(***************************************************************************)
(* The cache of technicians, business units, payment and membership types  *)
(* of one client: loads of several pages, shared by callers without a      *)
(* signal, kept for a while, and clear() at any time (src/cache.ts,         *)
(* getOrLoad with fetchAllPages and TtlCache).                              *)
(***************************************************************************)
EXTENDS Naturals

CONSTANTS Calls, Signalled,  \* calls, and those made in a context with a signal
          Namespaces,        \* "technicians", "business-units", ...
          MaxPages, Ttl,     \* DEFAULT_MAX_PAGES; ttlMs in ticks
          MaxClears,         \* bound of the model: how often clear() is called
          None

ASSUME SignalledAssumption == Signalled \subseteq Calls
ASSUME LimitsAssumption == MaxPages \in Nat \ {0} /\ Ttl \in Nat \ {0}

ASSUME NoneAssumption == None \notin Calls /\ None \notin (0 .. MaxClears) \X Namespaces
ASSUME ClearsAssumption == MaxClears \in Nat

VARIABLES
  era,       \* how often clientStates has been replaced
  state,     \* per era and namespace: the kept result, its time left, the load in flight
  topic,     \* era and namespace a call has asked for
  pc,        \* "idle", "loading", "joined", "done"
  waitsFor,  \* the load whose promise a joined call was given
  page,      \* the page a load asks for
  complete,  \* history: loads that have read the last page their source had
  aborted, told

vars == <<era, state, topic, pc, waitsFor, page, complete, aborted, told>>

Slots == (0 .. MaxClears) \X Namespaces
SlotState == [kept : Calls \cup {None}, left : 0 .. Ttl, inFlight : (Calls \ Signalled) \cup {None}]
Empty == [kept |-> None, left |-> 0, inFlight |-> None]
Nothing == [is |-> "nothing", by |-> None]
Answer(what, by) == [is |-> what, by |-> by]

TypeOK ==
  /\ era \in 0 .. MaxClears
  /\ state \in [Slots -> SlotState]
  /\ topic \in [Calls -> Slots \cup {None}]
  /\ pc \in [Calls -> {"idle", "loading", "joined", "done"}]
  /\ waitsFor \in [Calls -> Calls \cup {None}]
  /\ page \in [Calls -> 0 .. MaxPages] /\ complete \subseteq Calls
  /\ aborted \subseteq Signalled
  /\ told \in [Calls -> [is : {"nothing", "whole", "failed", "cancelled"}, by : Calls \cup {None}]]

Init ==
  /\ era = 0
  /\ state = [s \in Slots |-> Empty]
  /\ topic = [c \in Calls |-> None]
  /\ pc = [c \in Calls |-> "idle"]
  /\ waitsFor = [c \in Calls |-> None]
  /\ page = [c \in Calls |-> 0] /\ complete = {}
  /\ aborted = {} /\ told = [c \in Calls |-> Nothing]

Fresh(s) == state[s].kept # None /\ state[s].left > 0
SharesAlways(c) == TRUE
\* A load is shared only between callers without a signal.
Shares(c) == c \notin Signalled

\* The callers that await the promise of load l, its own among them.
Listeners(l) == {l} \cup {c \in Calls : pc[c] = "joined" /\ waitsFor[c] = l}

-----------------------------------------------------------------------------
Tell(those, answer) ==
  /\ told' = [c \in Calls |-> IF c \in those THEN answer ELSE told[c]]
  /\ pc' = [c \in Calls |-> IF c \in those THEN "done" ELSE pc[c]]

StartLoad(c, s) ==
  /\ pc' = [pc EXCEPT ![c] = "loading"]
  /\ page' = [page EXCEPT ![c] = 1]
  /\ state' = IF Shares(c) THEN [state EXCEPT ![s].inFlight = c] ELSE state
  /\ UNCHANGED <<waitsFor, complete, told>>

GetOrLoad(c, name) ==
  LET s == <<era, name>> IN
  /\ pc[c] = "idle"
  /\ topic' = [topic EXCEPT ![c] = s]
  /\ \/ /\ c \in aborted
        /\ Tell({c}, Answer("cancelled", None))
        /\ UNCHANGED <<state, waitsFor, page, complete>>
     \/ /\ c \notin aborted /\ Fresh(s)
        /\ Tell({c}, Answer("whole", state[s].kept))
        /\ UNCHANGED <<state, waitsFor, page, complete>>
     \/ /\ c \notin aborted /\ ~ Fresh(s) /\ Shares(c) /\ state[s].inFlight # None
        /\ pc' = [pc EXCEPT ![c] = "joined"]
        /\ waitsFor' = [waitsFor EXCEPT ![c] = state[s].inFlight]
        /\ UNCHANGED <<state, page, complete, told>>
     \/ /\ c \notin aborted /\ ~ Fresh(s) /\ ~ (Shares(c) /\ state[s].inFlight # None)
        /\ StartLoad(c, s)
  /\ UNCHANGED <<era, aborted>>

\* Both callbacks take a load out of inFlight, if it is the one registered there.
Unregistered(st, l) == IF st.inFlight = l THEN [st EXCEPT !.inFlight = None] ELSE st

Succeed(l) ==
  /\ state' = [state EXCEPT ![topic[l]] = [Unregistered(@, l) EXCEPT !.kept = l, !.left = Ttl]]
  /\ Tell(Listeners(l), Answer("whole", l))

Fail(l, why) ==
  /\ state' = [state EXCEPT ![topic[l]] = Unregistered(@, l)]
  /\ Tell(Listeners(l), why)

\* What a page means to the loop of fetchAllPages: an empty page that is not the
\* last, or a last page too many, ends it with an error.
Verdict(number, hasMore, empty) ==
  IF ~ hasMore THEN "done" ELSE IF empty \/ number = MaxPages THEN "refuse" ELSE "next"

\* A page arrives. The source says whether there are more and may be empty all
\* the same.
Page(l, hasMore, empty) ==
  LET verdict == Verdict(page[l], hasMore, empty) IN
  /\ pc[l] = "loading" /\ l \notin aborted
  /\ complete' = IF hasMore THEN complete ELSE complete \cup {l}
  /\ \/ /\ verdict = "next"
        /\ page' = [page EXCEPT ![l] = @ + 1]
        /\ UNCHANGED <<state, pc, told>>
     \/ verdict = "done" /\ Succeed(l) /\ UNCHANGED page
     \/ verdict = "refuse" /\ Fail(l, Answer("failed", l)) /\ UNCHANGED page
  /\ UNCHANGED <<era, topic, waitsFor, aborted>>

RequestFails(l) ==
  /\ pc[l] = "loading" /\ l \notin aborted
  /\ Fail(l, Answer("failed", l))
  /\ UNCHANGED <<era, topic, waitsFor, page, complete, aborted>>

\* The client rejects, or the check after the page does.
AbandonLoad(l) ==
  /\ pc[l] = "loading" /\ l \in aborted
  /\ Fail(l, Answer("cancelled", None))
  /\ UNCHANGED <<era, topic, waitsFor, page, complete, aborted>>

Abort(c) ==
  /\ c \in Signalled \ aborted /\ pc[c] # "done"
  /\ aborted' = aborted \cup {c}
  /\ UNCHANGED <<era, state, topic, pc, waitsFor, page, complete, told>>

\* clear() drops every state; loads that run keep the one they started with.
Clear ==
  /\ era < MaxClears
  /\ era' = era + 1
  /\ UNCHANGED <<state, topic, pc, waitsFor, page, complete, aborted, told>>

Tick ==
  /\ \E s \in Slots : state[s].left > 0
  /\ state' = [s \in Slots |-> [state[s] EXCEPT !.left = IF @ > 0 THEN @ - 1 ELSE 0]]
  /\ UNCHANGED <<era, topic, pc, waitsFor, page, complete, aborted, told>>

Next ==
  \/ \E c \in Calls : \/ \E name \in Namespaces : GetOrLoad(c, name)
                      \/ \E hasMore, empty \in BOOLEAN : Page(c, hasMore, empty)
                      \/ RequestFails(c) \/ AbandonLoad(c) \/ Abort(c)
  \/ Clear \/ Tick

Spec == Init /\ [][Next]_vars

-----------------------------------------------------------------------------
\* The load of l in the terms of SharedResult. It is whole when the loop read
\* every page the source had, and only as long as it is kept.
LoadOf(l) ==
  IF page[l] = 0 THEN "none"
  ELSE IF pc[l] = "loading" THEN "running"
  ELSE IF told[l].is = "failed" THEN "failed"
  ELSE IF told[l].is # "whole" THEN "gone"
  ELSE IF l \notin complete THEN "marked"
  ELSE IF state[topic[l]].kept = l /\ state[topic[l]].left > 0 THEN "whole" ELSE "gone"

Shared == INSTANCE SharedResult WITH
            Cancellable <- Signalled, Topics <- Slots, load <- [l \in Calls |-> LoadOf(l)]

\* PROPERTY. The reference cache keeps the promise of SharedResult: a caller is
\* answered by a load begun since the last clear(), complete to its last page and
\* not expired; failures and cancellations are neither kept nor passed to callers
\* who did not wait for that load (getOrLoad 379-416, fetchAllPages 177-216).
SharesWholeLoads == Shared!Spec
=============================================================================
