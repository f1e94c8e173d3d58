---------------------------- MODULE TransportProofs ----------------------------
(***************************************************************************)
(* What the two HTTP entry points promise: the streamable one with its      *)
(* sessions, for any clients, requests and limit, then the SSE one with its  *)
(* result store, for any number of connections, POSTs and results of any     *)
(* size.  They are different programs; nothing is shared but the shape of     *)
(* the argument.                                                            *)
(***************************************************************************)
EXTENDS HttpSessions, SseResults, FiniteSetTheorems, SequenceTheorems, WellFoundedInduction, TLAPS

-----------------------------------------------------------------------------
(* The inductive invariant of the sessions.                                 *)
(*                                                                         *)
(* The limit is checked against a counter and the size of the Map, before  *)
(* the asynchronous steps that fill the Map.  It holds because the counter *)
(* is the number of initializations under way and an initialization keeps  *)
(* its place until its session, if any, is in the Map.                     *)

RequestRecords ==
  [at : {"new", "handling", "returned", "done"}, on : Clients \cup {None}]

Types ==
  /\ pendingInitializations \in Nat
  /\ opening \in [Clients -> {"new", "building", "connecting", "answering",
                              "undoing", "done"}]
  /\ server \in [Clients -> {"none", "live", "closed"}]
  /\ sessions \subseteq Clients
  /\ closing \in [Clients -> {"no", "transport", "server", "closed"}]
  /\ activeRequests \in [Clients -> Nat]
  /\ idle \in [Clients -> BOOLEAN]
  /\ finished \in [Requests -> BOOLEAN]
  /\ request \in [Requests -> RequestRecords]
  /\ emitted \in [Requests -> SUBSET {"finish", "close"}]
  /\ run \in {"running", "closing", "draining", "exited"}
  /\ awaited \subseteq Clients

UnderWay == {c \in Clients : Initializing(c)}
Open(c)  == {r \in On(c) : ~finished[r]}

\* The places taken by initializations under way are those counted.
PlacesCounted ==
  /\ IsFiniteSet(UnderWay) /\ IsFiniteSet(sessions)
  /\ pendingInitializations = Cardinality(UnderWay)

\* A session counts the requests on it that have not finished.
RequestsCounted ==
  \A c \in Clients : /\ IsFiniteSet(Open(c))
                     /\ activeRequests[c] = Cardinality(Open(c))

\* A request is on a session from when it was accepted; a new one is not finished.
RequestsPlaced ==
  \A r \in Requests :
    /\ request[r].at \in {"handling", "returned"} => request[r].on \in Clients
    /\ request[r].at \in {"new", "done"} => request[r].on = None
    /\ request[r].at = "new" => ~finished[r]

\* A server is made by an initialization, which keeps hold of it until it is in
\* the Map; before that there is no session to close.
ServersHeld ==
  \A c \in Clients :
    /\ opening[c] \in {"new", "building"} => server[c] = "none"
    /\ opening[c] \in {"new", "building", "connecting"} =>
         c \notin sessions /\ closing[c] = "no"
    /\ server[c] = "live" => \/ c \in sessions
                             \/ opening[c] \in {"connecting", "undoing"}
                             \/ closing[c] = "server"

IInv ==
  /\ Types
  /\ PlacesCounted
  /\ WithinLimit
  /\ RequestsCounted
  /\ RequestsPlaced
  /\ ServersHeld

-----------------------------------------------------------------------------
(* Places.                                                                  *)

\* A smaller part of a finite set has no more elements.
LEMMA SubsetBound ==
  ASSUME NEW S, IsFiniteSet(S), NEW T, T \subseteq S
  PROVE  /\ IsFiniteSet(T)
         /\ Cardinality(T) \in Nat /\ Cardinality(S) \in Nat
         /\ Cardinality(T) <= Cardinality(S)
BY FS_Subset, FS_CardinalityType

\* Without a new initialization or session no place is taken.
LEMMA PlacesKept ==
  ASSUME Types, PlacesCounted, WithinLimit, sessions' \subseteq sessions,
         UNCHANGED <<opening, pendingInitializations>>
  PROVE  PlacesCounted' /\ WithinLimit'
<1>1. UnderWay' = UnderWay BY DEF UnderWay, Initializing
<1>2. IsFiniteSet(sessions') BY SubsetBound DEF PlacesCounted
<1>3. IsFiniteSet(sessions \cup UnderWay) BY FS_Union DEF PlacesCounted
<1>4. Cardinality((sessions \cup UnderWay)') <= Cardinality(sessions \cup UnderWay)
  BY <1>1, <1>3, SubsetBound
<1>5. Cardinality((sessions \cup UnderWay)') <= MaxSessions
  <2>1. /\ Cardinality((sessions \cup UnderWay)') \in Nat
        /\ Cardinality(sessions \cup UnderWay) \in Nat
    BY <1>1, <1>3, SubsetBound
  <2>2. QED BY <1>4, <2>1, MaxSessionsAssumption DEF WithinLimit, UnderWay
<1>6. QED BY <1>1, <1>2, <1>5 DEF PlacesCounted, WithinLimit, UnderWay

\* An initialization that begins takes one place, and there is one.
LEMMA PlaceTaken ==
  ASSUME Types, PlacesCounted, WithinLimit, NEW c \in Clients, ~Full,
         UnderWay' = UnderWay \cup {c}, c \notin UnderWay,
         pendingInitializations' = pendingInitializations + 1,
         UNCHANGED sessions
  PROVE  PlacesCounted' /\ WithinLimit'
<1> DEFINE n == Cardinality(sessions)
           I == UnderWay \cup {c}
<1>1. IsFiniteSet(I) /\ Cardinality(I) = Cardinality(UnderWay) + 1
  BY FS_AddElement DEF PlacesCounted
<1>2. /\ IsFiniteSet(sessions \cup I)
      /\ Cardinality(sessions \cup I) = n + Cardinality(I) - Cardinality(sessions \cap I)
  BY <1>1, FS_Union DEF PlacesCounted
<1>3. n \in Nat /\ Cardinality(I) \in Nat /\ Cardinality(sessions \cap I) \in Nat
  <2>1. IsFiniteSet(sessions \cap I) BY <1>1, SubsetBound
  <2>2. QED BY <1>1, <2>1, FS_CardinalityType DEF PlacesCounted
<1>4. n + pendingInitializations < MaxSessions
  BY <1>3, MaxSessionsAssumption DEF Full, Types
<1>5. Cardinality(sessions \cup I) <= MaxSessions
  BY <1>1, <1>2, <1>3, <1>4, MaxSessionsAssumption DEF PlacesCounted, Types
<1>6. QED BY <1>1, <1>5 DEF PlacesCounted, WithinLimit, UnderWay

\* An initialization that ends gives its place back.
LEMMA PlaceGivenBack ==
  ASSUME Types, PlacesCounted, WithinLimit, NEW c \in Clients, Initializing(c),
         opening' = [opening EXCEPT ![c] = "done"],
         pendingInitializations' = pendingInitializations - 1,
         UNCHANGED sessions
  PROVE  PlacesCounted' /\ WithinLimit' /\ pendingInitializations' \in Nat
<1>1. c \in UnderWay /\ UnderWay' = UnderWay \ {c} BY DEF UnderWay, Initializing, Types
<1>2. /\ IsFiniteSet(UnderWay \ {c})
      /\ Cardinality(UnderWay \ {c}) = Cardinality(UnderWay) - 1
  BY <1>1, FS_RemoveElement DEF PlacesCounted
<1>3. PlacesCounted' BY <1>1, <1>2 DEF PlacesCounted
<1>4. WithinLimit'
  <2>1. IsFiniteSet(sessions \cup UnderWay) BY FS_Union DEF PlacesCounted
  <2>2. /\ Cardinality(sessions \cup (UnderWay \ {c})) <= Cardinality(sessions \cup UnderWay)
        /\ Cardinality(sessions \cup (UnderWay \ {c})) \in Nat
        /\ Cardinality(sessions \cup UnderWay) \in Nat
    BY <2>1, SubsetBound
  <2>3. Cardinality(sessions \cup UnderWay) <= MaxSessions BY DEF WithinLimit, UnderWay
  <2>4. Cardinality(sessions \cup (UnderWay \ {c})) <= MaxSessions
    BY <2>2, <2>3, MaxSessionsAssumption
  <2>5. Cardinality(sessions' \cup UnderWay') <= MaxSessions BY <1>1, <2>4
  <2>6. QED BY <2>5 DEF WithinLimit, UnderWay
<1>5. pendingInitializations' \in Nat
  BY <1>2, <1>3, FS_CardinalityType DEF PlacesCounted
<1>6. QED BY <1>3, <1>4, <1>5

\* An initialization that goes on keeps its place, in the Map or out of it.
LEMMA PlaceKept ==
  ASSUME Types, PlacesCounted, WithinLimit, NEW c \in Clients, NEW place,
         Initializing(c), place \in {"connecting", "answering", "undoing"},
         opening' = [opening EXCEPT ![c] = place],
         sessions' \in {sessions, sessions \cup {c}},
         UNCHANGED pendingInitializations
  PROVE  PlacesCounted' /\ WithinLimit'
<1>1. c \in UnderWay /\ UnderWay' = UnderWay BY DEF UnderWay, Initializing, Types
<1>2. IsFiniteSet(sessions') BY FS_AddElement DEF PlacesCounted
<1>3. sessions' \cup UnderWay' = sessions \cup UnderWay BY <1>1
<1>4. QED BY <1>1, <1>2, <1>3 DEF PlacesCounted, WithinLimit, UnderWay

-----------------------------------------------------------------------------
(* Requests.                                                                *)

\* An accepted request is one more on its session.
LEMMA RequestOpens ==
  ASSUME Types, RequestsCounted, RequestsPlaced, NEW r \in Requests, NEW c \in Clients,
         request[r].on = None, ~finished[r],
         request' = [request EXCEPT ![r] = [at |-> "handling", on |-> c]],
         activeRequests' = [activeRequests EXCEPT ![c] = @ + 1],
         UNCHANGED finished
  PROVE  RequestsCounted'
<1> SUFFICES ASSUME NEW d \in Clients
             PROVE  /\ IsFiniteSet(Open(d)')
                    /\ activeRequests'[d] = Cardinality(Open(d)')
  BY DEF RequestsCounted
<1> DEFINE O == Open(d)
<1>1. IsFiniteSet(O) /\ activeRequests[d] = Cardinality(O) BY DEF RequestsCounted
<1>2. \A q \in Requests : q # r => request'[q] = request[q] BY DEF Types
<1>3. request'[r].on = c BY DEF Types
<1>4. r \notin O BY NoneAssumption DEF Open, On
<1>5. CASE d = c
  <2>1. O' = O \cup {r} BY <1>2, <1>3, <1>5 DEF Open, On
  <2>2. IsFiniteSet(O \cup {r}) /\ Cardinality(O \cup {r}) = Cardinality(O) + 1
    BY <1>1, <1>4, FS_AddElement
  <2>3. activeRequests'[d] = activeRequests[d] + 1 BY <1>5 DEF Types
  <2>4. QED BY <1>1, <2>1, <2>2, <2>3
<1>6. CASE d # c
  <2>1. O' = O BY <1>2, <1>3, <1>4, <1>6 DEF Open, On
  <2>2. activeRequests'[d] = activeRequests[d] BY <1>6 DEF Types
  <2>3. QED BY <1>1, <2>1, <2>2
<1>7. QED BY <1>5, <1>6

\* A finished request is one less, the first time only.
LEMMA RequestFinishes ==
  ASSUME Types, RequestsCounted, RequestsPlaced, NEW r \in Requests,
         request[r].on \in Clients, FinishedRequest(r),
         \A q \in Requests : request'[q].on = request[q].on
  PROVE  /\ RequestsCounted'
         /\ activeRequests' \in [Clients -> Nat]
         /\ finished' \in [Requests -> BOOLEAN] /\ idle' \in [Clients -> BOOLEAN]
<1> DEFINE c == request[r].on
<1>1. CASE finished[r]
  <2>1. UNCHANGED <<activeRequests, idle, finished>> BY <1>1 DEF FinishedRequest, countVars
  <2>2. \A d \in Clients : Open(d)' = Open(d) BY <2>1 DEF Open, On
  <2>3. QED BY <2>1, <2>2 DEF RequestsCounted, Types
<1>2. CASE ~finished[r]
  <2>1. /\ finished' = [finished EXCEPT ![r] = TRUE]
        /\ activeRequests' = [activeRequests EXCEPT ![c] = @ - 1]
        /\ idle' = [idle EXCEPT ![c] = FALSE]
    BY <1>2 DEF FinishedRequest
  <2>2. RequestsCounted'
    <3> SUFFICES ASSUME NEW d \in Clients
                 PROVE  /\ IsFiniteSet(Open(d)')
                        /\ activeRequests'[d] = Cardinality(Open(d)')
      BY DEF RequestsCounted
    <3> DEFINE O == Open(d)
    <3>1. IsFiniteSet(O) /\ activeRequests[d] = Cardinality(O) BY DEF RequestsCounted
    <3>2. O' = O \ {r} BY <2>1 DEF Open, On, Types
    <3>3. IsFiniteSet(O \ {r})
          /\ Cardinality(O \ {r}) = IF r \in O THEN Cardinality(O) - 1 ELSE Cardinality(O)
      BY <3>1, FS_RemoveElement
    <3>4. r \in O <=> d = c BY <1>2 DEF Open, On
    <3>5. activeRequests'[d] = IF d = c THEN activeRequests[d] - 1 ELSE activeRequests[d]
      BY <2>1 DEF Types
    <3>6. QED BY <3>1, <3>2, <3>3, <3>4, <3>5
  <2>3. activeRequests[c] \in Nat \ {0}
    <3>1. r \in Open(c) BY <1>2 DEF Open, On
    <3>2. Cardinality(Open(c)) # 0 BY <3>1, FS_EmptySet DEF RequestsCounted
    <3>3. QED BY <3>2 DEF RequestsCounted, Types
  <2>4. activeRequests' \in [Clients -> Nat]
    <3>1. activeRequests[c] - 1 \in Nat BY <2>3
    <3>2. activeRequests \in [Clients -> Nat] BY DEF Types
    <3>3. QED BY <2>1, <3>1, <3>2
  <2>5. finished' \in [Requests -> BOOLEAN] /\ idle' \in [Clients -> BOOLEAN]
    BY <2>1 DEF Types
  <2>6. QED BY <2>2, <2>4, <2>5
<1>3. QED BY <1>1, <1>2

\* Otherwise the requests counted are the same.
LEMMA RequestsKept ==
  ASSUME Types, RequestsCounted, UNCHANGED <<activeRequests, finished>>,
         \A r \in Requests : request'[r].on = request[r].on
  PROVE  RequestsCounted'
<1>1. \A d \in Clients : Open(d)' = Open(d) BY DEF Open, On
<1>2. QED BY <1>1 DEF RequestsCounted

-----------------------------------------------------------------------------
(* Every step preserves the invariant.  First initialization.               *)

LEMMA InitIInv == Init => IInv
<1> SUFFICES ASSUME Init PROVE IInv OBVIOUS
<1> USE DEF Init
<1>1. Types BY NoneAssumption DEF Types, RequestRecords
<1>2. UnderWay = {} /\ sessions = {} BY DEF UnderWay, Initializing
<1>3. PlacesCounted BY <1>2, FS_EmptySet DEF PlacesCounted
<1>4. WithinLimit
  <2>1. Cardinality(sessions \cup UnderWay) = 0 BY <1>2, FS_EmptySet
  <2>2. QED BY <2>1, MaxSessionsAssumption DEF WithinLimit, UnderWay
<1>5. RequestsCounted
  <2>1. \A c \in Clients : Open(c) = {} BY NoneAssumption DEF Open, On
  <2>2. QED BY <2>1, FS_EmptySet DEF RequestsCounted
<1>6. RequestsPlaced /\ ServersHeld BY DEF RequestsPlaced, ServersHeld
<1>7. QED BY <1>1, <1>3, <1>4, <1>5, <1>6 DEF IInv

\* closeSession only moves a session forward, and only from "no".
LEMMA ClosingStarts ==
  ASSUME Types, NEW these, StartClosing(these)
  PROVE  /\ closing' \in [Clients -> {"no", "transport", "server", "closed"}]
         /\ \A c \in Clients :
              closing'[c] = closing[c] \/ (closing[c] = "no" /\ c \in these \cap sessions)
BY DEF Types, StartClosing

\* A refused client takes no place; for the others there is one.
LEMMA BeginInitStep ==
  ASSUME IInv, NEW c \in Clients, BeginInit(c)
  PROVE  IInv'
<1> USE DEF BeginInit, initVars, sessionVars, countVars, requestVars,
            processVars
<1>0. /\ Types /\ PlacesCounted /\ WithinLimit
      /\ RequestsCounted /\ RequestsPlaced /\ ServersHeld
  BY DEF IInv
<1>1. Types'
  <2>1. pendingInitializations' \in Nat BY <1>0 DEF Types
  <2>2. QED BY <1>0, <2>1 DEF Types
<1>2. PlacesCounted' /\ WithinLimit'
  <2>1. CASE Full
    <3>1. UnderWay' = UnderWay BY <1>0, <2>1 DEF UnderWay, Initializing, Types
    <3>2. pendingInitializations' = pendingInitializations BY <1>0, <2>1 DEF Types
    <3>3. QED BY <1>0, <3>1, <3>2 DEF PlacesCounted, WithinLimit, UnderWay
  <2>2. CASE ~Full
    <3>1. UnderWay' = UnderWay \cup {c} /\ c \notin UnderWay
      BY <1>0, <2>2 DEF UnderWay, Initializing, Types
    <3>2. pendingInitializations' = pendingInitializations + 1 BY <2>2
    <3>3. QED BY <1>0, <2>2, <3>1, <3>2, PlaceTaken
  <2>3. QED BY <2>1, <2>2
<1>3. RequestsCounted' BY <1>0, RequestsKept
<1>4. RequestsPlaced' BY <1>0 DEF RequestsPlaced
<1>5. ServersHeld' BY <1>0 DEF Types, ServersHeld
<1>6. QED BY <1>1, <1>2, <1>3, <1>4, <1>5 DEF IInv

LEMMA ServerBuiltStep ==
  ASSUME IInv, NEW c \in Clients, ServerBuilt(c)
  PROVE  IInv'
<1> USE DEF ServerBuilt, initVars, sessionVars, countVars, requestVars,
            processVars
<1>0. /\ Types /\ PlacesCounted /\ WithinLimit
      /\ RequestsCounted /\ RequestsPlaced /\ ServersHeld
  BY DEF IInv
<1>1. Types' BY <1>0 DEF Types
<1>2. PlacesCounted' /\ WithinLimit' BY <1>0, PlaceKept DEF Initializing
<1>3. RequestsCounted' BY <1>0, RequestsKept
<1>4. RequestsPlaced' BY <1>0 DEF RequestsPlaced
<1>5. ServersHeld' BY <1>0 DEF Types, ServersHeld
<1>6. QED BY <1>1, <1>2, <1>3, <1>4, <1>5 DEF IInv

LEMMA BuildFailsStep ==
  ASSUME IInv, NEW c \in Clients, BuildFails(c)
  PROVE  IInv'
<1> USE DEF BuildFails, EndInit, initVars, sessionVars, countVars, requestVars,
            processVars
<1>0. /\ Types /\ PlacesCounted /\ WithinLimit
      /\ RequestsCounted /\ RequestsPlaced /\ ServersHeld
  BY DEF IInv
<1>1. Types'
  <2>1. pendingInitializations' \in Nat
    BY <1>0, PlaceGivenBack DEF Initializing
  <2>2. QED BY <1>0, <2>1 DEF Types
<1>2. PlacesCounted' /\ WithinLimit' BY <1>0, PlaceGivenBack DEF Initializing
<1>3. RequestsCounted' BY <1>0, RequestsKept
<1>4. RequestsPlaced' BY <1>0 DEF RequestsPlaced
<1>5. ServersHeld' BY <1>0 DEF Types, ServersHeld
<1>6. QED BY <1>1, <1>2, <1>3, <1>4, <1>5 DEF IInv

\* The session has the place that its initialization has held.
LEMMA RegisterStep ==
  ASSUME IInv, NEW c \in Clients, Register(c)
  PROVE  IInv'
<1> USE DEF Register, initVars, sessionVars, countVars, requestVars,
            processVars
<1>0. /\ Types /\ PlacesCounted /\ WithinLimit
      /\ RequestsCounted /\ RequestsPlaced /\ ServersHeld
  BY DEF IInv
<1>1. Types' BY <1>0 DEF Types
<1>2. PlacesCounted' /\ WithinLimit' BY <1>0, PlaceKept DEF Initializing
<1>3. RequestsCounted' BY <1>0, RequestsKept
<1>4. RequestsPlaced' BY <1>0 DEF RequestsPlaced
<1>5. ServersHeld' BY <1>0 DEF Types, ServersHeld
<1>6. QED BY <1>1, <1>2, <1>3, <1>4, <1>5 DEF IInv

LEMMA NoSessionStep ==
  ASSUME IInv, NEW c \in Clients, NoSession(c)
  PROVE  IInv'
<1> USE DEF NoSession, AfterNoSession, initVars, sessionVars, countVars,
            requestVars, processVars
<1>0. /\ Types /\ PlacesCounted /\ WithinLimit
      /\ RequestsCounted /\ RequestsPlaced /\ ServersHeld
  BY DEF IInv
<1>1. Types' BY <1>0 DEF Types
<1>2. PlacesCounted' /\ WithinLimit' BY <1>0, PlaceKept DEF Initializing
<1>3. RequestsCounted' BY <1>0, RequestsKept
<1>4. RequestsPlaced' BY <1>0 DEF RequestsPlaced
<1>5. ServersHeld' BY <1>0 DEF Types, ServersHeld
<1>6. QED BY <1>1, <1>2, <1>3, <1>4, <1>5 DEF IInv

\* The server is closed before the initialization lets go of it.
LEMMA UndoneStep ==
  ASSUME IInv, NEW c \in Clients, Undone(c)
  PROVE  IInv'
<1> USE DEF Undone, EndInit, initVars, sessionVars, countVars, requestVars,
            processVars
<1>0. /\ Types /\ PlacesCounted /\ WithinLimit
      /\ RequestsCounted /\ RequestsPlaced /\ ServersHeld
  BY DEF IInv
<1>1. Types'
  <2>1. pendingInitializations' \in Nat
    BY <1>0, PlaceGivenBack DEF Initializing
  <2>2. QED BY <1>0, <2>1 DEF Types
<1>2. PlacesCounted' /\ WithinLimit' BY <1>0, PlaceGivenBack DEF Initializing
<1>3. RequestsCounted' BY <1>0, RequestsKept
<1>4. RequestsPlaced' BY <1>0 DEF RequestsPlaced
<1>5. ServersHeld' BY <1>0 DEF Types, ServersHeld
<1>6. QED BY <1>1, <1>2, <1>3, <1>4, <1>5 DEF IInv

\* The session is in the Map by now, or has been closed since.
LEMMA InitSucceedsStep ==
  ASSUME IInv, NEW c \in Clients, InitSucceeds(c)
  PROVE  IInv'
<1> USE DEF InitSucceeds, EndInit, initVars, sessionVars, countVars,
            requestVars, processVars
<1>0. /\ Types /\ PlacesCounted /\ WithinLimit
      /\ RequestsCounted /\ RequestsPlaced /\ ServersHeld
  BY DEF IInv
<1>1. Types'
  <2>1. pendingInitializations' \in Nat
    BY <1>0, PlaceGivenBack DEF Initializing
  <2>2. QED BY <1>0, <2>1 DEF Types
<1>2. PlacesCounted' /\ WithinLimit' BY <1>0, PlaceGivenBack DEF Initializing
<1>3. RequestsCounted' BY <1>0, RequestsKept
<1>4. RequestsPlaced' BY <1>0 DEF RequestsPlaced
<1>5. ServersHeld' BY <1>0 DEF Types, ServersHeld
<1>6. QED BY <1>1, <1>2, <1>3, <1>4, <1>5 DEF IInv

LEMMA InitFailsStep ==
  ASSUME IInv, NEW c \in Clients, InitFails(c)
  PROVE  IInv'
<1> USE DEF InitFails, EndInit, initVars, sessionVars, countVars, requestVars,
            processVars
<1>0. /\ Types /\ PlacesCounted /\ WithinLimit
      /\ RequestsCounted /\ RequestsPlaced /\ ServersHeld
  BY DEF IInv
<1>1. Types'
  <2>1. pendingInitializations' \in Nat
    BY <1>0, PlaceGivenBack DEF Initializing
  <2>2. closing' \in [Clients -> {"no", "transport", "server", "closed"}]
    BY <1>0, ClosingStarts
  <2>3. QED BY <1>0, <2>1, <2>2 DEF Types
<1>2. PlacesCounted' /\ WithinLimit' BY <1>0, PlaceGivenBack DEF Initializing
<1>3. RequestsCounted' BY <1>0, RequestsKept
<1>4. RequestsPlaced' BY <1>0 DEF RequestsPlaced
<1>5. ServersHeld' BY <1>0, ClosingStarts DEF Types, ServersHeld
<1>6. QED BY <1>1, <1>2, <1>3, <1>4, <1>5 DEF IInv

-----------------------------------------------------------------------------
(* Closing, and the passing of time.                                        *)

\* A session leaves the Map for the close of its server.
LEMMA TransportClosedStep ==
  ASSUME IInv, NEW c \in Clients, TransportClosed(c)
  PROVE  IInv'
<1> USE DEF TransportClosed, initVars, sessionVars, countVars, requestVars,
            processVars
<1>0. /\ Types /\ PlacesCounted /\ WithinLimit
      /\ RequestsCounted /\ RequestsPlaced /\ ServersHeld
  BY DEF IInv
<1>1. Types' BY <1>0 DEF Types
<1>2. PlacesCounted' /\ WithinLimit' BY <1>0, PlacesKept
<1>3. RequestsCounted' BY <1>0, RequestsKept
<1>4. RequestsPlaced' BY <1>0 DEF RequestsPlaced
<1>5. ServersHeld' BY <1>0 DEF Types, ServersHeld
<1>6. QED BY <1>1, <1>2, <1>3, <1>4, <1>5 DEF IInv

LEMMA ServerClosedStep ==
  ASSUME IInv, NEW c \in Clients, ServerClosed(c)
  PROVE  IInv'
<1> USE DEF ServerClosed, initVars, sessionVars, countVars, requestVars,
            processVars
<1>0. /\ Types /\ PlacesCounted /\ WithinLimit
      /\ RequestsCounted /\ RequestsPlaced /\ ServersHeld
  BY DEF IInv
<1>1. Types' BY <1>0 DEF Types
<1>2. PlacesCounted' /\ WithinLimit' BY <1>0, PlacesKept
<1>3. RequestsCounted' BY <1>0, RequestsKept
<1>4. RequestsPlaced' BY <1>0 DEF RequestsPlaced
<1>5. ServersHeld' BY <1>0 DEF Types, ServersHeld
<1>6. QED BY <1>1, <1>2, <1>3, <1>4, <1>5 DEF IInv

LEMMA AgeStep ==
  ASSUME IInv, NEW c \in Clients, Age(c)
  PROVE  IInv'
<1> USE DEF Age, initVars, sessionVars, countVars, requestVars, processVars
<1>0. /\ Types /\ PlacesCounted /\ WithinLimit
      /\ RequestsCounted /\ RequestsPlaced /\ ServersHeld
  BY DEF IInv
<1>1. Types' BY <1>0 DEF Types
<1>2. PlacesCounted' /\ WithinLimit' BY <1>0, PlacesKept
<1>3. RequestsCounted' BY <1>0, RequestsKept
<1>4. RequestsPlaced' BY <1>0 DEF RequestsPlaced
<1>5. ServersHeld' BY <1>0 DEF Types, ServersHeld
<1>6. QED BY <1>1, <1>2, <1>3, <1>4, <1>5 DEF IInv

\* The reaper closes what it finds in the Map; no place is given back yet.
LEMMA ReapStep ==
  ASSUME IInv, Reap
  PROVE  IInv'
<1> USE DEF Reap, initVars, sessionVars, countVars, requestVars, processVars
<1>0. /\ Types /\ PlacesCounted /\ WithinLimit
      /\ RequestsCounted /\ RequestsPlaced /\ ServersHeld
  BY DEF IInv
<1>1. Types' BY <1>0, ClosingStarts DEF Types
<1>2. PlacesCounted' /\ WithinLimit' BY <1>0, PlacesKept
<1>3. RequestsCounted' BY <1>0, RequestsKept
<1>4. RequestsPlaced' BY <1>0 DEF RequestsPlaced
<1>5. ServersHeld' BY <1>0, ClosingStarts DEF Types, ServersHeld
<1>6. QED BY <1>1, <1>2, <1>3, <1>4, <1>5 DEF IInv

-----------------------------------------------------------------------------
(* Requests.                                                                *)

LEMMA RejectStep ==
  ASSUME IInv, NEW r \in Requests, NEW c \in Clients, Reject(r, c)
  PROVE  IInv'
<1> USE DEF Reject, initVars, sessionVars, countVars, requestVars, processVars
<1>0. /\ Types /\ PlacesCounted /\ WithinLimit
      /\ RequestsCounted /\ RequestsPlaced /\ ServersHeld
  BY DEF IInv
<1>1. Types'
  <2>1. request' \in [Requests -> RequestRecords]
    BY <1>0 DEF Types, RequestRecords
  <2>2. QED BY <1>0, <2>1 DEF Types
<1>2. PlacesCounted' /\ WithinLimit' BY <1>0, PlacesKept
<1>3. RequestsCounted'
  <2>1. \A q \in Requests : request'[q].on = request[q].on
    BY <1>0 DEF Types, RequestRecords
  <2>2. QED BY <1>0, <2>1, RequestsKept
<1>4. RequestsPlaced' BY <1>0 DEF Types, RequestRecords, RequestsPlaced
<1>5. ServersHeld' BY <1>0 DEF Types, ServersHeld
<1>6. QED BY <1>1, <1>2, <1>3, <1>4, <1>5 DEF IInv

LEMMA AcceptStep ==
  ASSUME IInv, NEW r \in Requests, NEW c \in Clients, Accept(r, c)
  PROVE  IInv'
<1> USE DEF Accept, initVars, sessionVars, countVars, requestVars, processVars
<1>0. /\ Types /\ PlacesCounted /\ WithinLimit
      /\ RequestsCounted /\ RequestsPlaced /\ ServersHeld
  BY DEF IInv
<1>1. Types'
  <2>1. request' \in [Requests -> RequestRecords]
    BY <1>0 DEF Types, RequestRecords
  <2>2. activeRequests' \in [Clients -> Nat] BY <1>0 DEF Types
  <2>3. QED BY <1>0, <2>1, <2>2 DEF Types
<1>2. PlacesCounted' /\ WithinLimit' BY <1>0, PlacesKept
<1>3. RequestsCounted' BY <1>0, RequestOpens DEF RequestsPlaced
<1>4. RequestsPlaced' BY <1>0 DEF Types, RequestRecords, RequestsPlaced
<1>5. ServersHeld' BY <1>0 DEF Types, ServersHeld
<1>6. QED BY <1>1, <1>2, <1>3, <1>4, <1>5 DEF IInv

\* Either event may be the first to report the end of the request.
LEMMA ResponseEventStep ==
  ASSUME IInv, NEW r \in Requests, NEW event \in {"finish", "close"},
         ResponseEvent(r, event)
  PROVE  IInv'
<1> USE DEF ResponseEvent, initVars, sessionVars, requestVars, processVars
<1>0. /\ Types /\ PlacesCounted /\ WithinLimit
      /\ RequestsCounted /\ RequestsPlaced /\ ServersHeld
  BY DEF IInv
<1>1. /\ request[r].on \in Clients
      /\ request' \in [Requests -> RequestRecords]
      /\ \A q \in Requests : request'[q].on = request[q].on
  BY <1>0 DEF Types, RequestRecords, RequestsPlaced
<1>2. /\ RequestsCounted'
      /\ activeRequests' \in [Clients -> Nat]
      /\ finished' \in [Requests -> BOOLEAN] /\ idle' \in [Clients -> BOOLEAN]
  <2>1. CASE ListensTo(event)
    BY <1>0, <1>1, <2>1, RequestFinishes
  <2>2. CASE ~ListensTo(event)
    <3>1. UNCHANGED <<activeRequests, finished, idle>> BY <2>2 DEF countVars
    <3>2. QED BY <1>0, <1>1, <3>1, RequestsKept DEF Types
  <2>3. QED BY <2>1, <2>2
<1>3. Types'
  BY <1>0, <1>1, <1>2 DEF Types
<1>4. PlacesCounted' /\ WithinLimit' BY <1>0, PlacesKept
<1>5. RequestsPlaced'
  <2>1. \A q \in Requests : q # r => finished'[q] = finished[q]
    BY <1>0 DEF FinishedRequest, countVars, Types
  <2>2. QED BY <1>0, <1>1, <2>1 DEF Types, RequestRecords, RequestsPlaced
<1>6. ServersHeld'
  BY <1>0 DEF Types, ServersHeld
<1>7. QED BY <1>2, <1>3, <1>4, <1>5, <1>6 DEF IInv

\* A handler that returns before the response has ended leaves the count alone.
LEMMA HandlerReturnsStep ==
  ASSUME IInv, NEW r \in Requests, NEW writableEnded \in BOOLEAN,
         HandlerReturns(r, writableEnded)
  PROVE  IInv'
<1> USE DEF HandlerReturns, HandlerLeaves, initVars, sessionVars, requestVars,
            processVars
<1>0. /\ Types /\ PlacesCounted /\ WithinLimit
      /\ RequestsCounted /\ RequestsPlaced /\ ServersHeld
  BY DEF IInv
<1>1. /\ request[r].on \in Clients
      /\ request' \in [Requests -> RequestRecords]
      /\ \A q \in Requests : request'[q].on = request[q].on
  BY <1>0 DEF Types, RequestRecords, RequestsPlaced
<1>2. /\ RequestsCounted'
      /\ activeRequests' \in [Clients -> Nat]
      /\ finished' \in [Requests -> BOOLEAN] /\ idle' \in [Clients -> BOOLEAN]
  <2>1. CASE writableEnded
    BY <1>0, <1>1, <2>1, RequestFinishes
  <2>2. CASE ~writableEnded
    <3>1. UNCHANGED <<activeRequests, finished, idle>> BY <2>2 DEF countVars
    <3>2. QED BY <1>0, <1>1, <3>1, RequestsKept DEF Types
  <2>3. QED BY <2>1, <2>2
<1>3. Types'
  BY <1>0, <1>1, <1>2 DEF Types
<1>4. PlacesCounted' /\ WithinLimit' BY <1>0, PlacesKept
<1>5. RequestsPlaced'
  <2>1. \A q \in Requests : q # r => finished'[q] = finished[q]
    BY <1>0 DEF FinishedRequest, countVars, Types
  <2>2. QED BY <1>0, <1>1, <2>1 DEF Types, RequestRecords, RequestsPlaced
<1>6. ServersHeld'
  BY <1>0 DEF Types, ServersHeld
<1>7. QED BY <1>2, <1>3, <1>4, <1>5, <1>6 DEF IInv

LEMMA HandlerFailsStep ==
  ASSUME IInv, NEW r \in Requests, NEW writableEnded \in BOOLEAN,
         HandlerFails(r, writableEnded)
  PROVE  IInv'
<1> USE DEF HandlerFails, HandlerLeaves, initVars, sessionVars, requestVars,
            processVars
<1>0. /\ Types /\ PlacesCounted /\ WithinLimit
      /\ RequestsCounted /\ RequestsPlaced /\ ServersHeld
  BY DEF IInv
<1>1. /\ request[r].on \in Clients
      /\ request' \in [Requests -> RequestRecords]
      /\ \A q \in Requests : request'[q].on = request[q].on
  BY <1>0 DEF Types, RequestRecords, RequestsPlaced
<1>2. /\ RequestsCounted'
      /\ activeRequests' \in [Clients -> Nat]
      /\ finished' \in [Requests -> BOOLEAN] /\ idle' \in [Clients -> BOOLEAN]
  <2>1. CASE writableEnded
    BY <1>0, <1>1, <2>1, RequestFinishes
  <2>2. CASE ~writableEnded
    <3>1. UNCHANGED <<activeRequests, finished, idle>> BY <2>2 DEF countVars
    <3>2. QED BY <1>0, <1>1, <3>1, RequestsKept DEF Types
  <2>3. QED BY <2>1, <2>2
<1>3. Types'
  BY <1>0, <1>1, <1>2, ClosingStarts DEF Types
<1>4. PlacesCounted' /\ WithinLimit' BY <1>0, PlacesKept
<1>5. RequestsPlaced'
  <2>1. \A q \in Requests : q # r => finished'[q] = finished[q]
    BY <1>0 DEF FinishedRequest, countVars, Types
  <2>2. QED BY <1>0, <1>1, <2>1 DEF Types, RequestRecords, RequestsPlaced
<1>6. ServersHeld'
  BY <1>0, ClosingStarts DEF Types, ServersHeld
<1>7. QED BY <1>2, <1>3, <1>4, <1>5, <1>6 DEF IInv

LEMMA DisconnectStep ==
  ASSUME IInv, NEW r \in Requests, Disconnect(r)
  PROVE  IInv'
<1> USE DEF Disconnect, initVars, sessionVars, countVars, requestVars,
            processVars
<1>0. /\ Types /\ PlacesCounted /\ WithinLimit
      /\ RequestsCounted /\ RequestsPlaced /\ ServersHeld
  BY DEF IInv
<1>1. Types' BY <1>0, ClosingStarts DEF Types
<1>2. PlacesCounted' /\ WithinLimit' BY <1>0, PlacesKept
<1>3. RequestsCounted' BY <1>0, RequestsKept
<1>4. RequestsPlaced' BY <1>0 DEF RequestsPlaced
<1>5. ServersHeld' BY <1>0, ClosingStarts DEF Types, ServersHeld
<1>6. QED BY <1>1, <1>2, <1>3, <1>4, <1>5 DEF IInv

-----------------------------------------------------------------------------
(* Shutdown.                                                                *)

\* Initializations under way keep their places through shutdown.
LEMMA ShutdownStep ==
  ASSUME IInv, Shutdown
  PROVE  IInv'
<1> USE DEF Shutdown, initVars, sessionVars, countVars, requestVars,
            processVars
<1>0. /\ Types /\ PlacesCounted /\ WithinLimit
      /\ RequestsCounted /\ RequestsPlaced /\ ServersHeld
  BY DEF IInv
<1>1. Types' BY <1>0, ClosingStarts DEF Types
<1>2. PlacesCounted' /\ WithinLimit' BY <1>0, PlacesKept
<1>3. RequestsCounted' BY <1>0, RequestsKept
<1>4. RequestsPlaced' BY <1>0 DEF RequestsPlaced
<1>5. ServersHeld' BY <1>0, ClosingStarts DEF Types, ServersHeld
<1>6. QED BY <1>1, <1>2, <1>3, <1>4, <1>5 DEF IInv

LEMMA DrainStep ==
  ASSUME IInv, Drain
  PROVE  IInv'
<1> USE DEF Drain, initVars, sessionVars, countVars, requestVars, processVars
<1>0. /\ Types /\ PlacesCounted /\ WithinLimit
      /\ RequestsCounted /\ RequestsPlaced /\ ServersHeld
  BY DEF IInv
<1>1. Types' BY <1>0 DEF Types
<1>2. PlacesCounted' /\ WithinLimit' BY <1>0, PlacesKept
<1>3. RequestsCounted' BY <1>0, RequestsKept
<1>4. RequestsPlaced' BY <1>0 DEF RequestsPlaced
<1>5. ServersHeld' BY <1>0 DEF Types, ServersHeld
<1>6. QED BY <1>1, <1>2, <1>3, <1>4, <1>5 DEF IInv

LEMMA CleanExitStep ==
  ASSUME IInv, CleanExit
  PROVE  IInv'
<1> USE DEF CleanExit, initVars, sessionVars, countVars, requestVars,
            processVars
<1>0. /\ Types /\ PlacesCounted /\ WithinLimit
      /\ RequestsCounted /\ RequestsPlaced /\ ServersHeld
  BY DEF IInv
<1>1. Types' BY <1>0 DEF Types
<1>2. PlacesCounted' /\ WithinLimit' BY <1>0, PlacesKept
<1>3. RequestsCounted' BY <1>0, RequestsKept
<1>4. RequestsPlaced' BY <1>0 DEF RequestsPlaced
<1>5. ServersHeld' BY <1>0 DEF Types, ServersHeld
<1>6. QED BY <1>1, <1>2, <1>3, <1>4, <1>5 DEF IInv

LEMMA ForcedExitStep ==
  ASSUME IInv, ForcedExit
  PROVE  IInv'
<1> USE DEF ForcedExit, initVars, sessionVars, countVars, requestVars,
            processVars
<1>0. /\ Types /\ PlacesCounted /\ WithinLimit
      /\ RequestsCounted /\ RequestsPlaced /\ ServersHeld
  BY DEF IInv
<1>1. Types' BY <1>0 DEF Types
<1>2. PlacesCounted' /\ WithinLimit' BY <1>0, PlacesKept
<1>3. RequestsCounted' BY <1>0, RequestsKept
<1>4. RequestsPlaced' BY <1>0 DEF RequestsPlaced
<1>5. ServersHeld' BY <1>0 DEF Types, ServersHeld
<1>6. QED BY <1>1, <1>2, <1>3, <1>4, <1>5 DEF IInv
-----------------------------------------------------------------------------
(* The theorems.                                                            *)

LEMMA NextIInv == IInv /\ [Next]_vars => IInv'
<1> SUFFICES ASSUME IInv, [Next]_vars PROVE IInv' OBVIOUS
<1>1. ASSUME NEW c \in Clients, ClientStep(c) \/ SessionStep(c)
      PROVE  IInv'
  BY <1>1, BeginInitStep, ServerBuiltStep, BuildFailsStep, RegisterStep,
     NoSessionStep, UndoneStep, InitSucceedsStep, InitFailsStep,
     TransportClosedStep, ServerClosedStep, AgeStep
     DEF ClientStep, SessionStep
<1>2. ASSUME NEW r \in Requests, RequestStep(r)
      PROVE  IInv'
  BY <1>2, RejectStep, AcceptStep, ResponseEventStep, HandlerReturnsStep,
     HandlerFailsStep, DisconnectStep
     DEF RequestStep
<1>3. CASE Reap \/ Shutdown \/ Drain \/ CleanExit \/ ForcedExit
  BY <1>3, ReapStep, ShutdownStep, DrainStep, CleanExitStep, ForcedExitStep
<1>4. CASE UNCHANGED vars
  BY <1>4 DEF vars, initVars, sessionVars, countVars, requestVars, processVars, IInv,
     Types, PlacesCounted, WithinLimit, UnderWay, Initializing, RequestsCounted, Open,
     On, RequestsPlaced, ServersHeld
<1>5. QED BY <1>1, <1>2, <1>3, <1>4 DEF Next

\* The inductive invariant holds throughout.
THEOREM SessionInvariant == Spec => []IInv
BY InitIInv, NextIInv, PTL DEF Spec

\* However initializations overlap, the sessions open and those being opened are
\* together never more than config.maxSessions.
THEOREM SessionsWithinLimit == Spec => []WithinLimit
<1>1. IInv => WithinLimit BY DEF IInv
<1>2. QED BY <1>1, SessionInvariant, PTL

\* pendingInitializations is the number of initializations under way, and a
\* session's activeRequests the number of requests on it whose response has not
\* ended, although "finish", "close" and the handler all report the end.
THEOREM CountersStayExact == Spec => []CountersExact
<1>1. IInv => CountersExact
  BY DEF IInv, PlacesCounted, UnderWay, RequestsCounted, Open, CountersExact
<1>2. QED BY <1>1, SessionInvariant, PTL

\* A server that was created is in the Map, on its way out of it, or in the
\* hands of the request that makes it.
THEOREM NoServerIsStranded == Spec => []NothingStranded
<1>1. IInv => NothingStranded
  BY DEF IInv, Types, ServersHeld, NothingStranded, Initializing
<1>2. QED BY <1>1, SessionInvariant, PTL

\* A session with an open stream is closed only by its own client, by the
\* failure of a request on it or of its initialization, or at shutdown: the
\* reaper goes by a count that is exact.
THEOREM StreamsAreKept == Spec => StreamsKept
<1> DEFINE Excused(c) == \/ \E r \in On(c) : request[r].at = "handling"
                         \/ opening[c] = "answering"
                         \/ \A r \in On(c) : finished[r]
           A == \A c \in Clients :
                  closing[c] = "no" /\ closing'[c] # "no" /\ run' = "running" => Excused(c)
<1>1. ASSUME IInv, [Next]_vars
      PROVE  A
  <2> SUFFICES ASSUME NEW c \in Clients, closing[c] = "no", closing'[c] # "no",
                      run' = "running"
               PROVE  Excused(c)
    OBVIOUS
  <2>0. Types /\ RequestsCounted BY <1>1 DEF IInv
  <2>1. \/ Reap
        \/ \E d \in Clients : InitFails(d) \/ TransportClosed(d) \/ ServerClosed(d)
        \/ \E r \in Requests, w \in BOOLEAN : HandlerFails(r, w)
        \/ \E r \in Requests : Disconnect(r)
    <3>1. closing' # closing BY DEF Types
    <3>2. run' = "running" OBVIOUS
    <3>3. QED
      BY <1>1, <3>1, <3>2 DEF Next, ClientStep, SessionStep, RequestStep, BeginInit,
         ServerBuilt, BuildFails, Register, NoSession, AfterNoSession, Undone,
         InitSucceeds, Age, Reject, Accept, ResponseEvent, HandlerReturns, Shutdown,
         Drain, CleanExit, ForcedExit, vars, initVars, sessionVars, processVars
  <2>2. CASE Reap
    <3>1. c \in Expired BY <2>0, <2>2, ClosingStarts DEF Reap
    <3>2. Cardinality(Open(c)) = 0 BY <2>0, <3>1 DEF Expired, RequestsCounted
    <3>3. Open(c) = {} BY <2>0, <3>2, FS_EmptySet DEF RequestsCounted
    <3>4. QED BY <3>3 DEF Open
  <2>3. ASSUME NEW d \in Clients, InitFails(d) \/ TransportClosed(d) \/ ServerClosed(d)
        PROVE  Excused(c)
    <3>1. CASE InitFails(d) BY <2>0, <3>1, ClosingStarts DEF InitFails
    <3>2. CASE TransportClosed(d) \/ ServerClosed(d)
      BY <2>0, <3>2 DEF TransportClosed, ServerClosed, Types
    <3>3. QED BY <2>3, <3>1, <3>2
  <2>4. ASSUME NEW r \in Requests,
               Disconnect(r) \/ \E w \in BOOLEAN : HandlerFails(r, w)
        PROVE  Excused(c)
    <3>1. StartClosing({request[r].on}) /\ request[r].at = "handling"
      BY <2>4 DEF Disconnect, HandlerFails, HandlerLeaves
    <3>2. request[r].on = c BY <2>0, <3>1, ClosingStarts
    <3>3. QED BY <3>1, <3>2 DEF On
  <2>5. QED BY <2>1, <2>2, <2>3, <2>4
<1>2. QED BY <1>1, SessionInvariant, PTL DEF Spec, StreamsKept

-----------------------------------------------------------------------------
(* The SSE server, for any number of connections and POSTs.                  *)
(*                                                                         *)
(* NewestServed is inductive but for one fact: every response that is open   *)
(* or still to close belongs to a connection that was made, so that a        *)
(* "close" event is that of the newest connection or of one whose cleanup    *)
(* has run. What is in the map is then what has not been cleaned up after,   *)
(* and a POST is for a connection that was made as well.                     *)

Made == 1 .. activeTransportId

ResponsesAreOfConnections ==
  /\ activeTransportId \in Nat
  /\ open \subseteq Made /\ ending \subseteq Made /\ disconnected \subseteq Made

PostsAreForConnections ==
  /\ DOMAIN post = Posts /\ DOMAIN sentTo = Posts
  /\ \A p \in Posts : post[p] = "reading" => sentTo[p] \in Made

ServerInv == ResponsesAreOfConnections /\ PostsAreForConnections /\ NewestServed

\* Before a new connection everything the map and the server have is closed.
LEMMA ReplacedIsAll ==
  ASSUME ServerInv
  PROVE  Replaced = transports /\ attached \in Replaced \cup {0} /\ transports \subseteq Made
BY DEF ServerInv, NewestServed, ResponsesAreOfConnections, Replaced, Made

LEMMA ServerInitEstablishes == SseInit => ServerInv
<1> SUFFICES ASSUME SseInit PROVE ServerInv
  OBVIOUS
<1>1. PostsAreForConnections
  BY DEF SseInit, PostsAreForConnections
<1>2. ResponsesAreOfConnections
  BY DEF SseInit, ResponsesAreOfConnections, Made
<1>3. NewestServed
  BY DEF SseInit, NewestServed
<1> QED
  BY <1>1, <1>2, <1>3 DEF ServerInv

LEMMA ConnectPreserves ==
  ASSUME ServerInv, NEW fails \in BOOLEAN, NEW flushed \in BOOLEAN, Connect(fails, flushed)
  PROVE  ServerInv'
<1> DEFINE id == activeTransportId + 1
           made == IF fails THEN {} ELSE {id}
<1>1. /\ activeTransportId' = id
      /\ attached' = (IF fails THEN 0 ELSE id)
      /\ transports' = made
      /\ disconnected' = disconnected \cup transports \cup ({id} \ made)
      /\ open' = (open \ transports) \cup made
      /\ ending' \subseteq ending \cup open
      /\ over' = fails /\ late' = FALSE /\ down' = down /\ ~ down
      /\ UNCHANGED <<post, sentTo>>
  BY ReplacedIsAll DEF Connect
<1>2. activeTransportId \in Nat /\ Made' = Made \cup {id} /\ id \notin Made
  BY <1>1 DEF ServerInv, ResponsesAreOfConnections, Made
<1>3. ResponsesAreOfConnections' /\ PostsAreForConnections'
  <2>1. /\ activeTransportId' \in Nat /\ open' \subseteq Made'
        /\ ending' \subseteq Made' /\ disconnected' \subseteq Made'
    <3> HIDE DEF id
    <3> QED
      BY <1>1, <1>2, ReplacedIsAll DEF id, ServerInv, ResponsesAreOfConnections
  <2>2. PostsAreForConnections'
    BY <1>1, <1>2 DEF ServerInv, PostsAreForConnections
  <2> QED
    BY <2>1, <2>2 DEF ResponsesAreOfConnections
<1>4. NewestServed'
  <2>1. Made \ disconnected = transports
    BY DEF ServerInv, NewestServed, Made
  <2>2. id \notin disconnected
    BY <1>2 DEF ServerInv, ResponsesAreOfConnections
  <2>3. (Made \ disconnected)' = transports'
    BY <1>1, <1>2, <2>1, <2>2
  <2>4. id # 0
    BY <1>2
  <2>5. transports' = IF over' \/ down' THEN {} ELSE {activeTransportId'} \ {0}
    <3>1. CASE fails
      BY <1>1, <3>1
    <3>2. CASE ~ fails
      BY <1>1, <2>4, <3>2
    <3> QED
      BY <3>1, <3>2
  <2>6. attached' \in transports' \cup {0} /\ (transports' # {} => attached' = activeTransportId')
    BY <1>1
  <2> QED
    BY <2>3, <2>5, <2>6 DEF NewestServed, Made
<1> QED
  BY <1>3, <1>4 DEF ServerInv

LEMMA ResponseClosedPreserves ==
  ASSUME ServerInv, NEW id \in Connection, ResponseClosed(id)
  PROVE  ServerInv'
<1>1. id \in Made /\ Made' = Made
  BY DEF ResponseClosed, ServerInv, ResponsesAreOfConnections, Made
<1>2. ResponsesAreOfConnections' /\ PostsAreForConnections'
  BY <1>1 DEF ResponseClosed, ServerInv, ResponsesAreOfConnections, PostsAreForConnections
<1>3. /\ transports' = transports \ {id} /\ disconnected' = disconnected \cup {id}
      /\ attached' = 0 /\ UNCHANGED <<activeTransportId, down>>
      /\ over' = (over \/ id = activeTransportId) /\ late' = (late \/ id # activeTransportId)
  BY DEF ResponseClosed
<1>4. (Made \ disconnected)' = transports'
  BY <1>1, <1>3 DEF ServerInv, NewestServed, Made
\* of a replaced connection, which is not in the map any more
<1>5. CASE id # activeTransportId
  <2>1. transports' = transports /\ late'
    BY <1>3, <1>5 DEF ServerInv, NewestServed
  <2> QED
    BY <1>2, <1>3, <1>4, <1>5, <2>1 DEF ServerInv, NewestServed, ResponsesAreOfConnections, Made
<1>6. CASE id = activeTransportId
  <2>1. transports' = {} /\ over'
    BY <1>3, <1>6 DEF ServerInv, NewestServed
  <2> QED
    BY <1>2, <1>3, <1>4, <2>1 DEF ServerInv, NewestServed, Made
<1> QED
  BY <1>5, <1>6

LEMMA ShutdownPreserves ==
  ASSUME ServerInv, SseShutdown
  PROVE  ServerInv'
BY ReplacedIsAll DEF SseShutdown, ServerInv, ResponsesAreOfConnections, PostsAreForConnections,
   NewestServed, Made

LEMMA PostPreserves ==
  ASSUME ServerInv, NEW p \in Posts,
         \/ \E id \in Connection : LookUp(p, id)
         \/ \E wellFormed \in BOOLEAN : HandlePost(p, wellFormed)
  PROVE  ServerInv'
<1>1. UNCHANGED <<activeTransportId, transports, attached, disconnected, open, ending, over, late, down>>
  BY DEF LookUp, HandlePost, Settle
<1>2. PostsAreForConnections'
  <2>1. ASSUME NEW id \in Connection, LookUp(p, id) PROVE PostsAreForConnections'
    BY <2>1 DEF LookUp, ServerInv, PostsAreForConnections, Made
  <2>2. ASSUME NEW wellFormed \in BOOLEAN, HandlePost(p, wellFormed)
        PROVE  PostsAreForConnections'
    <3>1. PICK outcome \in {"handled", "unheard", "refused"} : Settle(p, outcome)
      BY <2>2 DEF HandlePost, Answers
    <3> QED
      BY <3>1 DEF Settle, ServerInv, PostsAreForConnections, Made
  <2> QED
    BY <2>1, <2>2
<1> QED
  BY <1>1, <1>2 DEF ServerInv, ResponsesAreOfConnections, NewestServed, Made

LEMMA ServerStepPreserves == ServerInv /\ [SseNext]_sseVars => ServerInv'
<1> SUFFICES ASSUME ServerInv, [SseNext]_sseVars PROVE ServerInv'
  OBVIOUS
<1>1. ASSUME NEW fails \in BOOLEAN, NEW flushed \in BOOLEAN, Connect(fails, flushed) PROVE ServerInv'
  BY <1>1, ConnectPreserves
<1>2. ASSUME NEW id \in Connection, ResponseClosed(id) PROVE ServerInv'
  BY <1>2, ResponseClosedPreserves
<1>3. CASE SseShutdown
  BY <1>3, ShutdownPreserves
<1>4. ASSUME NEW p \in Posts,
             \/ \E id \in Connection : LookUp(p, id)
             \/ \E wellFormed \in BOOLEAN : HandlePost(p, wellFormed)
      PROVE  ServerInv'
  BY <1>4, PostPreserves
<1>5. CASE UNCHANGED sseVars
  BY <1>5 DEF sseVars, ServerInv, ResponsesAreOfConnections, PostsAreForConnections,
     NewestServed, Made
<1> QED
  BY <1>1, <1>2, <1>3, <1>4, <1>5 DEF SseNext

LEMMA ServerInvariant == SseSpec => []ServerInv
BY ServerInitEstablishes, ServerStepPreserves, PTL DEF SseSpec

\* What the server hears of a POST is for the newest connection: a connection that was
\* made and not cleaned up after is in the map.
LEMMA HeardForNewest ==
  ASSUME ServerInv, [SseNext]_sseVars, NEW p \in Posts,
         post[p] = "reading", post'[p] \in {"handled", "unheard"}
  PROVE  /\ sentTo[p] = activeTransportId /\ ~ over /\ ~ down
         /\ post'[p] = "unheard" => late
<1>1. PICK wellFormed \in BOOLEAN : HandlePost(p, wellFormed)
  <2>1. post' # post
    OBVIOUS
  <2>2. PICK q \in Posts : \/ \E id \in Connection : LookUp(q, id)
                           \/ \E wellFormed \in BOOLEAN : HandlePost(q, wellFormed)
    BY <2>1 DEF SseNext, sseVars, Connect, ResponseClosed, SseShutdown
  <2>3. PICK outcome : post' = [post EXCEPT ![q] = outcome]
    BY <2>2 DEF LookUp, HandlePost, Settle
  <2>4. q = p
    BY <2>3 DEF ServerInv, PostsAreForConnections
  <2> QED
    BY <2>2, <2>4 DEF LookUp
<1>2. sentTo[p] \in Made \ disconnected /\ post'[p] = Answers(p)
  BY <1>1 DEF HandlePost, Settle, ServerInv, PostsAreForConnections
<1>3. sentTo[p] \in transports
  BY <1>2 DEF ServerInv, NewestServed, Made
<1>4. sentTo[p] = activeTransportId /\ ~ over /\ ~ down
  BY <1>3 DEF ServerInv, NewestServed
<1>5. post'[p] = "unheard" => late
  BY <1>2, <1>3, <1>4 DEF Answers, ServerInv, NewestServed
<1> QED
  BY <1>4, <1>5

\* The newest connection stays in the map until its response closes, and only its
\* transport can be the server's, which it is unless a replaced connection has closed
\* late, for every number of connections and POSTs (GET /sse 96-196).
THEOREM NewestIsServed == SseSpec => []NewestServed
<1>1. ServerInv => NewestServed
  BY DEF ServerInv
<1> QED
  BY <1>1, ServerInvariant, PTL

\* No POST is heard for a connection that was replaced or has closed while its body was
\* read, for every number of connections and POSTs (POST /messages 198-254).
THEOREM PostsAreForNewest == SseSpec => PostsReachNewest
<1> DEFINE A == \A p \in Posts :
                  post[p] = "reading" /\ post'[p] \in {"handled", "unheard"} =>
                    /\ sentTo[p] = activeTransportId /\ ~ over /\ ~ down
                    /\ post'[p] = "unheard" => late
<1>1. ServerInv /\ [SseNext]_sseVars => A
  BY HeardForNewest
<1> QED
  BY <1>1, ServerInvariant, PTL DEF SseSpec, PostsReachNewest

-----------------------------------------------------------------------------
(* The size of what is stored and the entries that pruning leaves are        *)
(* recursive functions over the store: that they are what their equations    *)
(* say needs induction, which rests here on the least element of a set of    *)
(* numbers.                                                                *)

USE TextsAssumption, ReadingAssumption, LimitsAssumption

LEMMA LeastElement ==
  ASSUME NEW T, T \subseteq Nat, T # {}
  PROVE  \E m \in T : \A n \in T : m <= n
<1>1. PICK b \in T : TRUE OBVIOUS
<1> DEFINE D == {0..n : n \in {k \in T : k <= b}}
<1>2. IsFiniteSet(0..b) BY <1>1, FS_Interval
<1>3. IsWellFoundedOn(StrictSubsetOrdering(0..b), SUBSET (0..b))
  BY <1>2, FS_StrictSubsetOrderingWellFounded, FS_FiniteSubsetsOfFinite
<1>4. D \subseteq SUBSET (0..b) /\ 0..b \in D OBVIOUS
<1> HIDE DEF D
<1>5. PICK X \in D : \A Y \in D : ~ (<<Y, X>> \in StrictSubsetOrdering(0..b))
  BY <1>3, <1>4, WFMin
<1>6. PICK m \in T : m <= b /\ X = 0..m BY DEF D
<1>7. ASSUME NEW n \in T, ~(m <= n) PROVE FALSE
  <2>1. n <= b /\ n < m BY <1>6, <1>7
  <2>2. 0..n \in D BY <2>1 DEF D
  <2>3. m \in 0..m /\ m \notin 0..n BY <2>1
  <2>4. 0..n \subseteq 0..m /\ 0..n # 0..m /\ 0..m \subseteq 0..b BY <1>6, <2>1, <2>3
  <2>5. <<0..n, X>> \in StrictSubsetOrdering(0..b)
    BY <1>6, <2>4 DEF StrictSubsetOrdering
  <2>6. QED BY <1>5, <2>2, <2>5
<1>8. QED BY <1>7

\* What holds at 0 and is passed on from each number to the next holds up to L.
LEMMA Induction ==
  ASSUME NEW L \in Nat, NEW T \in SUBSET (0..L), 0 \in T,
         \A n \in 1..L : n - 1 \in T => n \in T
  PROVE  T = 0..L
<1> SUFFICES ASSUME (0..L) \ T # {} PROVE FALSE OBVIOUS
<1>1. PICK m \in (0..L) \ T : \A n \in (0..L) \ T : m <= n
  <2>1. (0..L) \ T \subseteq Nat OBVIOUS
  <2> QED BY <2>1, LeastElement
<1>2. m \in 1..L /\ m - 1 \in 0..L /\ ~(m <= m - 1) BY <1>1
<1> QED BY <1>1, <1>2

\* A function is defined by what it is at 0 and how each value follows from the one
\* before.
IsRecursive(f, S, start, L, step) ==
  /\ f \in [0..L -> S] /\ f[0] = start
  /\ \A n \in 1..L : f[n] = step[n][f[n - 1]]

LEMMA Recursion ==
  ASSUME NEW S, NEW start \in S, NEW L \in Nat, NEW step \in [1..L -> [S -> S]]
  PROVE  \E f : IsRecursive(f, S, start, L, step)
<1> DEFINE Follows(f, m) == /\ f \in [0..m -> S] /\ f[0] = start
                            /\ \A n \in 1..m : f[n] = step[n][f[n - 1]]
           T == {m \in 0..L : \E f : Follows(f, m)}
<1>1. 0 \in T
  <2> DEFINE f == [n \in 0..0 |-> start]
  <2>1. f \in [0..0 -> S] /\ f[0] = start /\ 1..0 = {} OBVIOUS
  <2>2. Follows(f, 0) BY <2>1
  <2> HIDE DEF Follows
  <2> QED BY <2>2
<1>2. ASSUME NEW m \in 1..L, m - 1 \in T PROVE m \in T
  <2>1. PICK f : Follows(f, m - 1) BY <1>2
  <2> DEFINE next == step[m][f[m - 1]]
             g == [n \in 0..m |-> IF n < m THEN f[n] ELSE next]
  <2>2. next \in S
    <3>1. f[m - 1] \in S BY <2>1
    <3> QED BY <3>1
  <2>3. g \in [0..m -> S] /\ g[0] = start
    <3> HIDE DEF next
    <3> QED BY <2>1, <2>2
  <2>4. ASSUME NEW n \in 1..m PROVE g[n] = step[n][g[n - 1]]
    <3>1. n - 1 \in 0..m /\ n - 1 < m /\ g[n - 1] = f[n - 1] OBVIOUS
    <3>2. CASE n < m
      <4>1. n \in 1..(m - 1) /\ g[n] = f[n] BY <3>2
      <4> QED BY <2>1, <3>1, <4>1
    <3>3. CASE n = m
      <4>1. g[m] = next OBVIOUS
      <4> QED BY <3>1, <3>3, <4>1
    <3> HIDE DEF g
    <3> QED BY <3>2, <3>3
  <2>5. Follows(g, m)
    <3> HIDE DEF g
    <3> QED BY <2>3, <2>4
  <2> HIDE DEF Follows
  <2> QED BY <2>5
<1>3. T = 0..L
  <2> HIDE DEF T
  <2>1. T \in SUBSET (0..L) BY DEF T
  <2> QED BY <1>1, <1>2, <2>1, Induction
<1>4. \E f : Follows(f, L)
  <2>1. L \in T
    <3> HIDE DEF T
    <3> QED BY <1>3
  <2> HIDE DEF Follows
  <2> QED BY <2>1
<1> QED BY <1>4 DEF IsRecursive

-----------------------------------------------------------------------------
(* The entries of the store.                                                *)

Entry == [id : Results, left : 0..Ttl]

IsSum(sum, s) ==
  /\ sum \in [0..Len(s) -> Nat] /\ sum[0] = 0
  /\ \A n \in 1..Len(s) : sum[n] = sum[n - 1] + Bytes[s[n].id]

\* The size of a sequence is summed entry by entry.
LEMMA UsedIs ==
  ASSUME NEW s \in Seq(Entry)
  PROVE  \E sum : IsSum(sum, s) /\ Used(s) = sum[Len(s)]
<1> DEFINE L == Len(s)
           add == [n \in 1..L |-> [used \in Nat |-> used + Bytes[s[n].id]]]
           Sums(f) == f = [n \in 0..L |-> IF n = 0 THEN 0 ELSE f[n - 1] + Bytes[s[n].id]]
<1>1. L \in Nat OBVIOUS
<1>2. \A n \in 1..L : Bytes[s[n].id] \in Nat
  <2>1. \A n \in 1..L : s[n] \in Entry OBVIOUS
  <2>2. \A e \in Entry : Bytes[e.id] \in Nat BY DEF Entry
  <2> QED BY <2>1, <2>2
<1>3. add \in [1..L -> [Nat -> Nat]] BY <1>2
<1>4. PICK f : IsRecursive(f, Nat, 0, L, add)
  <2> HIDE DEF add, L
  <2> HIDE TextsAssumption, ReadingAssumption, LimitsAssumption
  <2>1. 0 \in Nat OBVIOUS
  <2> QED BY <1>1, <1>3, <2>1, Recursion
<1>5. Sums(f)
  <2>1. ASSUME NEW n \in 0..L
        PROVE  f[n] = IF n = 0 THEN 0 ELSE f[n - 1] + Bytes[s[n].id]
    <3>1. CASE n = 0 BY <1>4, <3>1 DEF IsRecursive
    <3>2. CASE n # 0
      <4>1. n \in 1..L /\ f[n - 1] \in Nat
        <5> HIDE DEF L
        <5> QED BY <1>1, <1>4, <3>2 DEF IsRecursive
      <4>2. f[n] = add[n][f[n - 1]]
        <5> HIDE DEF add
        <5> QED BY <1>4, <4>1 DEF IsRecursive
      <4> QED BY <3>2, <4>1, <4>2
    <3> QED BY <3>1, <3>2
  <2>2. f \in [0..L -> Nat] BY <1>4 DEF IsRecursive
  <2> QED BY <2>1, <2>2
<1>6. Used(s) = (CHOOSE h : Sums(h))[L] BY DEF Used
<1> DEFINE sum == CHOOSE h : Sums(h)
<1>7. Sums(sum)
  <2> HIDE DEF Sums
  <2> QED BY <1>5
<1> HIDE DEF sum
<1>8. sum[0] = 0 /\ \A n \in 1..L : sum[n] = sum[n - 1] + Bytes[s[n].id]
  BY <1>7
<1>9. \A n \in 0..L : sum[n] \in Nat
  <2> DEFINE T == {n \in 0..L : sum[n] \in Nat}
  <2>1. 0 \in T BY <1>8
  <2>2. ASSUME NEW n \in 1..L, n - 1 \in T PROVE n \in T
    <3>1. sum[n - 1] \in Nat /\ Bytes[s[n].id] \in Nat /\ n \in 0..L BY <1>2, <2>2
    <3> QED BY <1>8, <3>1
  <2>3. T = 0..L
    <3> HIDE DEF T
    <3>1. T \in SUBSET (0..L) BY DEF T
    <3> QED BY <1>1, <2>1, <2>2, <3>1, Induction
  <2> QED BY <2>3
<1>10. sum \in [0..L -> Nat]
  <2>1. sum = [n \in 0..L |-> sum[n]] BY <1>7
  <2> QED BY <1>9, <2>1
<1> QED BY <1>6, <1>8, <1>10 DEF sum, IsSum

\* Sums depend on the names of the results only.
LEMMA SumsAgree ==
  ASSUME NEW s \in Seq(Entry), NEW t \in Seq(Entry), NEW f, NEW g, IsSum(f, s), IsSum(g, t),
         NEW L \in Nat, L <= Len(s), L <= Len(t), \A n \in 1..L : s[n].id = t[n].id
  PROVE  f[L] = g[L]
<1> DEFINE T == {n \in 0..L : f[n] = g[n]}
<1>1. 0 \in T BY DEF IsSum
<1>2. ASSUME NEW n \in 1..L, n - 1 \in T PROVE n \in T
  <2>1. n \in 1..Len(s) /\ n \in 1..Len(t) /\ f[n - 1] = g[n - 1] /\ s[n].id = t[n].id
    BY <1>2
  <2>2. f[n] = f[n - 1] + Bytes[s[n].id] BY <2>1 DEF IsSum
  <2>3. g[n] = g[n - 1] + Bytes[t[n].id] BY <2>1 DEF IsSum
  <2>4. n \in 0..L OBVIOUS
  <2> QED BY <2>1, <2>2, <2>3, <2>4
<1>3. T = 0..L
  <2> HIDE DEF T
  <2>1. T \in SUBSET (0..L) BY DEF T
  <2>2. L \in Nat /\ \A n \in 1..L : n - 1 \in T => n \in T BY <1>2
  <2> QED BY <1>1, <2>1, <2>2, Induction
<1>4. L \in T
  <2> HIDE DEF T
  <2> QED BY <1>3
<1> QED BY <1>4

LEMMA UsedOfSame ==
  ASSUME NEW s \in Seq(Entry), NEW t \in Seq(Entry), Len(s) = Len(t),
         \A n \in 1..Len(s) : s[n].id = t[n].id
  PROVE  Used(s) = Used(t)
<1>1. PICK f : IsSum(f, s) /\ Used(s) = f[Len(s)] BY UsedIs
<1>2. PICK g : IsSum(g, t) /\ Used(t) = g[Len(t)] BY UsedIs
<1> DEFINE L == Len(s)
<1>3. L \in Nat /\ L <= Len(s) /\ L <= Len(t) /\ \A n \in 1..L : s[n].id = t[n].id OBVIOUS
<1>4. f[L] = g[L]
  <2> HIDE DEF L
  <2> QED BY <1>1, <1>2, <1>3, SumsAgree
<1> QED BY <1>1, <1>2, <1>4

LEMMA UsedOfNone == Used(<<>>) = 0 /\ Len(<<>>) = 0 /\ <<>> \in Seq(Entry)
<1>1. <<>> \in Seq(Entry) /\ Len(<<>>) = 0 OBVIOUS
<1>2. PICK f : IsSum(f, <<>>) /\ Used(<<>>) = f[Len(<<>>)] BY <1>1, UsedIs
<1> QED BY <1>1, <1>2 DEF IsSum

LEMMA UsedOfAppend ==
  ASSUME NEW s \in Seq(Entry), NEW e \in Entry
  PROVE  Used(s) \in Nat /\ Used(Append(s, e)) = Used(s) + Bytes[e.id]
<1> DEFINE t == Append(s, e)
<1>1. /\ t \in Seq(Entry) /\ Len(s) \in Nat /\ Len(t) = Len(s) + 1
      /\ t[Len(t)] = e /\ \A n \in 1..Len(s) : t[n] = s[n]
  OBVIOUS
<1> HIDE DEF t
<1>2. PICK f : IsSum(f, s) /\ Used(s) = f[Len(s)] BY UsedIs
<1>3. PICK g : IsSum(g, t) /\ Used(t) = g[Len(t)] BY <1>1, UsedIs
<1>4. Len(s) <= Len(s) /\ Len(s) <= Len(t) /\ \A n \in 1..Len(s) : s[n].id = t[n].id BY <1>1
<1>5. f[Len(s)] = g[Len(s)] BY <1>1, <1>2, <1>3, <1>4, SumsAgree
<1>6. Len(t) \in 1..Len(t) /\ Len(t) - 1 = Len(s) BY <1>1
<1>7. g[Len(t)] = g[Len(s)] + Bytes[e.id] BY <1>1, <1>3, <1>6 DEF IsSum
<1>8. Used(s) \in Nat BY <1>1, <1>2 DEF IsSum
<1> QED BY <1>2, <1>3, <1>5, <1>7, <1>8 DEF t

-----------------------------------------------------------------------------
IsKept(kept, s) ==
  /\ kept \in [0..Len(s) -> Seq(Entry)] /\ kept[0] = <<>>
  /\ \A n \in 1..Len(s) :
       kept[n] = IF Unexpired(s[n]) THEN Append(kept[n - 1], s[n]) ELSE kept[n - 1]

\* What pruning leaves is collected entry by entry.
LEMMA LiveIs ==
  ASSUME NEW s \in Seq(Entry)
  PROVE  \E kept : IsKept(kept, s) /\ Live(s) = kept[Len(s)]
<1> USE DEF Unexpired
<1> DEFINE L == Len(s)
           keep == [n \in 1..L |->
                     [had \in Seq(Entry) |-> IF Unexpired(s[n]) THEN Append(had, s[n]) ELSE had]]
           Keeps(f) == f = [n \in 0..L |->
                             IF n = 0 THEN <<>>
                             ELSE IF Unexpired(s[n]) THEN Append(f[n - 1], s[n]) ELSE f[n - 1]]
<1>1. L \in Nat OBVIOUS
<1>2. \A n \in 1..L : \A had \in Seq(Entry) : Append(had, s[n]) \in Seq(Entry)
  <2>1. \A n \in 1..L : s[n] \in Entry OBVIOUS
  <2>2. \A e \in Entry : \A had \in Seq(Entry) : Append(had, e) \in Seq(Entry) OBVIOUS
  <2> QED BY <2>1, <2>2
<1>3. keep \in [1..L -> [Seq(Entry) -> Seq(Entry)]]
  <2> HIDE DEF L
  <2> QED BY <1>2
<1>4. PICK f : IsRecursive(f, Seq(Entry), <<>>, L, keep)
  <2> HIDE DEF keep, L
  <2>1. <<>> \in Seq(Entry) OBVIOUS
  <2> QED BY <1>1, <1>3, <2>1, Recursion
<1>5. Keeps(f)
  <2>1. ASSUME NEW n \in 0..L
        PROVE  f[n] = IF n = 0 THEN <<>>
                      ELSE IF Unexpired(s[n]) THEN Append(f[n - 1], s[n]) ELSE f[n - 1]
    <3>1. CASE n = 0 BY <1>4, <3>1 DEF IsRecursive
    <3>2. CASE n # 0
      <4>1. n \in 1..L /\ f[n - 1] \in Seq(Entry)
        <5> HIDE DEF L
        <5> QED BY <1>1, <1>4, <3>2 DEF IsRecursive
      <4>2. f[n] = keep[n][f[n - 1]]
        <5> HIDE DEF keep
        <5> QED BY <1>4, <4>1 DEF IsRecursive
      <4> HIDE DEF L
      <4> QED BY <3>2, <4>1, <4>2
    <3> QED BY <3>1, <3>2
  <2>2. f \in [0..L -> Seq(Entry)] BY <1>4 DEF IsRecursive
  <2> QED BY <2>1, <2>2
<1>6. Live(s) = (CHOOSE h : Keeps(h))[L] BY DEF Live
<1> DEFINE kept == CHOOSE h : Keeps(h)
<1>7. Keeps(kept)
  <2> HIDE DEF Keeps
  <2> QED BY <1>5
<1> HIDE DEF kept
<1>8. /\ kept[0] = <<>>
      /\ \A n \in 1..L :
           kept[n] = IF Unexpired(s[n]) THEN Append(kept[n - 1], s[n]) ELSE kept[n - 1]
  <2>1. 0 \in 0..L BY <1>1
  <2>2. \A n \in 1..L : n \in 0..L /\ n # 0 BY <1>1
  <2> HIDE DEF L
  <2> QED BY <1>7, <2>1, <2>2
<1>9. \A n \in 0..L : kept[n] \in Seq(Entry)
  <2> DEFINE T == {n \in 0..L : kept[n] \in Seq(Entry)}
  <2>1. 0 \in T
    <3>1. <<>> \in Seq(Entry) /\ 0 \in 0..L BY <1>1
    <3> QED BY <1>8, <3>1
  <2>2. ASSUME NEW n \in 1..L, n - 1 \in T PROVE n \in T
    <3>1. kept[n - 1] \in Seq(Entry) /\ n \in 0..L BY <2>2
    <3>2. Append(kept[n - 1], s[n]) \in Seq(Entry) BY <1>2, <3>1
    <3> QED BY <1>8, <3>1, <3>2
  <2>3. T = 0..L
    <3> HIDE DEF T
    <3>1. T \in SUBSET (0..L) BY DEF T
    <3> QED BY <1>1, <2>1, <2>2, <3>1, Induction
  <2> QED BY <2>3
<1>10. kept \in [0..L -> Seq(Entry)]
  <2>1. kept = [n \in 0..L |-> kept[n]] BY <1>7
  <2> QED BY <1>9, <2>1
<1> QED BY <1>6, <1>8, <1>10 DEF kept, IsKept

\* Pruning makes nothing longer or larger and keeps every entry that is not expired.
LEMMA LiveFits ==
  ASSUME NEW s \in Seq(Entry)
  PROVE  /\ Live(s) \in Seq(Entry)
         /\ Len(Live(s)) <= Len(s) /\ Used(Live(s)) <= Used(s)
         /\ \A i \in DOMAIN s : Unexpired(s[i]) => \E j \in DOMAIN Live(s) : Live(s)[j] = s[i]
<1>1. PICK kept : IsKept(kept, s) /\ Live(s) = kept[Len(s)] BY LiveIs
<1>2. PICK sum : IsSum(sum, s) /\ Used(s) = sum[Len(s)] BY UsedIs
<1> DEFINE L == Len(s)
           Has(n, i) == \E j \in DOMAIN kept[n] : kept[n][j] = s[i]
           T == {n \in 0..L : /\ Len(kept[n]) <= n /\ Used(kept[n]) <= sum[n]
                              /\ \A i \in 1..n : Unexpired(s[i]) => Has(n, i)}
<1>3. L \in Nat OBVIOUS
<1>4. 0 \in T BY <1>1, <1>2, UsedOfNone DEF IsKept, IsSum
<1>5. ASSUME NEW n \in 1..L, n - 1 \in T PROVE n \in T
  <2> DEFINE had == kept[n - 1]
             e == s[n]
  <2>1. /\ Len(had) <= n - 1 /\ Used(had) <= sum[n - 1]
        /\ \A i \in 1..(n - 1) : Unexpired(s[i]) => Has(n - 1, i)
    BY <1>5
  <2>2. n \in 0..L /\ n \in Nat /\ n - 1 \in 0..L OBVIOUS
  <2>3. had \in Seq(Entry) /\ e \in Entry /\ sum[n - 1] \in Nat /\ Bytes[e.id] \in Nat
    <3>1. e \in Entry OBVIOUS
    <3>2. Bytes[e.id] \in Nat BY <3>1 DEF Entry
    <3> QED BY <1>1, <1>2, <2>2, <3>1, <3>2 DEF IsKept, IsSum
  <2>4. sum[n] = sum[n - 1] + Bytes[e.id] BY <1>2 DEF IsSum
  <2>5. CASE Unexpired(e)
    <3>1. kept[n] = Append(had, e) BY <1>1, <2>5 DEF IsKept
    <3>2. Len(kept[n]) = Len(had) + 1 BY <2>3, <3>1
    <3>3. Len(kept[n]) <= n BY <2>1, <2>3, <3>2
    <3>4. Used(kept[n]) = Used(had) + Bytes[e.id] /\ Used(had) \in Nat
      BY <2>3, <3>1, UsedOfAppend
    <3>5. Used(kept[n]) <= sum[n] BY <2>1, <2>3, <2>4, <3>4
    <3>6. ASSUME NEW i \in 1..n, Unexpired(s[i]) PROVE Has(n, i)
      <4>1. CASE i = n
        <5>1. Len(kept[n]) \in DOMAIN kept[n] /\ kept[n][Len(kept[n])] = s[i] BY <2>3, <3>1, <4>1
        <5> QED BY <5>1
      <4>2. CASE i # n
        <5>1. i \in 1..(n - 1) BY <4>2
        <5>2. PICK j \in DOMAIN had : had[j] = s[i] BY <2>1, <3>6, <5>1
        <5> HIDE DEF had, e, L, T
        <5>3. DOMAIN had = 1..Len(had) /\ Len(had) \in Nat BY <2>3
        <5>4. j \in 1..(Len(had) + 1) /\ j <= Len(had) BY <5>2, <5>3
        <5>5. Append(had, e)[j] = had[j] /\ DOMAIN Append(had, e) = 1..(Len(had) + 1)
          BY <2>3, <5>3, <5>4
        <5> QED BY <3>1, <5>2, <5>4, <5>5
      <4> QED BY <4>1, <4>2
    <3> QED BY <2>2, <3>3, <3>5, <3>6
  <2>6. CASE ~Unexpired(e)
    <3>1. kept[n] = had BY <1>1, <2>6 DEF IsKept
    <3>2. Used(had) \in Nat BY <2>3, UsedOfAppend
    <3>3. Len(kept[n]) <= n /\ Used(kept[n]) <= sum[n]
      <4> HIDE DEF had, e
      <4>1. Len(had) \in Nat BY <2>3
      <4> QED BY <2>1, <2>3, <2>4, <3>1, <3>2, <4>1
    <3>4. ASSUME NEW i \in 1..n, Unexpired(s[i]) PROVE Has(n, i)
      <4>1. i \in 1..(n - 1) BY <2>6, <3>4
      <4> QED BY <2>1, <3>1, <3>4, <4>1
    <3> QED BY <2>2, <3>3, <3>4
  <2> QED BY <2>5, <2>6
<1>6. L \in T
  <2> HIDE DEF T
  <2>1. T \in SUBSET (0..L) BY DEF T
  <2>2. T = 0..L BY <1>3, <1>4, <1>5, <2>1, Induction
  <2> QED BY <1>3, <2>2
<1>7. Live(s) \in Seq(Entry)
  <2> HIDE DEF L, T, Has
  <2>1. L \in 0..L BY <1>3
  <2> QED BY <1>1, <2>1 DEF IsKept
<1>8. Len(kept[L]) <= L /\ Used(kept[L]) <= sum[L] /\ \A i \in 1..L : Unexpired(s[i]) => Has(L, i)
  BY <1>6
<1>9. DOMAIN s = 1..L OBVIOUS
<1> QED BY <1>1, <1>2, <1>7, <1>8, <1>9

\* What put evicts leaves the new result its room, at the latest when all is gone.
LEMMA EvictedFits ==
  ASSUME NEW s \in Seq(Entry), NEW r \in Results, Bytes[r] <= MaxBytes
  PROVE  Evicted(s, r) \in Seq(Entry) /\ Room(Evicted(s, r), r)
<1> DEFINE Rest(n) == SubSeq(s, n + 1, Len(s))
           T == {n \in 0..Len(s) : Room(Rest(n), r)}
           m == Min(T)
<1>1. \A n \in 0..Len(s) : Rest(n) \in Seq(Entry)
  <2> TAKE n \in 0..Len(s)
  <2>1. n + 1 \in Int /\ Len(s) \in Int /\ \A i \in (n + 1)..Len(s) : s[i] \in Entry OBVIOUS
  <2> QED BY <2>1, SubSeqProperties
<1>2. Len(s) \in T
  <2>1. Len(s) \in 0..Len(s) /\ Len(s) + 1 \in Int /\ Len(s) \in Int /\ Len(s) < Len(s) + 1
    OBVIOUS
  <2>2. Rest(Len(s)) = <<>> BY <2>1, SubSeqEmpty
  <2>3. Capacity \in Nat \ {0} /\ Bytes[r] \in Nat OBVIOUS
  <2>4. Room(<<>>, r) BY <2>3, UsedOfNone DEF Room
  <2> HIDE DEF Room, Rest
  <2> QED BY <2>1, <2>2, <2>4
<1>3. m \in T
  <2> HIDE DEF Rest
  <2>1. T \subseteq 0..Len(s) /\ Len(s) \in Nat OBVIOUS
  <2> HIDE DEF T
  <2>2. T \subseteq Nat /\ T # {} BY <1>2, <2>1
  <2>3. PICK l \in T : \A n \in T : l <= n BY <2>2, LeastElement
  <2> QED BY <2>3 DEF Min
<1>4. Evicted(s, r) = Rest(m) BY DEF Evicted
<1> QED BY <1>1, <1>3, <1>4

-----------------------------------------------------------------------------
(* A text and its chunks.                                                   *)

LEMMA TextIs ==
  ASSUME NEW r \in Results
  PROVE  /\ Text(r) \in Seq(Results \X Nat)
         /\ Len(Text(r)) = TotalChars[r] /\ TotalChars[r] \in Nat \ {0}
BY DEF Text

\* A chunk is the next ChunkSize characters, or what is left.
LEMMA ChunkFollows ==
  ASSUME NEW r \in Results, NEW from \in 0..TotalChars[r]
  PROVE  /\ from + Len(Chunk(r, from)) \in 0..TotalChars[r]
         /\ SubSeq(Text(r), 1, from) \o Chunk(r, from)
              = SubSeq(Text(r), 1, from + Len(Chunk(r, from)))
<1> DEFINE to == Min({from + ChunkSize, TotalChars[r]})
<1>1. TotalChars[r] \in Nat /\ ChunkSize \in Nat /\ from \in Nat /\ from <= TotalChars[r] OBVIOUS
<1>2. to \in from..TotalChars[r]
  <2>1. \A a, b \in Nat : Min({a, b}) \in {a, b} /\ Min({a, b}) <= a /\ Min({a, b}) <= b
    <3> TAKE a, b \in Nat
    <3>1. \E x \in {a, b} : \A y \in {a, b} : x <= y OBVIOUS
    <3> QED BY <3>1 DEF Min
  <2>2. to \in {from + ChunkSize, TotalChars[r]} /\ to <= TotalChars[r] BY <1>1, <2>1
  <2> HIDE DEF to
  <2> QED BY <1>1, <2>2
<1>3. Chunk(r, from) = SubSeq(Text(r), from + 1, to) BY DEF Chunk
<1> HIDE DEF to
<1>4. Len(Chunk(r, from)) = to - from
  <2>1. from + 1 \in Int /\ to \in Int /\ \A i \in (from + 1)..to : Text(r)[i] \in Results \X Nat
    <3> DEFINE text == Text(r)
    <3>1. text \in Seq(Results \X Nat) /\ Len(text) = TotalChars[r] BY TextIs
    <3> HIDE DEF text
    <3>2. \A i \in 1..TotalChars[r] : text[i] \in Results \X Nat BY <3>1
    <3>3. \A i \in (from + 1)..to : i \in 1..TotalChars[r] BY <1>1, <1>2
    <3>4. from + 1 \in Int /\ to \in Int BY <1>1, <1>2
    <3> QED BY <3>2, <3>3, <3>4 DEF text
  <2>2. Len(SubSeq(Text(r), from + 1, to)) = IF from + 1 <= to THEN to - (from + 1) + 1 ELSE 0
    BY <2>1, SubSeqProperties
  <2>3. from + 1 <= to => to - (from + 1) + 1 = to - from BY <1>1, <1>2
  <2>4. ~ (from + 1 <= to) => to - from = 0 BY <1>1, <1>2
  <2> QED BY <1>3, <2>2, <2>3, <2>4
<1>5. SubSeq(Text(r), 1, from) \o SubSeq(Text(r), from + 1, to) = SubSeq(Text(r), 1, to)
  <2>1. /\ 1 \in 1..Len(Text(r)) + 1 /\ from \in 1 - 1..Len(Text(r))
        /\ to \in from..Len(Text(r))
    BY <1>1, <1>2, TextIs
  <2> QED BY <2>1, TextIs, ConcatAdjacentSubSeq
<1> QED BY <1>1, <1>2, <1>3, <1>4, <1>5

-----------------------------------------------------------------------------
(* The invariant of the store: in addition to what it promises, how long the *)
(* newest result has still to live, and that what a reader has is the text   *)
(* up to its offset.                                                        *)

StoreTypes ==
  /\ values \in Seq(Entry) /\ age \in 0..Ttl /\ newest \subseteq Results
  /\ reading \in [Readers -> Results \cup {"none"}]
  /\ offset \in [Readers -> Nat] /\ state \in [Readers -> {"more", "whole", "lost"}]
  /\ DOMAIN got = Readers

Fits(s) == Len(s) <= Capacity /\ Used(s) <= MaxBytes

\* The newest result has at least the time to live that age has not used up.
NewestKept(s, new, since) ==
  \A r \in new : since < Ttl => \E i \in DOMAIN s : s[i].id = r /\ s[i].left + since >= Ttl

\* What a reader has is the text of its result up to its offset, and that is all of
\* it when it need not go on.
ReaderInOrder(d) ==
  /\ reading[d] = "none" => offset[d] = 0 /\ got[d] = <<>> /\ state[d] = "more"
  /\ reading[d] # "none" =>
       /\ offset[d] \in 0..TotalChars[reading[d]]
       /\ got[d] = SubSeq(Text(reading[d]), 1, offset[d])
       /\ state[d] = "whole" => offset[d] = TotalChars[reading[d]]

StoreInv ==
  /\ StoreTypes
  /\ Fits(values) /\ NewestKept(values, newest, age)
  /\ \A d \in Readers : ReaderInOrder(d)

LEMMA StoreInvImplies == StoreInv => NewestFits /\ ReadsAreWhole
<1> SUFFICES ASSUME StoreInv PROVE NewestFits /\ ReadsAreWhole OBVIOUS
<1>1. NewestFits
  <2> SUFFICES ASSUME NEW r \in newest, age < Ttl
               PROVE  \E i \in DOMAIN values : values[i].id = r /\ Unexpired(values[i])
    BY DEF NewestFits, StoreInv, Fits
  <2>1. PICK i \in DOMAIN values : values[i].id = r /\ values[i].left + age >= Ttl
    BY DEF StoreInv, NewestKept
  <2>2. values[i] \in Entry BY DEF StoreInv, StoreTypes
  <2>3. values[i].left \in Nat /\ age \in Nat BY <2>2 DEF StoreInv, StoreTypes, Entry
  <2> QED BY <2>1, <2>3 DEF Unexpired
<1>2. ASSUME NEW d \in Readers, reading[d] # "none"
      PROVE  /\ IsPrefix(got[d], Text(reading[d])) /\ Len(got[d]) = offset[d]
             /\ state[d] = "whole" => got[d] = Text(reading[d])
  <2> DEFINE T == Text(reading[d])
             n == offset[d]
  <2>1. reading[d] \in Results BY <1>2 DEF StoreInv, StoreTypes
  <2>2. T \in Seq(Results \X Nat) /\ Len(T) = TotalChars[reading[d]] /\ Len(T) \in Nat
    BY <2>1, TextIs
  <2>3. n \in 0..Len(T) /\ got[d] = SubSeq(T, 1, n) /\ (state[d] = "whole" => n = Len(T))
    BY <1>2, <2>2 DEF StoreInv, ReaderInOrder
  <2> HIDE DEF T, n
  <2>4. Len(got[d]) = n /\ got[d] \in Seq(Results \X Nat)
    <3>1. 1 \in Int /\ n \in Int /\ \A i \in 1..n : T[i] \in Results \X Nat BY <2>2, <2>3
    <3> QED BY <2>3, <3>1, SubSeqProperties
  <2>5. SubSeq(got[d], 1, n) = got[d] BY <2>4, SubSeqFull
  <2>6. SubSeq(T, 1, Len(T)) = T BY <2>2, SubSeqFull
  <2>7. IsPrefix(got[d], T)
    <3>1. n <= Len(T) BY <2>2, <2>3
    <3> QED BY <2>3, <2>4, <2>5, <3>1 DEF IsPrefix
  <2>8. state[d] = "whole" => got[d] = T BY <2>3, <2>6
  <2> QED BY <2>4, <2>7, <2>8 DEF T, n
<1> QED BY <1>1, <1>2 DEF ReadsAreWhole

LEMMA StoreInitEstablishes == StoreInit => StoreInv
BY UsedOfNone DEF StoreInit, StoreInv, StoreTypes, Fits, NewestKept, ReaderInOrder

\* Pruning leaves the store within its limits, and the newest result in it.
LEMMA PrunedKeeps ==
  ASSUME StoreInv
  PROVE  Pruned \in Seq(Entry) /\ Fits(Pruned) /\ NewestKept(Pruned, newest, age)
<1>1. values \in Seq(Entry) /\ age \in 0..Ttl BY DEF StoreInv, StoreTypes
<1>2. Pruned \in Seq(Entry) BY <1>1, LiveFits DEF Pruned
<1>3. Used(Pruned) \in Nat /\ Used(values) \in Nat /\ Len(values) \in Nat
  <2>1. \A s \in Seq(Entry) : Used(s) \in Nat
    <3> TAKE s \in Seq(Entry)
    <3>1. PICK f : IsSum(f, s) /\ Used(s) = f[Len(s)] BY UsedIs
    <3> QED BY <3>1 DEF IsSum
  <2> QED BY <1>1, <1>2, <2>1
<1>4. Fits(Pruned)
  <2>1. Len(Pruned) <= Len(values) /\ Used(Pruned) <= Used(values) BY <1>1, LiveFits DEF Pruned
  <2>2. Len(Pruned) \in Nat BY <1>2
  <2> QED BY <1>3, <2>1, <2>2 DEF StoreInv, Fits
<1>5. NewestKept(Pruned, newest, age)
  <2> SUFFICES ASSUME NEW r \in newest, age < Ttl
               PROVE  \E i \in DOMAIN Pruned : Pruned[i].id = r /\ Pruned[i].left + age >= Ttl
    BY DEF NewestKept
  <2>1. PICK i \in DOMAIN values : values[i].id = r /\ values[i].left + age >= Ttl
    BY DEF StoreInv, NewestKept
  <2>2. values[i] \in Entry BY <1>1, <2>1
  <2>3. values[i].left \in Nat BY <2>2 DEF Entry
  <2>4. Unexpired(values[i]) BY <1>1, <2>1, <2>3 DEF Unexpired
  <2>5. PICK j \in DOMAIN Pruned : Pruned[j] = values[i] BY <1>1, <2>1, <2>4, LiveFits DEF Pruned
  <2> QED BY <2>1, <2>5
<1> QED BY <1>2, <1>4, <1>5

\* What no step but a read touches.
LEMMA ReadersKept ==
  ASSUME StoreInv, UNCHANGED <<reading, offset, state, got>>
  PROVE  /\ \A d \in Readers : ReaderInOrder(d)'
         /\ values' \in Seq(Entry) /\ age' \in 0..Ttl /\ newest' \subseteq Results => StoreTypes'
BY DEF StoreInv, StoreTypes, ReaderInOrder

LEMMA PutPreserves ==
  ASSUME StoreInv, NEW r \in Results, Put(r)
  PROVE  StoreInv'
<1>1. UNCHANGED <<reading, offset, state, got>> BY DEF Put
<1>2. /\ Pruned \in Seq(Entry) /\ Fits(Pruned) /\ NewestKept(Pruned, newest, age)
      /\ age \in 0..Ttl /\ newest \subseteq Results
  BY PrunedKeeps DEF StoreInv, StoreTypes
<1>3. CASE values' = Pruned /\ UNCHANGED <<newest, age>>
  BY <1>1, <1>2, <1>3, ReadersKept DEF StoreInv
<1>4. CASE /\ Bytes[r] <= MaxBytes /\ newest' = {r} /\ age' = 0
           /\ values' = Append(Evicted(Pruned, r), [id |-> r, left |-> Ttl])
  <2> DEFINE s == Evicted(Pruned, r)
             e == [id |-> r, left |-> Ttl]
  <2>1. s \in Seq(Entry) /\ Len(s) < Capacity /\ Used(s) + Bytes[r] <= MaxBytes
    BY <1>2, <1>4, EvictedFits DEF Room
  <2>2. e \in Entry /\ e.id = r /\ e.left = Ttl BY DEF Entry
  <2>3. values' = Append(s, e) BY <1>4
  <2> HIDE DEF s, e
  <2>4. Used(Append(s, e)) <= MaxBytes BY <2>1, <2>2, UsedOfAppend
  <2>5. /\ Append(s, e) \in Seq(Entry) /\ Len(Append(s, e)) = Len(s) + 1
        /\ Len(s) + 1 \in DOMAIN Append(s, e) /\ Append(s, e)[Len(s) + 1] = e
    BY <2>1, <2>2
  <2>6. Len(s) \in Nat /\ Capacity \in Nat BY <2>1
  <2>7. Fits(values') BY <2>1, <2>3, <2>4, <2>5, <2>6 DEF Fits
  <2>8. NewestKept(values', newest', age')
    <3> SUFFICES ASSUME NEW q \in newest'
                 PROVE  \E i \in DOMAIN values' : values'[i].id = q /\ values'[i].left + age' >= Ttl
      BY DEF NewestKept
    <3>1. q = r /\ age' = 0 BY <1>4
    <3>2. e.left + 0 >= Ttl BY <2>2
    <3> QED BY <2>2, <2>3, <2>5, <3>1, <3>2
  <2>9. values' \in Seq(Entry) /\ age' \in 0..Ttl /\ newest' \subseteq Results
    <3>1. age' \in 0..Ttl BY <1>4
    <3> QED BY <1>4, <2>3, <2>5, <3>1
  <2> QED BY <1>1, <2>7, <2>8, <2>9, ReadersKept DEF StoreInv
<1> QED BY <1>3, <1>4 DEF Put

LEMMA ClearPreserves ==
  ASSUME StoreInv, ClearResults
  PROVE  StoreInv'
<1>1. values' = <<>> /\ newest' = {} /\ age' = age /\ UNCHANGED <<reading, offset, state, got>>
  BY DEF ClearResults
<1>2. Fits(values') BY <1>1, UsedOfNone DEF Fits
<1>3. NewestKept(values', newest', age') BY <1>1 DEF NewestKept
<1>4. values' \in Seq(Entry) /\ age' \in 0..Ttl /\ newest' \subseteq Results
  BY <1>1, UsedOfNone DEF StoreInv, StoreTypes
<1> QED BY <1>1, <1>2, <1>3, <1>4, ReadersKept DEF StoreInv

\* The time to live of every entry runs down as the newest one ages.
LEMMA ExpirePreserves ==
  ASSUME StoreInv, Expire
  PROVE  StoreInv'
<1>1. UNCHANGED <<newest, reading, offset, state, got>> BY DEF Expire
<1>2. values \in Seq(Entry) /\ age \in 0..Ttl /\ newest \subseteq Results BY DEF StoreInv, StoreTypes
<1> DEFINE Aged(e) == [e EXCEPT !.left = IF @ > 0 THEN @ - 1 ELSE 0]
<1>3. \A e \in Entry : /\ Aged(e) \in Entry /\ Aged(e).id = e.id
                       /\ Aged(e).left = IF e.left > 0 THEN e.left - 1 ELSE 0
  BY DEF Entry
<1>4. /\ values' \in Seq(Entry) /\ Len(values') = Len(values) /\ Len(values) \in Nat
      /\ \A i \in 1..Len(values) :
           /\ values[i] \in Entry /\ values'[i].id = values[i].id
           /\ values'[i].left = IF values[i].left > 0 THEN values[i].left - 1 ELSE 0
  <2>1. /\ DOMAIN values = 1..Len(values) /\ Len(values) \in Nat
        /\ \A i \in 1..Len(values) : values[i] \in Entry
    BY <1>2
  <2>2. values' = [i \in 1..Len(values) |-> Aged(values[i])] BY <2>1 DEF Expire
  <2> HIDE DEF Aged
  <2>3. \A i \in 1..Len(values) : Aged(values[i]) \in Entry /\ values'[i] = Aged(values[i])
    BY <1>3, <2>1, <2>2
  <2>4. values' \in Seq(Entry) /\ Len(values') = Len(values) BY <2>1, <2>2, <2>3
  <2> QED BY <1>3, <2>1, <2>3, <2>4
<1>5. age' = (IF age < Ttl THEN age + 1 ELSE age) BY DEF Expire
<1>6. Fits(values')
  <2>1. \A n \in 1..Len(values) : values[n].id = values'[n].id BY <1>4
  <2>2. Used(values') = Used(values) BY <1>2, <1>4, <2>1, UsedOfSame
  <2> QED BY <1>4, <2>2 DEF StoreInv, Fits
<1>7. NewestKept(values', newest', age')
  <2> SUFFICES ASSUME NEW r \in newest, age' < Ttl
               PROVE  \E i \in DOMAIN values' : values'[i].id = r /\ values'[i].left + age' >= Ttl
    BY <1>1 DEF NewestKept
  <2>1. age < Ttl /\ age' = age + 1 BY <1>2, <1>5
  <2>2. PICK i \in DOMAIN values : values[i].id = r /\ values[i].left + age >= Ttl
    BY <2>1 DEF StoreInv, NewestKept
  <2>3. i \in 1..Len(values) /\ i \in DOMAIN values' BY <1>2, <1>4, <2>2
  <2>4. values[i].left \in Nat
    <3>1. \A e \in Entry : e.left \in Nat BY DEF Entry
    <3> QED BY <1>4, <2>3, <3>1
  <2>5. age \in Nat /\ Ttl \in Nat BY <1>2
  <2>6. values'[i].id = r /\ values'[i].left = IF values[i].left > 0 THEN values[i].left - 1 ELSE 0
    BY <1>4, <2>2, <2>3
  <2>7. values'[i].left + age' >= Ttl BY <2>1, <2>2, <2>4, <2>5, <2>6
  <2> QED BY <2>3, <2>6, <2>7
<1>8. age' \in 0..Ttl BY <1>2, <1>5
<1> QED BY <1>1, <1>2, <1>4, <1>6, <1>7, <1>8, ReadersKept DEF StoreInv

\* A reader is given the chunk that follows what it has.
LEMMA ReadPreserves ==
  ASSUME StoreInv, NEW d \in Readers, NEW r \in Results, Read(d, r)
  PROVE  StoreInv'
<1>1. /\ state[d] = "more" /\ reading[d] \in {r, "none"}
      /\ reading' = [reading EXCEPT ![d] = r]
      /\ values' = Pruned /\ UNCHANGED <<newest, age>>
  BY DEF Read
<1>2. /\ Fits(values') /\ NewestKept(values', newest', age')
      /\ values' \in Seq(Entry) /\ age' \in 0..Ttl /\ newest' \subseteq Results
  BY <1>1, PrunedKeeps DEF StoreInv, StoreTypes
<1>3. /\ reading \in [Readers -> Results \cup {"none"}] /\ offset \in [Readers -> Nat]
      /\ state \in [Readers -> {"more", "whole", "lost"}] /\ DOMAIN got = Readers
  BY DEF StoreInv, StoreTypes
<1>4. reading'[d] = r /\ r # "none" BY <1>1, <1>3
<1>5. offset[d] \in 0..TotalChars[r] /\ got[d] = SubSeq(Text(r), 1, offset[d])
  <2>1. ReaderInOrder(d) BY DEF StoreInv
  <2>2. CASE reading[d] = r BY <1>4, <2>1, <2>2 DEF ReaderInOrder
  <2>3. CASE reading[d] = "none"
    <3>1. offset[d] = 0 /\ got[d] = <<>> BY <2>1, <2>3 DEF ReaderInOrder
    <3>2. SubSeq(Text(r), 1, 0) = <<>> BY SubSeqEmpty
    <3>3. 0 \in 0..TotalChars[r] BY TextIs
    <3> QED BY <3>1, <3>2, <3>3
  <2> QED BY <1>1, <2>2, <2>3
<1>6. ASSUME NEW c \in Readers, c # d,
             \/ UNCHANGED <<offset, got>>
             \/ \E o, g : offset' = [offset EXCEPT ![d] = o] /\ got' = [got EXCEPT ![d] = g],
             \E s : state' = [state EXCEPT ![d] = s]
      PROVE  ReaderInOrder(c)'
  <2>1. UNCHANGED <<reading[c], offset[c], got[c], state[c]>> BY <1>1, <1>3, <1>6
  <2>2. ReaderInOrder(c) BY DEF StoreInv
  <2> QED BY <2>1, <2>2 DEF ReaderInOrder
<1>7. CASE state' = [state EXCEPT ![d] = "lost"] /\ UNCHANGED <<offset, got>>
  <2>1. StoreTypes' BY <1>1, <1>2, <1>3, <1>7 DEF StoreTypes
  <2>2. ReaderInOrder(d)' BY <1>3, <1>4, <1>5, <1>7 DEF ReaderInOrder
  <2>3. \A c \in Readers : ReaderInOrder(c)' BY <1>6, <1>7, <2>2
  <2> QED BY <1>2, <2>1, <2>3 DEF StoreInv
<1>8. CASE /\ got' = [got EXCEPT ![d] = @ \o Chunk(r, offset[d])]
           /\ offset' = [offset EXCEPT ![d] = @ + Len(Chunk(r, @))]
           /\ state' = [state EXCEPT ![d] = IF GoesOn(r, offset'[d]) THEN "more" ELSE "whole"]
  <2> DEFINE to == offset[d] + Len(Chunk(r, offset[d]))
  <2>1. to \in 0..TotalChars[r] /\ got[d] \o Chunk(r, offset[d]) = SubSeq(Text(r), 1, to)
    BY <1>5, ChunkFollows
  <2>2. /\ offset' = [offset EXCEPT ![d] = to] /\ offset'[d] = to
        /\ got' = [got EXCEPT ![d] = SubSeq(Text(r), 1, to)]
    BY <1>3, <1>8, <2>1
  <2> HIDE DEF to
  <2>3. TotalChars[r] \in Nat /\ to \in Nat BY <2>1, TextIs
  <2>4. state'[d] = "whole" => to = TotalChars[r]
    BY <1>3, <1>8, <2>1, <2>2, <2>3 DEF GoesOn
  <2>5. StoreTypes' BY <1>1, <1>2, <1>3, <1>8, <2>2, <2>3 DEF StoreTypes
  <2>6. ReaderInOrder(d)' BY <1>3, <1>4, <2>1, <2>2, <2>4 DEF ReaderInOrder
  <2>7. \A c \in Readers : ReaderInOrder(c)' BY <1>6, <1>8, <2>2, <2>6
  <2> QED BY <1>2, <2>5, <2>7 DEF StoreInv
<1> QED BY <1>7, <1>8 DEF Read

LEMMA UnheardPreserves ==
  ASSUME StoreInv, ReadUnheard
  PROVE  StoreInv'
<1>1. values' = Pruned /\ UNCHANGED <<newest, age, reading, offset, state, got>>
  BY DEF ReadUnheard
<1>2. /\ Fits(values') /\ NewestKept(values', newest', age')
      /\ values' \in Seq(Entry) /\ age' \in 0..Ttl /\ newest' \subseteq Results
  BY <1>1, PrunedKeeps DEF StoreInv, StoreTypes
<1> QED BY <1>1, <1>2, ReadersKept DEF StoreInv

LEMMA StoreUnchanged ==
  ASSUME StoreInv, UNCHANGED storeVars
  PROVE  StoreInv'
BY DEF storeVars, StoreInv, StoreTypes, Fits, NewestKept, ReaderInOrder

-----------------------------------------------------------------------------
(* The two together.                                                        *)

LEMMA SessionStepPreserves ==
  ServerInv /\ StoreInv /\ [SessionNext]_<<sseVars, storeVars>> => ServerInv' /\ StoreInv'
<1> SUFFICES ASSUME ServerInv, StoreInv, [SessionNext]_<<sseVars, storeVars>>
             PROVE  ServerInv' /\ StoreInv'
  OBVIOUS
<1> USE ServerStepPreserves, ClearPreserves, StoreUnchanged
<1>1. ASSUME NEW fails \in BOOLEAN, NEW flushed \in BOOLEAN, Connect(fails, flushed), ClearResults
      PROVE  ServerInv' /\ StoreInv'
  BY <1>1 DEF SseNext
<1>2. ASSUME NEW id \in Connection, ClosedByClient(id) PROVE ServerInv' /\ StoreInv'
  <2>1. ResponseClosed(id) /\ (ClearResults \/ UNCHANGED storeVars) BY <1>2 DEF ClosedByClient
  <2> QED BY <2>1 DEF SseNext
<1>3. ASSUME SseShutdown, ClearResults PROVE ServerInv' /\ StoreInv'
  BY <1>3 DEF SseNext
<1>4. ASSUME NEW p \in Posts, NEW id \in Connection, LookUp(p, id), UNCHANGED storeVars
      PROVE  ServerInv' /\ StoreInv'
  BY <1>4 DEF SseNext
<1>5. ASSUME NEW p \in Posts, HandleRead(p) PROVE ServerInv' /\ StoreInv'
  <2>1. HandlePost(p, TRUE) BY <1>5 DEF HandleRead
  <2>2. p \in Readers BY ReadersAssumption
  <2>3. ASSUME NEW r \in Results, Read(p, r) PROVE StoreInv'
    BY <2>2, <2>3, ReadPreserves
  <2>4. StoreInv' BY <1>5, <2>3, UnheardPreserves DEF HandleRead
  <2>5. ServerInv' BY <2>1 DEF SseNext
  <2> QED BY <2>4, <2>5
<1>6. ASSUME NEW p \in Posts, NEW wellFormed \in BOOLEAN, HandleOther(p, wellFormed)
      PROVE  ServerInv' /\ StoreInv'
  BY <1>6 DEF HandleOther, SseNext
<1>7. ASSUME NEW r \in Results, StoreResult(r) PROVE ServerInv' /\ StoreInv'
  BY <1>7, PutPreserves DEF StoreResult
<1>8. ASSUME Expire, UNCHANGED sseVars PROVE ServerInv' /\ StoreInv'
  BY <1>8, ExpirePreserves
<1>9. CASE UNCHANGED <<sseVars, storeVars>>
  BY <1>9
<1> QED BY <1>1, <1>2, <1>3, <1>4, <1>5, <1>6, <1>7, <1>8, <1>9 DEF SessionNext

LEMMA ServerAndStoreInvariant == SessionSpec => [](ServerInv /\ StoreInv)
<1>1. SessionInit => ServerInv /\ StoreInv
  BY ServerInitEstablishes, StoreInitEstablishes DEF SessionInit
<1> QED BY <1>1, SessionStepPreserves, PTL DEF SessionSpec

\* With its store, which every close of the server clears, the server still has the
\* newest connection or none, for every number of connections, POSTs and results
\* (GET /sse 96-196, src/server.ts:53-54).
THEOREM SessionServesNewest == SessionSpec => []NewestServed
<1>1. ServerInv => NewestServed BY DEF ServerInv
<1> QED BY <1>1, ServerAndStoreInvariant, PTL

\* Neither is a POST that reads a result or does anything else heard for a replaced
\* connection (POST /messages 198-254).
THEOREM SessionPostsAreForNewest == SessionSpec => PostsReachNewest
<1> DEFINE A == \A p \in Posts :
                  post[p] = "reading" /\ post'[p] \in {"handled", "unheard"} =>
                    /\ sentTo[p] = activeTransportId /\ ~ over /\ ~ down
                    /\ post'[p] = "unheard" => late
<1>1. [SessionNext]_<<sseVars, storeVars>> => [SseNext]_sseVars
  BY DEF SessionNext, SseNext, ClosedByClient, HandleRead, HandleOther, StoreResult
<1>2. ServerInv /\ [SessionNext]_<<sseVars, storeVars>> => A /\ [SseNext]_sseVars
  BY <1>1, HeardForNewest
<1>3. SessionSpec => [](ServerInv /\ StoreInv) BY ServerAndStoreInvariant
<1> QED BY <1>2, <1>3, PTL DEF SessionSpec, PostsReachNewest

\* Whatever is put, read, cleared or expired, and however large the results, the store
\* stays within its two limits and holds the result put last until that expires or is
\* cleared, for every capacity, budget and time to live (put 11-28).
THEOREM StoreIsBounded == SessionSpec => []NewestFits
<1> QED BY StoreInvImplies, ServerAndStoreInvariant, PTL

\* What a reader puts together is the beginning of one result, and all of it when there
\* is no nextOffset, for texts and chunks of every length (read 29-38).
THEOREM ReadsStayWhole == SessionSpec => []ReadsAreWhole
<1> QED BY StoreInvImplies, ServerAndStoreInvariant, PTL
=============================================================================
