----------------------------- MODULE HttpSessions -----------------------------
(***************************************************************************)
(* The sessions of the streamable HTTP entry point: initialization under a *)
(* limit, requests and streams on a session, the reaper, the ways in which *)
(* a session is closed, and shutdown (src/streamable-http.ts, main).       *)
(*                                                                         *)
(* A session has the name of the client that opens it.  The SDK's server   *)
(* and transport are represented by when their promises settle.            *)
(***************************************************************************)
EXTENDS Naturals, FiniteSets

CONSTANTS Clients,      \* each sends one initialize request
          Requests,     \* later requests; each names a session
          MaxSessions,  \* config.maxSessions
          None          \* no session

ASSUME MaxSessionsAssumption == MaxSessions \in Nat \ {0}
ASSUME NoneAssumption == None \notin Clients

VARIABLES
  pendingInitializations,
  opening,         \* where an initialize request stands
  sessions,        \* the keys of the Map
  server,          \* the server made for a client
  closing,         \* how far closeSession has come
  activeRequests,
  idle,            \* lastSeen is longer ago than SESSION_IDLE_TTL_MS
  request,         \* where a request stands, on which session
  finished,        \* its own flag: counted down already
  emitted,         \* "finish" and "close" events of its response
  run,             \* the process
  awaited          \* the closeSession promises shutdown waits for

initVars == <<pendingInitializations, opening, server>>
sessionVars == <<sessions, closing>>
countVars == <<activeRequests, idle, finished>>
requestVars == <<request, emitted>>
processVars == <<run, awaited>>
vars == <<initVars, sessionVars, countVars, requestVars, processVars>>

Init ==
  /\ pendingInitializations = 0
  /\ opening = [c \in Clients |-> "new"]
  /\ server = [c \in Clients |-> "none"]
  /\ sessions = {}
  /\ closing = [c \in Clients |-> "no"]
  /\ activeRequests = [c \in Clients |-> 0]
  /\ idle = [c \in Clients |-> FALSE]
  /\ finished = [r \in Requests |-> FALSE]
  /\ request = [r \in Requests |-> [at |-> "new", on |-> None]]
  /\ emitted = [r \in Requests |-> {}]
  /\ run = "running"
  /\ awaited = {}

-----------------------------------------------------------------------------
(* Closing.                                                                 *)

\* The start of closeSession: nothing if it has started before, which is also
\* what transport.onclose meets when the transport is closed here.
StartClosing(these) ==
  closing' = [c \in Clients |->
    IF c \in these \cap sessions /\ closing[c] = "no" THEN "transport" ELSE closing[c]]

\* transport.close() has settled.
TransportClosed(c) ==
  /\ closing[c] = "transport"
  /\ closing' = [closing EXCEPT ![c] = "server"]
  /\ sessions' = sessions \ {c}
  /\ UNCHANGED <<initVars, countVars, requestVars, processVars>>

\* server.close() has settled.
ServerClosed(c) ==
  /\ closing[c] = "server"
  /\ closing' = [closing EXCEPT ![c] = "closed"]
  /\ server' = [server EXCEPT ![c] = "closed"]
  /\ UNCHANGED <<pendingInitializations, opening, sessions, countVars, requestVars, processVars>>

\* The clock passes lastSeen + SESSION_IDLE_TTL_MS.
Age(c) ==
  /\ c \in sessions /\ ~idle[c]
  /\ idle' = [idle EXCEPT ![c] = TRUE]
  /\ UNCHANGED <<initVars, sessionVars, activeRequests, finished, requestVars, processVars>>

ExpiredWhateverRuns == {c \in sessions : closing[c] = "no" /\ idle[c]}
Expired == {c \in sessions : closing[c] = "no" /\ activeRequests[c] = 0 /\ idle[c]}

\* A tick of the interval timer that finds something.
Reap ==
  /\ run = "running" /\ Expired # {}
  /\ StartClosing(Expired)
  /\ UNCHANGED <<initVars, sessions, countVars, requestVars, processVars>>

-----------------------------------------------------------------------------
(* Initialization.                                                          *)

FullBySessions == Cardinality(sessions) >= MaxSessions
Full == Cardinality(sessions) + pendingInitializations >= MaxSessions

\* A place is taken, or the answer is 503.
BeginInit(c) ==
  /\ opening[c] = "new"
  /\ opening' = [opening EXCEPT ![c] = IF Full THEN "done" ELSE "building"]
  /\ pendingInitializations' = pendingInitializations + (IF Full THEN 0 ELSE 1)
  /\ UNCHANGED <<server, sessionVars, countVars, requestVars, processVars>>

\* The finally block.
EndInit(c) ==
  /\ opening' = [opening EXCEPT ![c] = "done"]
  /\ pendingInitializations' = pendingInitializations - 1

\* createSessionServer resolves or throws; then there is nothing to close.
ServerBuilt(c) ==
  /\ opening[c] = "building"
  /\ opening' = [opening EXCEPT ![c] = "connecting"]
  /\ server' = [server EXCEPT ![c] = "live"]
  /\ UNCHANGED <<pendingInitializations, sessionVars, countVars, requestVars, processVars>>

BuildFails(c) ==
  /\ opening[c] = "building"
  /\ EndInit(c)
  /\ UNCHANGED <<server, sessionVars, countVars, requestVars, processVars>>

\* onsessioninitialized, called back from handleRequest.
Register(c) ==
  /\ opening[c] = "connecting"
  /\ opening' = [opening EXCEPT ![c] = "answering"]
  /\ sessions' = sessions \cup {c}
  /\ idle' = [idle EXCEPT ![c] = FALSE]
  /\ UNCHANGED <<pendingInitializations, server, closing, activeRequests, finished,
                 requestVars, processVars>>

\* connect or handleRequest throws, or handleRequest ends without a session.
AfterNoSessionLeaving(c) == EndInit(c)
AfterNoSession(c) ==
  /\ opening' = [opening EXCEPT ![c] = "undoing"]
  /\ UNCHANGED pendingInitializations

NoSession(c) ==
  /\ opening[c] = "connecting"
  /\ AfterNoSession(c)
  /\ UNCHANGED <<server, sessionVars, countVars, requestVars, processVars>>

\* The new transport and the new server are closed, both awaited.
Undone(c) ==
  /\ opening[c] = "undoing"
  /\ server' = [server EXCEPT ![c] = "closed"]
  /\ EndInit(c)
  /\ UNCHANGED <<sessionVars, countVars, requestVars, processVars>>

\* handleRequest resolves after the session was registered, or throws.
InitSucceeds(c) ==
  /\ opening[c] = "answering"
  /\ EndInit(c)
  /\ UNCHANGED <<server, sessionVars, countVars, requestVars, processVars>>

InitFails(c) ==
  /\ opening[c] = "answering"
  /\ EndInit(c)
  /\ StartClosing({c})
  /\ UNCHANGED <<server, sessions, countVars, requestVars, processVars>>

-----------------------------------------------------------------------------
(* Requests on a session.                                                   *)

\* 404: unknown, closed or closing.
Reject(r, c) ==
  /\ request[r].at = "new"
  /\ c \notin sessions \/ closing[c] # "no"
  /\ request' = [request EXCEPT ![r].at = "done"]
  /\ UNCHANGED <<initVars, sessionVars, countVars, emitted, processVars>>

Accept(r, c) ==
  /\ request[r].at = "new"
  /\ c \in sessions /\ closing[c] = "no"
  /\ request' = [request EXCEPT ![r] = [at |-> "handling", on |-> c]]
  /\ activeRequests' = [activeRequests EXCEPT ![c] = @ + 1]
  /\ idle' = [idle EXCEPT ![c] = FALSE]
  /\ UNCHANGED <<initVars, sessionVars, finished, emitted, processVars>>

\* finishedRequest, whichever of its callers is first.
FinishedEveryTime(r) ==
  /\ finished' = [finished EXCEPT ![r] = TRUE]
  /\ activeRequests' = [activeRequests EXCEPT ![request[r].on] = @ - 1]
  /\ idle' = [idle EXCEPT ![request[r].on] = FALSE]
FinishedRequest(r) ==
  IF finished[r] THEN UNCHANGED countVars
  ELSE /\ finished' = [finished EXCEPT ![r] = TRUE]
       /\ activeRequests' = [activeRequests EXCEPT ![request[r].on] = @ - 1]
       /\ idle' = [idle EXCEPT ![request[r].on] = FALSE]

\* The listeners of the response: finish, when it was sent, and close, after
\* that or when the client is gone.
ListensToFinish(event) == event = "finish"
ListensTo(event) == event \in {"finish", "close"}

ResponseEvent(r, event) ==
  /\ request[r].at \in {"handling", "returned"}
  /\ event \notin emitted[r] /\ "close" \notin emitted[r]
  /\ emitted' = [emitted EXCEPT ![r] = @ \cup {event}]
  /\ IF ListensTo(event) THEN FinishedRequest(r) ELSE UNCHANGED countVars
  /\ UNCHANGED <<initVars, sessionVars, request, processVars>>

\* The finally block of a request whose handleRequest resolved or threw.
HandlerLeaves(r, writableEnded) ==
  /\ request[r].at = "handling"
  /\ "finish" \in emitted[r] => writableEnded
  /\ request' = [request EXCEPT ![r].at = "returned"]
  /\ IF writableEnded THEN FinishedRequest(r) ELSE UNCHANGED countVars
  /\ UNCHANGED <<initVars, sessions, emitted, processVars>>

\* A stream stays open after its handler has returned.
HandlerReturns(r, writableEnded) ==
  HandlerLeaves(r, writableEnded) /\ UNCHANGED closing

\* A transport that fails takes its session down.
HandlerFails(r, writableEnded) ==
  HandlerLeaves(r, writableEnded) /\ StartClosing({request[r].on})

\* DELETE: the transport closes itself, onclose closes the session.
Disconnect(r) ==
  /\ request[r].at = "handling"
  /\ StartClosing({request[r].on})
  /\ UNCHANGED <<initVars, sessions, countVars, requestVars, processVars>>

-----------------------------------------------------------------------------
(* Shutdown.                                                                *)

Shutdown ==
  /\ run = "running"
  /\ run' = "closing"
  /\ awaited' = {c \in sessions : closing[c] = "no"}
  /\ StartClosing(sessions)
  /\ UNCHANGED <<initVars, sessions, countVars, requestVars>>

\* All closed: httpServer.close().
Drain ==
  /\ run = "closing" /\ \A c \in awaited : closing[c] = "closed"
  /\ run' = "draining"
  /\ UNCHANGED <<initVars, sessionVars, countVars, requestVars, awaited>>

\* Its callback, when no connection is left.
CleanExit ==
  /\ run = "draining"
  /\ \A c \in Clients : opening[c] \in {"new", "done"}
  /\ \A r \in Requests : request[r].at \in {"new", "done"} \/ "close" \in emitted[r]
  /\ run' = "exited"
  /\ UNCHANGED <<initVars, sessionVars, countVars, requestVars, awaited>>

\* The ten-second timer.
ForcedExitUnlessDraining ==
  /\ run = "closing"
  /\ run' = "exited"
  /\ UNCHANGED <<initVars, sessionVars, countVars, requestVars, awaited>>
ForcedExit ==
  /\ run \in {"closing", "draining"}
  /\ run' = "exited"
  /\ UNCHANGED <<initVars, sessionVars, countVars, requestVars, awaited>>

-----------------------------------------------------------------------------
ClientStep(c) ==
  \/ BeginInit(c) \/ ServerBuilt(c) \/ BuildFails(c) \/ Register(c) \/ NoSession(c)
  \/ Undone(c) \/ InitSucceeds(c) \/ InitFails(c)
SessionStep(c) == TransportClosed(c) \/ ServerClosed(c) \/ Age(c)
RequestStep(r) ==
  \/ \E c \in Clients : Reject(r, c) \/ Accept(r, c)
  \/ \E event \in {"finish", "close"} : ResponseEvent(r, event)
  \/ \E writableEnded \in BOOLEAN : HandlerReturns(r, writableEnded) \/ HandlerFails(r, writableEnded)
  \/ Disconnect(r)

Next ==
  /\ run # "exited"
  /\ \/ \E c \in Clients : ClientStep(c) \/ SessionStep(c)
     \/ \E r \in Requests : RequestStep(r)
     \/ Reap \/ Shutdown \/ Drain \/ CleanExit \/ ForcedExit

Spec == Init /\ [][Next]_vars

\* Time passes, timers fire, and a close of the SDK settles.
FairSpec ==
  /\ Spec
  /\ \A c \in Clients : /\ WF_vars(run # "exited" /\ Age(c))
                         /\ WF_vars(run # "exited" /\ TransportClosed(c))
                         /\ WF_vars(run # "exited" /\ ServerClosed(c))
  /\ WF_vars(Reap)
  /\ WF_vars(ForcedExit)

-----------------------------------------------------------------------------
On(c) == {r \in Requests : request[r].on = c}
Initializing(c) == opening[c] \in {"building", "connecting", "answering", "undoing"}

(* However initializations overlap, the sessions open and those being      *)
(* opened are together never more than the configured number.              *)
WithinLimit == Cardinality(sessions \cup {c \in Clients : Initializing(c)}) <= MaxSessions

(* Every initialization gives its place back, however it ends, and a       *)
(* session's counter is the number of its requests whose response has not  *)
(* ended, although finish, close and the handler all report the end.  A    *)
(* miscount would refuse clients, or reap a stream, until the next restart.*)
CountersExact ==
  /\ pendingInitializations = Cardinality({c \in Clients : Initializing(c)})
  /\ \A c \in Clients : activeRequests[c] = Cardinality({r \in On(c) : ~finished[r]})

(* A server that was created is in the Map, on its way out of it, or in    *)
(* the hands of the request that makes it: none is left alive unreachable. *)
NothingStranded ==
  \A c \in Clients : server[c] = "live" =>
    c \in sessions \/ Initializing(c) \/ closing[c] = "server"

(* A session with an open stream is closed only by its own client, by the  *)
(* failure of a request on it or of its initialization, or at shutdown.    *)
StreamsKept ==
  [][\A c \in Clients :
       closing[c] = "no" /\ closing'[c] # "no" /\ run' = "running" =>
         \/ \E r \in On(c) : request[r].at = "handling"
         \/ opening[c] = "answering"
         \/ \A r \in On(c) : finished[r]]_vars

(* A session nobody uses is closed in the end and its place free again,    *)
(* whatever way its requests ended.                                        *)
IdleReclaimed ==
  \A c \in Clients :
    c \in sessions ~> \/ c \notin sessions \/ run # "running"
                      \/ \E r \in On(c) : emitted[r] = {}

(* Shutdown ends although clients keep streams open or open new sessions   *)
(* after it has begun.                                                     *)
ShutdownEnds == run = "closing" ~> run = "exited"
=============================================================================
