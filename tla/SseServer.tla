------------------------------- MODULE SseServer -------------------------------
(***************************************************************************)
(* The SSE endpoint: one McpServer that can serve one transport at a time,  *)
(* and a new connection that takes the place of the one before it           *)
(* (src/sse.ts).  Nothing that GET /sse awaits waits for I/O, so that a      *)
(* connection is set up in one turn; the "close" event of a response comes   *)
(* in a later one.  Connections are numbered as activeTransportId does.      *)
(*                                                                         *)
(* Assumed of the SDK: the close() of a server closes its transport; that of *)
(* a transport ends its response and calls onclose, which is called again on *)
(* the "close" event of the response; a server that has been connected to a  *)
(* transport drops, on each of its onclose, whatever transport it has then;  *)
(* connect() refuses a second transport; a closed transport refuses POSTs,   *)
(* and an open one has the server handle them, whose answers go to the       *)
(* transport it has, if any.                                                *)
(***************************************************************************)
EXTENDS Naturals

CONSTANTS MaxConnections,  \* bound of the model: GET /sse requests
          Posts            \* who sends POST /messages, one at a time each

ASSUME ConnectionsAssumption == MaxConnections \in Nat

VARIABLES
  activeTransportId,
  transports,    \* connections in the map
  attached,      \* the connection the server is connected to, or 0
  disconnected,  \* connections whose cleanup has run
  open, ending,  \* responses that are open, and ended ones whose "close" is still due
  over, late,    \* history: the newest connection could not be made or its response has
                 \* closed; since it came, the response of a replaced one has closed
  post, sentTo,  \* of a poster, its last POST: "none", "reading", "handled", "unheard" (by
                 \* a server without transport) or "refused"; and for whom it was
  down           \* shutdown has been called

sseVars == <<activeTransportId, transports, attached, disconnected, open, ending, over, late, post, sentTo, down>>

Connection == 1 .. MaxConnections

SseInit ==
  /\ activeTransportId = 0 /\ attached = 0
  /\ transports = {} /\ disconnected = {} /\ open = {} /\ ending = {}
  /\ over = FALSE /\ late = FALSE
  /\ post = [p \in Posts |-> "none"] /\ sentTo = [p \in Posts |-> 0]
  /\ down = FALSE

-----------------------------------------------------------------------------
\* What server.close() and the loop over the map close before a new connection.
MappedOnly == transports \ {attached}
Replaced == (transports \cup {attached}) \ {0}

\* GET /sse. The connections that are closed are not the active one any more, so
\* that their cleanups leave the server alone; the cleanup of a connection that
\* cannot be made closes it. The responses that are ended here may be flushed, and
\* their "close" events come, before the server is connected again.
Connect(fails, flushed) ==
  LET id       == activeTransportId + 1
      rejected == fails \/ attached \notin Replaced \cup {0}
      made     == IF rejected THEN {} ELSE {id}
  IN
  /\ ~ down /\ id <= MaxConnections
  /\ activeTransportId' = id
  /\ attached' = IF rejected THEN 0 ELSE id
  /\ transports' = (transports \ Replaced) \cup made
  /\ disconnected' = disconnected \cup Replaced \cup ({id} \ made)
  /\ open' = (open \ Replaced) \cup made
  /\ ending' = ending \cup (IF flushed THEN {} ELSE open \cap Replaced)
  /\ over' = fails /\ late' = FALSE
  /\ UNCHANGED <<post, sentTo, down>>

\* The "close" event: the client has left, or the server has ended the response.
\* cleanupTransport forgets the connection, and closes the server if it is the active
\* one; the server loses its transport to onclose, whosever response this is.
ResponseClosed(id) ==
  /\ id \in open \cup ending
  /\ open' = open \ {id} /\ ending' = ending \ {id}
  /\ disconnected' = disconnected \cup {id} /\ transports' = transports \ {id}
  /\ attached' = 0
  /\ over' = (over \/ id = activeTransportId) /\ late' = (late \/ id # activeTransportId)
  /\ UNCHANGED <<activeTransportId, post, sentTo, down>>

-----------------------------------------------------------------------------
(* POST /messages: the transport is looked up before the body is read.      *)
LookUp(p, id) ==
  /\ post[p] # "reading" /\ id \in 1 .. activeTransportId
  /\ sentTo' = [sentTo EXCEPT ![p] = id]
  /\ post' = [post EXCEPT ![p] = IF id \in transports THEN "reading" ELSE "refused"]
  /\ UNCHANGED <<activeTransportId, transports, attached, disconnected, open, ending, over, late, down>>

Answers(p) == IF attached = sentTo[p] THEN "handled" ELSE "unheard"

Settle(p, outcome) ==
  /\ post[p] = "reading"
  /\ post' = [post EXCEPT ![p] = outcome]
  /\ UNCHANGED <<activeTransportId, transports, attached, disconnected, open, ending, over, late, sentTo, down>>

\* Were the message given to the server whatever has become of the connection.
HandlePostOfReplaced(p, wellFormed) ==
  Settle(p, IF wellFormed THEN Answers(p) ELSE "refused")

\* A body that is too large or no JSON is refused, and by the transport any body if
\* it has been closed.
HandlePost(p, wellFormed) ==
  Settle(p, IF wellFormed /\ sentTo[p] \notin disconnected THEN Answers(p) ELSE "refused")

\* shutdown: each transport and the server are closed, and no request is accepted.
SseShutdown ==
  /\ ~ down /\ down' = TRUE
  /\ transports' = {} /\ attached' = 0
  /\ disconnected' = disconnected \cup Replaced
  /\ open' = open \ Replaced /\ ending' = ending \cup (open \cap Replaced)
  /\ UNCHANGED <<activeTransportId, over, late, post, sentTo>>

SseNext ==
  \/ \E fails, flushed \in BOOLEAN : Connect(fails, flushed)
  \/ \E id \in Connection : ResponseClosed(id)
  \/ \E p \in Posts : (\E id \in Connection : LookUp(p, id)) \/ \E wellFormed \in BOOLEAN : HandlePost(p, wellFormed)
  \/ SseShutdown

SseSpec == SseInit /\ [][SseNext]_sseVars

-----------------------------------------------------------------------------
\* INVARIANT. Only the newest connection is in the map, until its response closes, and
\* its transport is the only one the server may have: it has it unless the "close" event
\* of a replaced connection has come after it was made. That event neither removes the
\* newest connection nor puts an older one in its place (GET /sse 96-196, README.md:150
\* "a new SSE connection replaces the prior one").
NewestServed ==
  /\ transports = IF over \/ down THEN {} ELSE {activeTransportId} \ {0}
  /\ attached \in transports \cup {0}
  /\ transports # {} /\ ~ late => attached = activeTransportId
  /\ (1 .. activeTransportId) \ disconnected = transports

\* ACTION PROPERTY. A POST that the server hears was sent to the connection that is the
\* newest when its body has been read, not to the one it was when the transport was
\* looked up; that connection has not closed, and is answered unless the "close" event
\* of a replaced one came after it was made (POST /messages 198-254).
PostsReachNewest ==
  [][\A p \in Posts :
       post[p] = "reading" /\ post'[p] \in {"handled", "unheard"} =>
         /\ sentTo[p] = activeTransportId /\ ~ over /\ ~ down
         /\ post'[p] = "unheard" => late]_sseVars
=============================================================================
