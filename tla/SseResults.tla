------------------------------- MODULE SseResults -------------------------------
(***************************************************************************)
(* The SSE server with the result store of its registry: closing the server *)
(* clears the results (src/server.ts:53-54), so that those of a replaced     *)
(* connection go with it, and a result is read back by POSTs that may be     *)
(* overtaken by a new connection.                                           *)
(***************************************************************************)
EXTENDS SseServer, ResultStore

\* st_result_read is one of the messages a POST can bring.
ASSUME ReadersAssumption == Readers = Posts

SessionInit == SseInit /\ StoreInit

\* A read whose answer has no transport to go to leaves nothing but a pruned store.
ReadUnheard == values' = Pruned /\ UNCHANGED <<fate, reading, offset, state, got, newest, age>>

HandleRead(p) ==
  /\ HandlePost(p, TRUE) /\ sentTo[p] \notin disconnected
  /\ IF attached = sentTo[p] THEN \E r \in Results : Read(p, r) ELSE ReadUnheard

HandleOther(p, wellFormed) == HandlePost(p, wellFormed) /\ UNCHANGED storeVars

\* The cleanup of the active connection closes the server, which its "close" event alone
\* does not.
ClosedByClient(id) ==
  /\ ResponseClosed(id)
  /\ IF id = activeTransportId /\ id \notin disconnected THEN ClearResults ELSE UNCHANGED storeVars

\* A tool call stores its result when it ends, be its connection gone or not.
StoreResult(r) == Put(r) /\ UNCHANGED sseVars

SessionNext ==
  \/ \E fails, flushed \in BOOLEAN : Connect(fails, flushed) /\ ClearResults
  \/ \E id \in Connection : ClosedByClient(id)
  \/ SseShutdown /\ ClearResults
  \/ \E p \in Posts : \/ \E id \in Connection : LookUp(p, id) /\ UNCHANGED storeVars
                      \/ HandleRead(p)
                      \/ \E wellFormed \in BOOLEAN : HandleOther(p, wellFormed)
  \/ \E r \in Results : StoreResult(r)
  \/ Expire /\ UNCHANGED sseVars

SessionSpec == SessionInit /\ [][SessionNext]_<<sseVars, storeVars>>
=============================================================================
