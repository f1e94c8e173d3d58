---------------------------- MODULE MCAccessToken ----------------------------
(* Three callers and two unwound fetches: a caller can leave, a second one  *)
(* start a new fetch and a third meet both.  Three tokens allow a stale 401 *)
(* to hit a token newer than the one it rejects; one lifetime ends inside   *)
(* the buffer, and one Retry-After is beyond the wait budget.               *)
EXTENDS AccessToken, TLC

Interchangeable == Permutations(Callers) \cup Permutations(Flights)
=============================================================================
