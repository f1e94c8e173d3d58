---------------------------- MODULE MCHttpSessions ----------------------------
(* Two clients for one place, so that one is refused while the other          *)
(* initializes or closes, and two requests that may share a session.            *)
EXTENDS HttpSessions
=============================================================================
