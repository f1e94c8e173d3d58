---------------------------- MODULE MCRequestGate ----------------------------
(* Five requests for two slots and a queue of two: one request is turned    *)
(* away while the gate is full, and waiters behind waiters exist.           *)
EXTENDS GateOrder
=============================================================================
