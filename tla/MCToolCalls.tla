----------------------------- MODULE MCToolCalls -----------------------------
(* A write, a delete and a read for two places: the third is turned away    *)
(* while both are taken, under each of the six valid configurations.        *)
EXTENDS ToolCalls
=============================================================================
