--------------------------- MODULE MCReferenceCache ---------------------------
(* Two callers with a signal and two without, one kind of data, up to two    *)
(* pages, clear() once.                                                      *)
EXTENDS ReferenceCache, TLC

Alike == Permutations(Signalled) \cup Permutations(Calls \ Signalled)
=============================================================================
