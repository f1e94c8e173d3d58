------------------------- MODULE MCServiceTitanClient -------------------------
EXTENDS ServiceTitanClient, TLC

Interchangeable == Permutations(Requests) \cup Permutations(Flights)
=============================================================================
