-------------------------- MODULE MCIntelligenceTools --------------------------
(* A registry call that may name any tool, and two calls of an embedding        *)
(* program that ask for the pipeline; room for one answer; clear once.  The     *)
(* dates of the tools: ticks of an hour, zones on both sides of Greenwich and   *)
(* far from it whose clock changes by an hour at some hour of the third day,    *)
(* without skipping or repeating a midnight.                                    *)
EXTENDS IntelligenceTools, LocalDays, TLC

CONSTANTS c1, c2, c3
Alike == Permutations({c2, c3})
AskedBy == [c \in Calls |-> IF c = c1 THEN Key ELSE {k \in Key : k.tool = "pipeline" /\ k.sources = {"estimates"}}]

Changing == [before : {-11, -8, -4, -1, 0, 1, 5, 10, 13}, after : -12 .. 14, at : 36 .. 72]
Regular == {zone \in Changing : zone.after - zone.before \in {-1, 0, 1} /\ HasMidnights(zone)}

\* Ranges of days depend on nothing else: they are asked for before the calls, or not.
Untouched == clears = 0 /\ aborted = {} /\ \A c \in Calls : pc[c] = "idle"
MCInit == Init /\ DaysInit
MCNext ==
  \/ asked = {} /\ Next /\ UNCHANGED asked
  \/ Untouched /\ AskForDays /\ UNCHANGED vars
MCSpec == MCInit /\ [][MCNext]_<<vars, asked>>
=============================================================================
