----------------------------- MODULE SharedResult -----------------------------
(***************************************************************************)
(* What the callers of a cache of loaded results may rely on, whatever is   *)
(* kept, shared or evicted: a call is answered by a load of what it asked   *)
(* for, with the outcome that load really has; a kept answer is a whole     *)
(* one; nobody but the owner of a signal is told of its cancellation, and   *)
(* the owner of an aborted signal is told nothing else.                     *)
(* src/cache.ts getOrLoad, src/domains/intelligence/helpers.ts withIntelCache. *)
(***************************************************************************)
CONSTANTS Calls,        \* a load has the name of the call that starts it
          Cancellable,  \* calls that carry a signal
          Topics,       \* what can be asked for
          None          \* no topic, no load

VARIABLES topic,    \* what a call has asked for
          load,     \* what became of the load a call has started
          aborted,  \* calls whose signal has fired
          told      \* what a call has been told, and by which load

vars == <<topic, load, aborted, told>>

Nothing == [is |-> "nothing", by |-> None]
Waiting(c) == topic[c] # None /\ told[c] = Nothing

Init ==
  /\ topic = [c \in Calls |-> None]
  /\ load = [c \in Calls |-> "none"]
  /\ aborted = {}
  /\ told = [c \in Calls |-> Nothing]

\* A call is answered at once by what is kept, or waits: for a load of its own
\* or for one that is running.
Ask(c, t) ==
  /\ topic[c] = None
  /\ topic' = [topic EXCEPT ![c] = t]
  /\ \/ \E l \in Calls : /\ load[l] = "whole" /\ topic[l] = t /\ c \notin aborted
                         /\ told' = [told EXCEPT ![c] = [is |-> "whole", by |-> l]]
                         /\ UNCHANGED load
     \/ /\ c \in aborted
        /\ told' = [told EXCEPT ![c] = [is |-> "cancelled", by |-> None]]
        /\ UNCHANGED load
     \/ \E l \in Calls : load[l] = "running" /\ topic[l] = t /\ UNCHANGED <<load, told>>
     \/ load' = [load EXCEPT ![c] = "running"] /\ UNCHANGED told
  /\ UNCHANGED aborted

\* A load ends and with it the wait of `those`; older results may give way.
Settle(l, outcome, those) ==
  /\ load[l] = "running"
  /\ l \in those /\ those \cap aborted = {}
  /\ \A c \in those : Waiting(c) /\ topic[c] = topic[l]
  /\ outcome = "handle" => those = {l}   \* a handle is of use to one session
  /\ told' = [c \in Calls |-> IF c \in those THEN [is |-> outcome, by |-> l] ELSE told[c]]
  /\ \E old \in SUBSET {k \in Calls : load[k] = "whole"} :
       load' = [k \in Calls |-> IF k = l THEN outcome ELSE IF k \in old THEN "gone" ELSE load[k]]
  /\ UNCHANGED <<topic, aborted>>

Forget(those) ==
  /\ those # {} /\ \A l \in those : load[l] = "whole"
  /\ load' = [l \in Calls |-> IF l \in those THEN "gone" ELSE load[l]]
  /\ UNCHANGED <<topic, aborted, told>>

Abort(c) ==
  /\ c \in Cancellable
  /\ aborted' = aborted \cup {c}
  /\ UNCHANGED <<topic, load, told>>

Withdraw(c) ==
  /\ c \in aborted /\ Waiting(c)
  /\ told' = [told EXCEPT ![c] = [is |-> "cancelled", by |-> None]]
  /\ load' = [load EXCEPT ![c] = "gone"]
  /\ UNCHANGED <<topic, aborted>>

Next ==
  \/ \E c \in Calls : Abort(c) \/ Withdraw(c) \/ \E t \in Topics : Ask(c, t)
  \/ \E l \in Calls, those \in SUBSET Calls, outcome \in {"whole", "marked", "handle", "failed"} :
       Settle(l, outcome, those)
  \/ \E those \in SUBSET Calls : Forget(those)

Spec == Init /\ [][Next]_vars
=============================================================================
