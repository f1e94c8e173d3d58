-------------------------- MODULE AccessTokenProofs --------------------------
(***************************************************************************)
(* What AccessToken promises, proved for any number of callers, flights    *)
(* and tokens and for every lifetime, delay and buffer.                    *)
(*                                                                         *)
(* None of the properties is inductive alone.  That a 401 or a cancelled   *)
(* caller causes no needless refresh rests on there being one wanted fetch *)
(* at a time; that on the count of waiters deciding when a flight is       *)
(* aborted; and that on the count being right.                             *)
(***************************************************************************)
EXTENDS AccessToken, FiniteSetTheorems, TLAPS

-----------------------------------------------------------------------------
(* The inductive invariant.                                                 *)

Alive(f) == phase[f] # "idle" /\ ~settled[f]
Wanted(f) == phase[f] \in Fetching /\ ~aborted[f]

\* The count of a flight is the number of its waiting callers, of which there
\* are finitely many whatever Callers is.
Counted ==
  \A f \in Flights : /\ IsFiniteSet(WaitingFor(f))
                     /\ waiters[f] = Cardinality(WaitingFor(f))

\* A waiting caller waits for a flight in use.
JoinedInUse ==
  \A c \in Callers : at[c] = "waiting" => /\ joined[c] \in Flights
                                          /\ phase[joined[c]] # "idle"

\* Until its promise is settled a flight is aborted exactly when nobody waits;
\* only the flight new callers join may be waited for; and a fetch that ended
\* in cancellation has nobody left to tell.
FlightsInOrder ==
  \A f \in Flights :
    /\ phase[f] \in Fetching => ~settled[f]
    /\ Alive(f) => (aborted[f] <=> waiters[f] = 0)
    /\ Alive(f) /\ ~aborted[f] => tokenFlight = f
    /\ tokenFlight = f => Alive(f)
    /\ phase[f] = "cancelled" => waiters[f] = 0

\* Only the newest token is cached; every other one is spent; so is the cached
\* one once it is in the buffer, or while a wanted fetch is under way.
TokensInOrder ==
  /\ accessToken \in {NoToken, tokenGeneration}
  /\ \A g \in 1..tokenGeneration : g # accessToken => g \in spent
  /\ accessToken # NoToken /\ tokenLeft <= ExpiryBuffer => accessToken \in spent
  /\ \A f \in Flights : Wanted(f) /\ accessToken # NoToken => accessToken \in spent
  /\ \A f \in Flights : phase[f] = "installed" => issued[f] # NoToken
  /\ \A c \in Callers : at[c] = "token" => held[c] # NoToken

IInv ==
  /\ TypeOK
  /\ Counted
  /\ JoinedInUse
  /\ FlightsInOrder
  /\ TokensInOrder
  /\ CancelIsolation

-----------------------------------------------------------------------------
(* Counting the callers of a flight.                                        *)

USE DEF NoToken

\* A caller that joins a flight is one more in its count.
LEMMA CallerJoins ==
  ASSUME TypeOK, Counted, NEW c \in Callers, NEW f \in Flights, at[c] = "idle",
         at' = [at EXCEPT ![c] = "waiting"],
         joined' = [joined EXCEPT ![c] = f],
         waiters' = [waiters EXCEPT ![f] = @ + 1]
  PROVE  Counted'
<1> SUFFICES ASSUME NEW g \in Flights
             PROVE  /\ IsFiniteSet(WaitingFor(g)')
                    /\ waiters'[g] = Cardinality(WaitingFor(g)')
  BY DEF Counted
<1> DEFINE W == WaitingFor(g)
<1>1. IsFiniteSet(W) /\ waiters[g] = Cardinality(W) BY DEF Counted
<1>2. CASE g = f
  <2>1. c \notin W BY DEF WaitingFor
  <2>2. W' = W \cup {c} BY <1>2 DEF WaitingFor, TypeOK
  <2>3. IsFiniteSet(W \cup {c}) /\ Cardinality(W \cup {c}) = Cardinality(W) + 1
    BY <1>1, <2>1, FS_AddElement
  <2>4. waiters'[g] = waiters[g] + 1 BY <1>2 DEF TypeOK
  <2>5. QED BY <1>1, <2>2, <2>3, <2>4
<1>3. CASE g # f
  <2>1. W' = W BY <1>3 DEF WaitingFor, TypeOK
  <2>2. waiters'[g] = waiters[g] BY <1>3 DEF TypeOK
  <2>3. QED BY <1>1, <2>1, <2>2
<1>4. QED BY <1>2, <1>3

\* A waiting caller is counted.
LEMMA WaitingIsCounted ==
  ASSUME TypeOK, Counted, NEW c \in Callers, NEW f \in Flights,
         at[c] = "waiting", joined[c] = f
  PROVE  /\ waiters[f] \in Nat \ {0}
         /\ waiters[f] = 1 =>
              \A d \in Callers : at[d] = "waiting" /\ joined[d] = f => d = c
<1> DEFINE W == WaitingFor(f)
<1>1. IsFiniteSet(W) /\ waiters[f] = Cardinality(W) /\ waiters[f] \in Nat
  BY DEF Counted, TypeOK
<1>2. c \in W BY DEF WaitingFor
<1>3. waiters[f] # 0 BY <1>1, <1>2, FS_EmptySet
<1>4. ASSUME waiters[f] = 1, NEW d \in Callers, at[d] = "waiting", joined[d] = f
      PROVE  d = c
  <2>1. d \in W BY <1>4 DEF WaitingFor
  <2>2. \E x : W = {x} BY <1>1, <1>4, FS_Singleton
  <2>3. QED BY <1>2, <2>1, <2>2
<1>5. QED BY <1>1, <1>3, <1>4

\* Nobody waits for a flight whose count is zero.
LEMMA NobodyWaits ==
  ASSUME TypeOK, Counted, NEW f \in Flights, waiters[f] = 0
  PROVE  \A c \in Callers : ~(at[c] = "waiting" /\ joined[c] = f)
BY WaitingIsCounted

\* A flight that is counted has somebody who waits for it.
LEMMA SomebodyWaits ==
  ASSUME TypeOK, Counted, NEW f \in Flights, waiters[f] # 0
  PROVE  \E c \in Callers : at[c] = "waiting" /\ joined[c] = f
<1>1. IsFiniteSet(WaitingFor(f)) /\ waiters[f] = Cardinality(WaitingFor(f))
  BY DEF Counted
<1>2. WaitingFor(f) # {} BY <1>1, FS_EmptySet
<1>3. QED BY <1>2 DEF WaitingFor

\* A caller that leaves a flight is one less in its count.
LEMMA CallerLeaves ==
  ASSUME TypeOK, Counted, NEW c \in Callers, NEW f \in Flights, NEW place,
         at[c] = "waiting", joined[c] = f, place # "waiting",
         at' = [at EXCEPT ![c] = place],
         joined' = [joined EXCEPT ![c] = NoFlight],
         waiters' = [waiters EXCEPT ![f] = @ - 1]
  PROVE  Counted'
<1> SUFFICES ASSUME NEW g \in Flights
             PROVE  /\ IsFiniteSet(WaitingFor(g)')
                    /\ waiters'[g] = Cardinality(WaitingFor(g)')
  BY DEF Counted
<1> DEFINE W == WaitingFor(g)
<1>1. IsFiniteSet(W) /\ waiters[g] = Cardinality(W) BY DEF Counted
<1>2. CASE g = f
  <2>1. c \in W BY <1>2 DEF WaitingFor
  <2>2. W' = W \ {c} BY <1>2 DEF WaitingFor, TypeOK
  <2>3. IsFiniteSet(W \ {c}) /\ Cardinality(W \ {c}) = Cardinality(W) - 1
    BY <1>1, <2>1, FS_RemoveElement
  <2>4. waiters'[g] = waiters[g] - 1 BY <1>2 DEF TypeOK
  <2>5. QED BY <1>1, <2>2, <2>3, <2>4
<1>3. CASE g # f
  <2>1. W' = W BY <1>3 DEF WaitingFor, TypeOK
  <2>2. waiters'[g] = waiters[g] BY <1>3 DEF TypeOK
  <2>3. QED BY <1>1, <2>1, <2>2
<1>4. QED BY <1>2, <1>3

\* Otherwise the counts stay true.
LEMMA NobodyMoves ==
  ASSUME TypeOK, Counted, UNCHANGED waiters,
         \A c \in Callers : \/ at'[c] = at[c] /\ joined'[c] = joined[c]
                            \/ at[c] # "waiting" /\ at'[c] # "waiting"
  PROVE  Counted'
<1> SUFFICES ASSUME NEW g \in Flights
             PROVE  /\ IsFiniteSet(WaitingFor(g)')
                    /\ waiters'[g] = Cardinality(WaitingFor(g)')
  BY DEF Counted
<1>1. WaitingFor(g)' = WaitingFor(g) BY DEF WaitingFor
<1>2. QED BY <1>1 DEF Counted

-----------------------------------------------------------------------------
(* The initial state.                                                       *)

LEMMA InitIInv == Init => IInv
<1> SUFFICES ASSUME Init PROVE IInv OBVIOUS
<1> USE FlightsAssumption, TimesAssumption DEF Init
<1>1. TypeOK BY DEF TypeOK
<1>2. Counted
  <2>1. \A f \in Flights : WaitingFor(f) = {} BY DEF WaitingFor
  <2>2. QED BY <2>1, FS_EmptySet DEF Counted
<1>3. JoinedInUse BY DEF JoinedInUse
<1>4. FlightsInOrder BY DEF FlightsInOrder, Alive, Fetching
<1>5. TokensInOrder BY DEF TokensInOrder, Wanted, Fetching
<1>6. CancelIsolation BY DEF CancelIsolation
<1>7. QED BY <1>1, <1>2, <1>3, <1>4, <1>5, <1>6 DEF IInv

-----------------------------------------------------------------------------
(* Every step preserves the invariant.  First getAccessToken up to its     *)
(* await.                                                                   *)

USE FlightsAssumption, TimesAssumption

LEMMA RefuseCancelledStep ==
  ASSUME IInv, NEW c \in Callers, RefuseCancelled(c), UNCHANGED signal
  PROVE  IInv'
<1> USE DEF RefuseCancelled, tokenVars, flightVars, callerVars, sharedVars
<1>0. /\ TypeOK /\ Counted /\ JoinedInUse
      /\ FlightsInOrder /\ TokensInOrder /\ CancelIsolation
  BY DEF IInv
<1>1. TypeOK' BY <1>0 DEF TypeOK
<1>2. Counted' BY <1>0, NobodyMoves DEF TypeOK
<1>3. JoinedInUse' BY <1>0 DEF TypeOK, JoinedInUse
<1>4. FlightsInOrder' BY <1>0 DEF TypeOK, FlightsInOrder, Alive
<1>5. TokensInOrder' BY <1>0 DEF TypeOK, TokensInOrder, Wanted
<1>6. CancelIsolation' BY <1>0 DEF TypeOK, CancelIsolation
<1>7. QED BY <1>1, <1>2, <1>3, <1>4, <1>5, <1>6 DEF IInv

LEMMA UseCachedStep ==
  ASSUME IInv, NEW c \in Callers, UseCached(c), UNCHANGED signal
  PROVE  IInv'
<1> USE DEF UseCached, HasUsableToken, tokenVars, flightVars, callerVars,
            sharedVars
<1>0. /\ TypeOK /\ Counted /\ JoinedInUse
      /\ FlightsInOrder /\ TokensInOrder /\ CancelIsolation
  BY DEF IInv
<1>1. TypeOK' BY <1>0 DEF TypeOK
<1>2. Counted' BY <1>0, NobodyMoves DEF TypeOK
<1>3. JoinedInUse' BY <1>0 DEF TypeOK, JoinedInUse
<1>4. FlightsInOrder' BY <1>0 DEF TypeOK, FlightsInOrder, Alive
<1>5. TokensInOrder' BY <1>0 DEF TypeOK, TokensInOrder, Wanted
<1>6. CancelIsolation' BY <1>0 DEF TypeOK, CancelIsolation
<1>7. QED BY <1>1, <1>2, <1>3, <1>4, <1>5, <1>6 DEF IInv

\* The joined flight is not aborted, so it is in use and has a waiter already.
LEMMA JoinFlightStep ==
  ASSUME IInv, NEW c \in Callers, JoinFlight(c), UNCHANGED signal
  PROVE  IInv'
<1> USE DEF JoinFlight, Joinable, tokenVars, flightVars, callerVars, sharedVars
<1>0. /\ TypeOK /\ Counted /\ JoinedInUse
      /\ FlightsInOrder /\ TokensInOrder /\ CancelIsolation
  BY DEF IInv
<1>1. TypeOK' BY <1>0 DEF TypeOK
<1>2. Counted' BY <1>0, CallerJoins DEF TypeOK
<1>3. JoinedInUse' BY <1>0 DEF TypeOK, JoinedInUse, FlightsInOrder, Alive
<1>4. FlightsInOrder' BY <1>0 DEF TypeOK, FlightsInOrder, Alive
<1>5. TokensInOrder' BY <1>0 DEF TypeOK, TokensInOrder, Wanted
<1>6. CancelIsolation' BY <1>0 DEF TypeOK, CancelIsolation
<1>7. QED BY <1>1, <1>2, <1>3, <1>4, <1>5, <1>6 DEF IInv

\* The new flight was idle, so nobody waits for it, and the flight it replaces
\* is aborted: no other fetch is wanted.  The cached token, if any, is spent.
LEMMA StartFlightStep ==
  ASSUME IInv, NEW c \in Callers, NEW f \in Flights, StartFlight(c, f),
         UNCHANGED signal
  PROVE  IInv'
<1> USE DEF StartFlight, HasUsableToken, Joinable, AfterCooldownCheck, NapFor,
            Fetching, Ended, tokenVars, flightVars, callerVars, sharedVars
<1>0. /\ TypeOK /\ Counted /\ JoinedInUse
      /\ FlightsInOrder /\ TokensInOrder /\ CancelIsolation
  BY DEF IInv
<1>1. TypeOK' BY <1>0 DEF TypeOK
<1>2. Counted'
  <2>1. WaitingFor(f) = {} BY <1>0 DEF JoinedInUse, WaitingFor
  <2>2. waiters[f] = 0 BY <1>0, <2>1, FS_EmptySet DEF Counted
  <2>3. waiters' = [waiters EXCEPT ![f] = @ + 1] BY <2>2
  <2>4. QED BY <1>0, <2>3, CallerJoins
<1>3. JoinedInUse' BY <1>0 DEF TypeOK, JoinedInUse
<1>4. FlightsInOrder' BY <1>0 DEF TypeOK, FlightsInOrder, Alive
<1>5. TokensInOrder' BY <1>0 DEF TypeOK, TokensInOrder, Wanted
<1>6. CancelIsolation' BY <1>0 DEF TypeOK, CancelIsolation
<1>7. QED BY <1>1, <1>2, <1>3, <1>4, <1>5, <1>6 DEF IInv

-----------------------------------------------------------------------------
(* The flight's own steps.                                                  *)

LEMMA WakeStep ==
  ASSUME IInv, NEW f \in Flights, Wake(f), UNCHANGED signal
  PROVE  IInv'
<1> USE DEF Wake, AfterCooldownCheck, NapFor, Fetching, Ended, tokenVars,
            flightVars, callerVars, sharedVars
<1>0. /\ TypeOK /\ Counted /\ JoinedInUse
      /\ FlightsInOrder /\ TokensInOrder /\ CancelIsolation
  BY DEF IInv
<1>1. TypeOK' BY <1>0 DEF TypeOK
<1>2. Counted' BY <1>0, NobodyMoves DEF TypeOK
<1>3. JoinedInUse' BY <1>0 DEF TypeOK, JoinedInUse
<1>4. FlightsInOrder' BY <1>0 DEF TypeOK, FlightsInOrder, Alive
<1>5. TokensInOrder' BY <1>0 DEF TypeOK, TokensInOrder, Wanted
<1>6. CancelIsolation' BY <1>0 DEF TypeOK, CancelIsolation
<1>7. QED BY <1>1, <1>2, <1>3, <1>4, <1>5, <1>6 DEF IInv

\* An aborted flight that has not settled has no waiters left to be cancelled.
LEMMA AbortFetchStep ==
  ASSUME IInv, NEW f \in Flights, AbortFetch(f), UNCHANGED signal
  PROVE  IInv'
<1> USE DEF AbortFetch, EndFetch, Fetching, Ended, tokenVars, flightVars,
            callerVars, sharedVars
<1>0. /\ TypeOK /\ Counted /\ JoinedInUse
      /\ FlightsInOrder /\ TokensInOrder /\ CancelIsolation
  BY DEF IInv
<1>1. TypeOK' BY <1>0 DEF TypeOK
<1>2. Counted' BY <1>0, NobodyMoves DEF TypeOK
<1>3. JoinedInUse' BY <1>0 DEF TypeOK, JoinedInUse
<1>4. FlightsInOrder' BY <1>0 DEF TypeOK, FlightsInOrder, Alive
<1>5. TokensInOrder' BY <1>0 DEF TypeOK, TokensInOrder, Wanted
<1>6. CancelIsolation' BY <1>0 DEF TypeOK, CancelIsolation
<1>7. QED BY <1>1, <1>2, <1>3, <1>4, <1>5, <1>6 DEF IInv

\* The fetch is the wanted one, so the token it replaces is spent and no other
\* fetch is wanted.
LEMMA InstallStep ==
  ASSUME IInv, NEW f \in Flights, NEW life \in Lifetimes, Install(f, life),
         UNCHANGED signal
  PROVE  IInv'
<1> USE DEF Install, StillWanted, EndFetch, Fetching, tokenVars, flightVars,
            callerVars, sharedVars
<1>0. /\ TypeOK /\ Counted /\ JoinedInUse
      /\ FlightsInOrder /\ TokensInOrder /\ CancelIsolation
  BY DEF IInv
<1>1. TypeOK'
  <2>1. tokenGeneration' \in 0..MaxGeneration /\ tokenGeneration' = tokenGeneration + 1
    BY <1>0 DEF TypeOK
  <2>2. spent' \subseteq 1..tokenGeneration' BY <1>0, <2>1 DEF TypeOK
  <2>3. /\ issued' \in [Flights -> 0..tokenGeneration']
        /\ held' \in [Callers -> 0..tokenGeneration']
    BY <1>0, <2>1 DEF TypeOK
  <2>4. accessToken' \in 0..tokenGeneration' /\ tokenLeft' \in Nat
    BY <1>0, <2>1 DEF TypeOK
  <2>5. QED BY <1>0, <2>1, <2>2, <2>3, <2>4 DEF TypeOK, Ended
<1>2. Counted' BY <1>0, NobodyMoves DEF TypeOK
<1>3. JoinedInUse' BY <1>0 DEF TypeOK, JoinedInUse
<1>4. FlightsInOrder' BY <1>0 DEF TypeOK, FlightsInOrder, Alive
<1>5. TokensInOrder'
  BY <1>0 DEF TypeOK, TokensInOrder, Wanted, FlightsInOrder, Alive
<1>6. CancelIsolation' BY <1>0 DEF TypeOK, CancelIsolation
<1>7. QED BY <1>1, <1>2, <1>3, <1>4, <1>5, <1>6 DEF IInv

LEMMA FetchErrorStep ==
  ASSUME IInv, NEW f \in Flights, FetchError(f), UNCHANGED signal
  PROVE  IInv'
<1> USE DEF FetchError, EndFetch, Fetching, Ended, tokenVars, flightVars,
            callerVars, sharedVars
<1>0. /\ TypeOK /\ Counted /\ JoinedInUse
      /\ FlightsInOrder /\ TokensInOrder /\ CancelIsolation
  BY DEF IInv
<1>1. TypeOK' BY <1>0 DEF TypeOK
<1>2. Counted' BY <1>0, NobodyMoves DEF TypeOK
<1>3. JoinedInUse' BY <1>0 DEF TypeOK, JoinedInUse
<1>4. FlightsInOrder' BY <1>0 DEF TypeOK, FlightsInOrder, Alive
<1>5. TokensInOrder' BY <1>0 DEF TypeOK, TokensInOrder, Wanted
<1>6. CancelIsolation' BY <1>0 DEF TypeOK, CancelIsolation
<1>7. QED BY <1>1, <1>2, <1>3, <1>4, <1>5, <1>6 DEF IInv

LEMMA RateLimitedStep ==
  ASSUME IInv, NEW f \in Flights, NEW delay \in RetryAfters, RateLimited(f,
         delay), UNCHANGED signal
  PROVE  IInv'
<1> USE DEF RateLimited, EndFetch, AfterCooldownCheck, NapFor, Larger,
            Fetching, Ended, tokenVars, flightVars, callerVars, sharedVars
<1>0. /\ TypeOK /\ Counted /\ JoinedInUse
      /\ FlightsInOrder /\ TokensInOrder /\ CancelIsolation
  BY DEF IInv
<1>1. TypeOK' BY <1>0 DEF TypeOK
<1>2. Counted' BY <1>0, NobodyMoves DEF TypeOK
<1>3. JoinedInUse' BY <1>0 DEF TypeOK, JoinedInUse
<1>4. FlightsInOrder' BY <1>0 DEF TypeOK, FlightsInOrder, Alive
<1>5. TokensInOrder' BY <1>0 DEF TypeOK, TokensInOrder, Wanted
<1>6. CancelIsolation' BY <1>0 DEF TypeOK, CancelIsolation
<1>7. QED BY <1>1, <1>2, <1>3, <1>4, <1>5, <1>6 DEF IInv

\* A flight is given back at once only when nobody waits for it.
LEMMA SettleStep ==
  ASSUME IInv, NEW f \in Flights, Settle(f), UNCHANGED signal
  PROVE  IInv'
<1> USE DEF Settle, Forget, Ended, Fetching, tokenVars, flightVars, callerVars,
            sharedVars
<1>0. /\ TypeOK /\ Counted /\ JoinedInUse
      /\ FlightsInOrder /\ TokensInOrder /\ CancelIsolation
  BY DEF IInv
<1>1. TypeOK' BY <1>0 DEF TypeOK
<1>2. Counted' BY <1>0, NobodyMoves DEF TypeOK
<1>3. JoinedInUse'
  <2>1. waiters[f] = 0 => \A c \in Callers : ~(at[c] = "waiting" /\ joined[c] = f)
    BY <1>0, NobodyWaits
  <2>2. QED BY <1>0, <2>1 DEF TypeOK, JoinedInUse
<1>4. FlightsInOrder' BY <1>0 DEF TypeOK, FlightsInOrder, Alive
<1>5. TokensInOrder' BY <1>0 DEF TypeOK, TokensInOrder, Wanted
<1>6. CancelIsolation' BY <1>0 DEF TypeOK, CancelIsolation
<1>7. QED BY <1>1, <1>2, <1>3, <1>4, <1>5, <1>6 DEF IInv

-----------------------------------------------------------------------------
(* getAccessToken, after its await.                                         *)

\* A flight is given back when the last caller leaves: nobody else waits for it.
LEMMA GetTokenStep ==
  ASSUME IInv, NEW c \in Callers, GetToken(c), UNCHANGED signal
  PROVE  IInv'
<1> USE DEF GetToken, LeaveFlight, Fetching, Ended, tokenVars, flightVars,
            callerVars, sharedVars
<1>0. /\ TypeOK /\ Counted /\ JoinedInUse
      /\ FlightsInOrder /\ TokensInOrder /\ CancelIsolation
  BY DEF IInv
<1>1. /\ joined[c] \in Flights
      /\ waiters[joined[c]] \in Nat \ {0}
      /\ waiters[joined[c]] = 1 =>
           \A d \in Callers : at[d] = "waiting" /\ joined[d] = joined[c] => d = c
  BY <1>0, WaitingIsCounted DEF JoinedInUse
<1>2. TypeOK' BY <1>0, <1>1 DEF TypeOK
<1>3. Counted'
  <2>1. waiters' = [waiters EXCEPT ![joined[c]] = @ - 1] OBVIOUS
  <2>2. QED BY <1>0, <1>1, <2>1, CallerLeaves DEF TypeOK
<1>4. JoinedInUse' BY <1>0, <1>1 DEF TypeOK, JoinedInUse
<1>5. FlightsInOrder' BY <1>0, <1>1 DEF TypeOK, FlightsInOrder, Alive
<1>6. TokensInOrder' BY <1>0, <1>1 DEF TypeOK, TokensInOrder, Wanted
<1>7. CancelIsolation'
  BY <1>0, <1>1 DEF TypeOK, FlightsInOrder, CancelIsolation
<1>8. QED BY <1>2, <1>3, <1>4, <1>5, <1>6, <1>7 DEF IInv

\* A flight that ended in cancellation has no waiters, so the failure is another.
LEMMA GetFailureStep ==
  ASSUME IInv, NEW c \in Callers, GetFailure(c), UNCHANGED signal
  PROVE  IInv'
<1> USE DEF GetFailure, LeaveFlight, Fetching, Ended, tokenVars, flightVars,
            callerVars, sharedVars
<1>0. /\ TypeOK /\ Counted /\ JoinedInUse
      /\ FlightsInOrder /\ TokensInOrder /\ CancelIsolation
  BY DEF IInv
<1>1. /\ joined[c] \in Flights
      /\ waiters[joined[c]] \in Nat \ {0}
      /\ waiters[joined[c]] = 1 =>
           \A d \in Callers : at[d] = "waiting" /\ joined[d] = joined[c] => d = c
  BY <1>0, WaitingIsCounted DEF JoinedInUse
<1>2. TypeOK' BY <1>0, <1>1 DEF TypeOK
<1>3. Counted'
  <2>1. waiters' = [waiters EXCEPT ![joined[c]] = @ - 1] OBVIOUS
  <2>2. QED BY <1>0, <1>1, <2>1, CallerLeaves DEF TypeOK
<1>4. JoinedInUse' BY <1>0, <1>1 DEF TypeOK, JoinedInUse
<1>5. FlightsInOrder' BY <1>0, <1>1 DEF TypeOK, FlightsInOrder, Alive
<1>6. TokensInOrder' BY <1>0, <1>1 DEF TypeOK, TokensInOrder, Wanted
<1>7. CancelIsolation'
  BY <1>0, <1>1 DEF TypeOK, FlightsInOrder, CancelIsolation
<1>8. QED BY <1>2, <1>3, <1>4, <1>5, <1>6, <1>7 DEF IInv

\* The last waiter to leave an unsettled flight aborts it.
LEMMA GiveUpStep ==
  ASSUME IInv, NEW c \in Callers, GiveUp(c), UNCHANGED signal
  PROVE  IInv'
<1> USE DEF GiveUp, LeaveFlight, Fetching, Ended, tokenVars, flightVars,
            callerVars, sharedVars
<1>0. /\ TypeOK /\ Counted /\ JoinedInUse
      /\ FlightsInOrder /\ TokensInOrder /\ CancelIsolation
  BY DEF IInv
<1>1. /\ joined[c] \in Flights
      /\ waiters[joined[c]] \in Nat \ {0}
      /\ waiters[joined[c]] = 1 =>
           \A d \in Callers : at[d] = "waiting" /\ joined[d] = joined[c] => d = c
  BY <1>0, WaitingIsCounted DEF JoinedInUse
<1>2. TypeOK' BY <1>0, <1>1 DEF TypeOK
<1>3. Counted'
  <2>1. waiters' = [waiters EXCEPT ![joined[c]] = @ - 1] OBVIOUS
  <2>2. QED BY <1>0, <1>1, <2>1, CallerLeaves DEF TypeOK
<1>4. JoinedInUse' BY <1>0, <1>1 DEF TypeOK, JoinedInUse
<1>5. FlightsInOrder' BY <1>0, <1>1 DEF TypeOK, FlightsInOrder, Alive
<1>6. TokensInOrder' BY <1>0, <1>1 DEF TypeOK, TokensInOrder, Wanted
<1>7. CancelIsolation'
  BY <1>0, <1>1 DEF TypeOK, FlightsInOrder, CancelIsolation
<1>8. QED BY <1>2, <1>3, <1>4, <1>5, <1>6, <1>7 DEF IInv

-----------------------------------------------------------------------------
(* Tokens used up, cancellation and time.                                   *)

LEMMA FinishStep ==
  ASSUME IInv, NEW c \in Callers, NewCall(c)
  PROVE  IInv'
<1> USE DEF NewCall, Finish, tokenVars, flightVars, callerVars, sharedVars
<1>0. /\ TypeOK /\ Counted /\ JoinedInUse
      /\ FlightsInOrder /\ TokensInOrder /\ CancelIsolation
  BY DEF IInv
<1>1. TypeOK'
  <2>1. signal' \in [Callers -> BOOLEAN] BY <1>0 DEF TypeOK
  <2>2. /\ at' \in [Callers -> {"idle", "waiting", "token", "failed", "cancelled"}]
        /\ held' \in [Callers -> 0..tokenGeneration']
    BY <1>0 DEF TypeOK
  <2> QED BY <1>0, <2>1, <2>2 DEF TypeOK
<1>2. Counted' BY <1>0, NobodyMoves DEF TypeOK
<1>3. JoinedInUse' BY <1>0 DEF TypeOK, JoinedInUse
<1>4. FlightsInOrder' BY <1>0 DEF TypeOK, FlightsInOrder, Alive
<1>5. TokensInOrder' BY <1>0 DEF TypeOK, TokensInOrder, Wanted
<1>6. CancelIsolation' BY <1>0 DEF TypeOK, CancelIsolation
<1>7. QED BY <1>1, <1>2, <1>3, <1>4, <1>5, <1>6 DEF IInv

LEMMA RejectedStep ==
  ASSUME IInv, NEW c \in Callers, Rejected(c), UNCHANGED signal
  PROVE  IInv'
<1> USE DEF Rejected, IsCurrent, tokenVars, flightVars, callerVars, sharedVars
<1>0. /\ TypeOK /\ Counted /\ JoinedInUse
      /\ FlightsInOrder /\ TokensInOrder /\ CancelIsolation
  BY DEF IInv
<1>1. TypeOK'
  <2>1. held[c] \in 1..tokenGeneration BY <1>0 DEF TypeOK, TokensInOrder
  <2>2. spent' \subseteq 1..tokenGeneration BY <1>0, <2>1 DEF TypeOK
  <2>3. accessToken' \in 0..tokenGeneration /\ tokenLeft' \in Nat BY <1>0 DEF TypeOK
  <2>4. QED BY <1>0, <2>2, <2>3 DEF TypeOK
<1>2. Counted' BY <1>0, NobodyMoves DEF TypeOK
<1>3. JoinedInUse' BY <1>0 DEF TypeOK, JoinedInUse
<1>4. FlightsInOrder' BY <1>0 DEF TypeOK, FlightsInOrder, Alive
<1>5. TokensInOrder' BY <1>0 DEF TypeOK, TokensInOrder, Wanted
<1>6. CancelIsolation' BY <1>0 DEF TypeOK, CancelIsolation
<1>7. QED BY <1>1, <1>2, <1>3, <1>4, <1>5, <1>6 DEF IInv

LEMMA CancelStep ==
  ASSUME IInv, NEW c \in Callers, Cancel(c)
  PROVE  IInv'
<1> USE DEF Cancel, stateVars, tokenVars, flightVars, callerVars, sharedVars
<1>0. /\ TypeOK /\ Counted /\ JoinedInUse
      /\ FlightsInOrder /\ TokensInOrder /\ CancelIsolation
  BY DEF IInv
<1>1. TypeOK' BY <1>0 DEF TypeOK
<1>2. Counted' BY <1>0, NobodyMoves DEF TypeOK
<1>3. JoinedInUse' BY <1>0 DEF TypeOK, JoinedInUse
<1>4. FlightsInOrder' BY <1>0 DEF TypeOK, FlightsInOrder, Alive
<1>5. TokensInOrder' BY <1>0 DEF TypeOK, TokensInOrder, Wanted
<1>6. CancelIsolation' BY <1>0 DEF TypeOK, CancelIsolation
<1>7. QED BY <1>1, <1>2, <1>3, <1>4, <1>5, <1>6 DEF IInv

\* A cached token that runs into the buffer is spent by the same tick.
LEMMA ElapseStep ==
  ASSUME IInv, Elapse, UNCHANGED signal
  PROVE  IInv'
<1> USE DEF Elapse, Less1, tokenVars, flightVars, callerVars, sharedVars
<1>0. /\ TypeOK /\ Counted /\ JoinedInUse
      /\ FlightsInOrder /\ TokensInOrder /\ CancelIsolation
  BY DEF IInv
<1>1. TypeOK' BY <1>0 DEF TypeOK
<1>2. Counted' BY <1>0, NobodyMoves DEF TypeOK
<1>3. JoinedInUse' BY <1>0 DEF TypeOK, JoinedInUse
<1>4. FlightsInOrder' BY <1>0 DEF TypeOK, FlightsInOrder, Alive
<1>5. TokensInOrder' BY <1>0 DEF TypeOK, TokensInOrder, Wanted
<1>6. CancelIsolation' BY <1>0 DEF TypeOK, CancelIsolation
<1>7. QED BY <1>1, <1>2, <1>3, <1>4, <1>5, <1>6 DEF IInv

-----------------------------------------------------------------------------
(* The theorems.                                                            *)

LEMMA NextIInv == IInv /\ [Next]_vars => IInv'
<1> SUFFICES ASSUME IInv, [Next]_vars PROVE IInv' OBVIOUS
<1>1. ASSUME NEW c \in Callers, CallerStep(c) \/ ReturnStep(c) \/ Rejected(c),
             UNCHANGED signal
      PROVE  IInv'
  BY <1>1, RefuseCancelledStep, UseCachedStep, JoinFlightStep, StartFlightStep,
     GetTokenStep, GetFailureStep, GiveUpStep, RejectedStep
     DEF CallerStep, ReturnStep
<1>2. ASSUME NEW c \in Callers, Cancel(c) \/ NewCall(c)
      PROVE  IInv'
  BY <1>2, CancelStep, FinishStep
<1>3. ASSUME NEW f \in Flights, FlightStep(f) \/ Reply(f), UNCHANGED signal
      PROVE  IInv'
  BY <1>3, WakeStep, AbortFetchStep, SettleStep, InstallStep, FetchErrorStep,
     RateLimitedStep
     DEF FlightStep, Reply
<1>4. ASSUME Elapse, UNCHANGED signal
      PROVE  IInv'
  BY <1>4, ElapseStep
<1>5. CASE UNCHANGED vars
  BY <1>5 DEF vars, stateVars, tokenVars, flightVars, callerVars, sharedVars, IInv,
     TypeOK, Counted, WaitingFor, JoinedInUse, FlightsInOrder, Alive, TokensInOrder,
     Wanted, CancelIsolation
<1>6. QED BY <1>1, <1>2, <1>3, <1>4, <1>5 DEF Next

\* The inductive invariant holds throughout.
THEOREM TokenInvariant == Spec => []IInv
BY InitIInv, NextIInv, PTL DEF Spec

\* Every variable keeps its type; so a flight's count never goes below zero, and
\* nothing but a token that was installed is ever held, cached or spent.
THEOREM TokenTypes == Spec => []TypeOK
<1>1. IInv => TypeOK BY DEF IInv
<1>2. QED BY <1>1, TokenInvariant, PTL

\* The count in the flight object is the number of callers that wait for it, and
\* each of them waits for a flight in use (getAccessToken's finally block).
THEOREM FlightsCountTheirWaiters == Spec => []WaitersCounted
<1>1. IInv => WaitersCounted
  BY DEF IInv, Counted, JoinedInUse, WaitersCounted
<1>2. QED BY <1>1, TokenInvariant, PTL

\* A fetch in progress is aborted exactly when nobody waits for it, and only the
\* one that new callers join is not: however callers come, leave and replace
\* aborted flights, at most one fetch is wanted.
THEOREM FetchesAreWanted == Spec => []FetchWanted
<1>1. IInv => FetchWanted
  BY DEF IInv, FlightsInOrder, Alive, Fetching, FetchWanted
<1>2. QED BY <1>1, TokenInvariant, PTL

\* A caller is told "cancelled" only when its own signal was aborted.
THEOREM CancellationsStayApart == Spec => []CancelIsolation
<1>1. IInv => CancelIsolation BY DEF IInv
<1>2. QED BY <1>1, TokenInvariant, PTL

\* A token is replaced only when it was rejected or ran into the buffer.
THEOREM RefreshesAreJustified == Spec => []RefreshJustified
<1>1. IInv => RefreshJustified
  BY DEF IInv, TypeOK, TokensInOrder, RefreshJustified
<1>2. QED BY <1>1, TokenInvariant, PTL

\* Only a fetch that somebody waits for installs a token: one that was aborted
\* while its answer was on the way leaves the cached token alone.
THEOREM InstallsAreWaitedFor == Spec => InstalledForWaiter
<1> DEFINE A == tokenGeneration' # tokenGeneration =>
                  \E c \in Callers : at[c] = "waiting" /\ joined[c] = tokenFlight
                                     /\ phase'[tokenFlight] = "installed"
<1>1. ASSUME IInv, [Next]_vars
      PROVE  A \/ UNCHANGED vars
  <2>1. CASE \E f \in Flights, life \in Lifetimes : Install(f, life)
    <3>1. PICK f \in Flights, life \in Lifetimes : Install(f, life) BY <2>1
    <3>2. tokenFlight = f /\ waiters[f] # 0 /\ phase'[f] = "installed"
      BY <1>1, <3>1
         DEF IInv, TypeOK, FlightsInOrder, Alive, Fetching, Install, StillWanted,
             EndFetch
    <3>3. \E c \in Callers : at[c] = "waiting" /\ joined[c] = f
      BY <1>1, <3>2, SomebodyWaits DEF IInv
    <3>4. QED BY <3>2, <3>3
  <2>2. CASE ~\E f \in Flights, life \in Lifetimes : Install(f, life)
    <3>1. UNCHANGED tokenGeneration
      BY <1>1, <2>2 DEF Next, CallerStep, RefuseCancelled, UseCached, JoinFlight,
         StartFlight, ReturnStep, GetToken, GetFailure, GiveUp, Rejected, Cancel,
         NewCall, Finish, FlightStep, Wake, AbortFetch, Settle, Reply, FetchError,
         RateLimited, Elapse, vars, stateVars, tokenVars
    <3>2. QED BY <3>1
  <2>3. QED BY <2>1, <2>2
<1>2. QED BY <1>1, TokenInvariant, PTL DEF Spec, InstalledForWaiter
=============================================================================
