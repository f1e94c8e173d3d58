----------------------------- MODULE AccessToken -----------------------------
(***************************************************************************)
(* How the client obtains its OAuth token (getAccessToken and              *)
(* fetchAccessToken of src/client.ts).  Concurrent callers share one fetch, *)
(* a flight.  Each may be cancelled on its own; a flight nobody waits for   *)
(* is aborted, and a caller that comes later starts another one while the  *)
(* aborted one is still unwinding.                                          *)
(*                                                                         *)
(* A token is its generation: value and generation are created together.   *)
(* Times are kept as what is left of them, so time needs no bound: Tick     *)
(* lowers every timer, and a timer fires at zero or later.                  *)
(***************************************************************************)
EXTENDS Integers, FiniteSets

CONSTANTS Callers,        \* requests in need of a token
          Flights,        \* fetches not yet unwound at one time (a bound)
          NoFlight,
          Lifetimes,      \* expires_in values of the auth endpoint
          ExpiryBuffer,   \* TOKEN_EXPIRY_BUFFER_MS
          RetryAfters,    \* Retry-After values of the auth endpoint
          MaxRetryDelay,  \* maxRetryDelayMs
          MaxGeneration   \* bound on the tokens of a behaviour

ASSUME FlightsAssumption == NoFlight \notin Flights
ASSUME TimesAssumption ==
  /\ Lifetimes \subseteq Nat \ {0}
  /\ RetryAfters \subseteq Nat
  /\ ExpiryBuffer \in Nat
  /\ MaxRetryDelay \in Nat \ {0}
  /\ MaxGeneration \in Nat

VARIABLES
  accessToken,      \* generation of the cached token, NoToken without one
  tokenLeft,        \* time to tokenExpiration
  tokenGeneration,  \* tokens installed so far
  authCooldown,     \* time to authCooldownUntil
  tokenFlight,      \* the flight new callers join, or NoFlight
  phase,            \* where the fetch of a flight stands
  attempt,          \* 0, or 1 after one 429
  nap,              \* time left of the flight's sleep
  aborted,          \* the flight's controller has been aborted
  settled,          \* the flight's promise has been settled
  waiters,          \* the flight's count of waiting callers
  issued,           \* the generation the flight installed
  at,               \* where a caller's getAccessToken stands
  joined,           \* the flight a caller waits for
  held,             \* the generation a caller was given
  signal,           \* a caller's cancellation signal is aborted
  spent             \* generations rejected by a 401 or run into the buffer

tokenVars  == <<accessToken, tokenLeft, tokenGeneration, spent>>
flightVars == <<phase, attempt, nap, aborted, settled, waiters, issued>>
callerVars == <<at, joined, held>>
sharedVars == <<authCooldown, tokenFlight>>
stateVars  == <<tokenVars, flightVars, callerVars, sharedVars>>
vars       == <<stateVars, signal>>

NoToken == 0
Larger(a, b) == IF a >= b THEN a ELSE b
Less1(n) == IF n > 0 THEN n - 1 ELSE 0

\* A phase in which the fetch has yet to end, and one in which it has.
Fetching == {"sleep", "post"}
Ended    == {"installed", "failed", "cancelled"}

Init ==
  /\ accessToken = NoToken /\ tokenLeft = 0 /\ tokenGeneration = 0 /\ spent = {}
  /\ authCooldown = 0 /\ tokenFlight = NoFlight
  /\ phase = [f \in Flights |-> "idle"]
  /\ attempt = [f \in Flights |-> 0]
  /\ nap = [f \in Flights |-> 0]
  /\ aborted = [f \in Flights |-> FALSE]
  /\ settled = [f \in Flights |-> FALSE]
  /\ waiters = [f \in Flights |-> 0]
  /\ issued = [f \in Flights |-> NoToken]
  /\ at = [c \in Callers |-> "idle"]
  /\ joined = [c \in Callers |-> NoFlight]
  /\ held = [c \in Callers |-> NoToken]
  /\ signal = [c \in Callers |-> FALSE]

-----------------------------------------------------------------------------
(* getAccessToken, up to its await.                                         *)

HasUsableToken == accessToken # NoToken /\ tokenLeft > ExpiryBuffer

\* An aborted flight keeps tokenFlight until it settles, and is not joined.
JoinsAborted == tokenFlight # NoFlight
Joinable == tokenFlight # NoFlight /\ ~aborted[tokenFlight]

RefuseCancelled(c) ==
  /\ at[c] = "idle" /\ signal[c]
  /\ at' = [at EXCEPT ![c] = "cancelled"]
  /\ UNCHANGED <<tokenVars, flightVars, sharedVars, joined, held>>

UseCached(c) ==
  /\ at[c] = "idle" /\ ~signal[c] /\ HasUsableToken
  /\ at' = [at EXCEPT ![c] = "token"]
  /\ held' = [held EXCEPT ![c] = accessToken]
  /\ UNCHANGED <<tokenVars, flightVars, sharedVars, joined>>

JoinFlight(c) ==
  /\ at[c] = "idle" /\ ~signal[c] /\ ~HasUsableToken /\ Joinable
  /\ waiters' = [waiters EXCEPT ![tokenFlight] = @ + 1]
  /\ at' = [at EXCEPT ![c] = "waiting"]
  /\ joined' = [joined EXCEPT ![c] = tokenFlight]
  /\ UNCHANGED <<tokenVars, sharedVars, phase, attempt, nap, aborted, settled,
                 issued, held>>

\* waitForCooldown("auth"): go on, sleep out what is left, or give up when
\* that is longer than the wait budget.
AfterAnyCooldown(left) == IF left = 0 THEN "post" ELSE "sleep"
AfterCooldownCheck(left) ==
  IF left = 0 THEN "post" ELSE IF left > MaxRetryDelay THEN "failed" ELSE "sleep"
NapFor(left) == IF AfterCooldownCheck(left) = "sleep" THEN left ELSE 0

\* The new fetch runs to its first await within the caller's turn.
StartFlight(c, f) ==
  /\ at[c] = "idle" /\ ~signal[c] /\ ~HasUsableToken /\ ~Joinable
  /\ phase[f] = "idle"
  /\ phase' = [phase EXCEPT ![f] = AfterCooldownCheck(authCooldown)]
  /\ nap' = [nap EXCEPT ![f] = NapFor(authCooldown)]
  /\ attempt' = [attempt EXCEPT ![f] = 0]
  /\ aborted' = [aborted EXCEPT ![f] = FALSE]
  /\ settled' = [settled EXCEPT ![f] = FALSE]
  /\ waiters' = [waiters EXCEPT ![f] = 1]
  /\ issued' = [issued EXCEPT ![f] = NoToken]
  /\ tokenFlight' = f
  /\ at' = [at EXCEPT ![c] = "waiting"]
  /\ joined' = [joined EXCEPT ![c] = f]
  /\ UNCHANGED <<tokenVars, authCooldown, held>>

-----------------------------------------------------------------------------
(* fetchAccessToken: the flight's own steps.                                *)

WakeAndSleepAgain(f) ==
  /\ phase[f] = "sleep" /\ nap[f] = 0 /\ ~aborted[f]
  /\ nap' = [nap EXCEPT ![f] = MaxRetryDelay]
  /\ UNCHANGED <<tokenVars, sharedVars, callerVars, phase, attempt, aborted,
                 settled, waiters, issued>>

\* The sleep is over; the cooldown is read again before the request goes out.
Wake(f) ==
  /\ phase[f] = "sleep" /\ nap[f] = 0 /\ ~aborted[f]
  /\ phase' = [phase EXCEPT ![f] = AfterCooldownCheck(authCooldown)]
  /\ nap' = [nap EXCEPT ![f] = NapFor(authCooldown)]
  /\ UNCHANGED <<tokenVars, sharedVars, callerVars, attempt, aborted, settled,
                 waiters, issued>>

EndFetch(f, how) ==
  /\ phase' = [phase EXCEPT ![f] = how]
  /\ nap' = [nap EXCEPT ![f] = 0]
  /\ attempt' = [attempt EXCEPT ![f] = 0]

\* The aborted controller rejects the sleep or the request, or the check that
\* follows the response throws.
AbortFetch(f) ==
  /\ phase[f] \in Fetching /\ aborted[f]
  /\ EndFetch(f, "cancelled")
  /\ UNCHANGED <<tokenVars, sharedVars, callerVars, aborted, settled, waiters,
                 issued>>

\* The response carries a token, and the check after it finds that somebody
\* still wants it.
StillWantedUnchecked(f) == TRUE
StillWanted(f) == ~aborted[f]

Install(f, life) ==
  /\ phase[f] = "post" /\ StillWanted(f)
  /\ tokenGeneration < MaxGeneration
  /\ tokenGeneration' = tokenGeneration + 1
  /\ accessToken' = tokenGeneration + 1
  /\ tokenLeft' = life
  /\ spent' = IF life > ExpiryBuffer THEN spent ELSE spent \cup {tokenGeneration + 1}
  /\ issued' = [issued EXCEPT ![f] = tokenGeneration + 1]
  /\ EndFetch(f, "installed")
  /\ UNCHANGED <<sharedVars, callerVars, aborted, settled, waiters>>

\* No usable token in the response, a refusal, a timeout, a lost connection.
FetchError(f) ==
  /\ phase[f] = "post"
  /\ EndFetch(f, "failed")
  /\ UNCHANGED <<tokenVars, sharedVars, callerVars, aborted, settled, waiters,
                 issued>>

\* 429: the delay is recorded for everyone; one retry, when it is affordable.
RateLimited(f, delay) ==
  LET left == Larger(authCooldown, delay)
      retry == attempt[f] = 0 /\ delay <= MaxRetryDelay
  IN
  /\ phase[f] = "post"
  /\ authCooldown' = left
  /\ IF retry /\ ~aborted[f] /\ AfterCooldownCheck(left) # "failed"
     THEN /\ phase' = [phase EXCEPT ![f] = AfterCooldownCheck(left)]
          /\ nap' = [nap EXCEPT ![f] = NapFor(left)]
          /\ attempt' = [attempt EXCEPT ![f] = 1]
     ELSE EndFetch(f, IF retry /\ aborted[f] THEN "cancelled" ELSE "failed")
  /\ UNCHANGED <<tokenVars, tokenFlight, callerVars, aborted, settled, waiters,
                 issued>>

\* The finally callback of the flight's promise.  A flight that was replaced
\* leaves its successor in place.
ForgetAny(f) == NoFlight
Forget(f) == IF tokenFlight = f THEN NoFlight ELSE tokenFlight

Settle(f) ==
  /\ phase[f] \in Ended /\ ~settled[f]
  /\ settled' = [settled EXCEPT ![f] = TRUE]
  /\ tokenFlight' = Forget(f)
  /\ phase' = [phase EXCEPT ![f] = IF waiters[f] = 0 THEN "idle" ELSE @]
  /\ UNCHANGED <<tokenVars, authCooldown, callerVars, attempt, nap, aborted,
                 waiters, issued>>

-----------------------------------------------------------------------------
(* getAccessToken, after its await.                                         *)

\* The finally block: the last waiter to leave aborts a flight not settled.
LeaveUncounted(f) == UNCHANGED <<waiters, aborted, phase>>
LeaveFlight(f) ==
  /\ waiters' = [waiters EXCEPT ![f] = @ - 1]
  /\ aborted' = [aborted EXCEPT ![f] = @ \/ (waiters[f] = 1 /\ ~settled[f])]
  /\ phase' = [phase EXCEPT ![f] = IF settled[f] /\ waiters[f] = 1 THEN "idle" ELSE @]

GetToken(c) ==
  LET f == joined[c] IN
  /\ at[c] = "waiting" /\ settled[f] /\ phase[f] = "installed"
  /\ at' = [at EXCEPT ![c] = "token"]
  /\ held' = [held EXCEPT ![c] = issued[f]]
  /\ joined' = [joined EXCEPT ![c] = NoFlight]
  /\ LeaveFlight(f)
  /\ UNCHANGED <<tokenVars, sharedVars, attempt, nap, settled, issued>>

GetFailure(c) ==
  LET f == joined[c] IN
  /\ at[c] = "waiting" /\ settled[f] /\ phase[f] \in {"failed", "cancelled"}
  /\ at' = [at EXCEPT ![c] = phase[f]]
  /\ joined' = [joined EXCEPT ![c] = NoFlight]
  /\ LeaveFlight(f)
  /\ UNCHANGED <<tokenVars, sharedVars, held, attempt, nap, settled, issued>>

\* awaitWithSignal rejects for this caller alone.
GiveUp(c) ==
  LET f == joined[c] IN
  /\ at[c] = "waiting" /\ signal[c]
  /\ at' = [at EXCEPT ![c] = "cancelled"]
  /\ joined' = [joined EXCEPT ![c] = NoFlight]
  /\ LeaveFlight(f)
  /\ UNCHANGED <<tokenVars, sharedVars, held, attempt, nap, settled, issued>>

\* The caller is done with its token, or with the failure.
Finish(c) ==
  /\ at[c] \in {"token", "failed", "cancelled"}
  /\ at' = [at EXCEPT ![c] = "idle"]
  /\ held' = [held EXCEPT ![c] = NoToken]
  /\ UNCHANGED <<tokenVars, flightVars, sharedVars, joined>>

\* The caller's token drew a 401.  It is dropped unless a newer one replaced it.
IsCurrentAlways(c) == TRUE
IsCurrent(c) == accessToken = held[c]
Rejected(c) ==
  /\ at[c] = "token"
  /\ spent' = spent \cup {held[c]}
  /\ accessToken' = IF IsCurrent(c) THEN NoToken ELSE accessToken
  /\ tokenLeft' = IF IsCurrent(c) THEN 0 ELSE tokenLeft
  /\ at' = [at EXCEPT ![c] = "idle"]
  /\ held' = [held EXCEPT ![c] = NoToken]
  /\ UNCHANGED <<tokenGeneration, flightVars, sharedVars, joined>>

-----------------------------------------------------------------------------
(* Time and cancellation.                                                   *)

Elapse ==
  /\ tokenLeft' = Less1(tokenLeft)
  /\ spent' = IF accessToken # NoToken /\ Less1(tokenLeft) <= ExpiryBuffer
              THEN spent \cup {accessToken} ELSE spent
  /\ authCooldown' = Less1(authCooldown)
  /\ nap' = [f \in Flights |-> Less1(nap[f])]
  /\ UNCHANGED <<accessToken, tokenGeneration, tokenFlight, phase, attempt,
                 aborted, settled, waiters, issued, callerVars>>

CallerStep(c) ==
  \/ RefuseCancelled(c) \/ UseCached(c) \/ JoinFlight(c)
  \/ \E f \in Flights : StartFlight(c, f)

ReturnStep(c) == GetToken(c) \/ GetFailure(c) \/ GiveUp(c)

Reply(f) ==
  \/ \E life \in Lifetimes : Install(f, life)
  \/ FetchError(f)
  \/ \E delay \in RetryAfters : RateLimited(f, delay)

FlightStep(f) == Wake(f) \/ AbortFetch(f) \/ Settle(f)

-----------------------------------------------------------------------------
(* The component on its own: callers come and go, each call with a signal  *)
(* of its own.                                                             *)

Cancel(c) ==
  /\ ~signal[c]
  /\ signal' = [signal EXCEPT ![c] = TRUE]
  /\ UNCHANGED stateVars

\* The retry of a request asks again under the same signal; a new request has
\* its own.
NewCall(c) ==
  /\ Finish(c)
  /\ UNCHANGED signal \/ signal' = [signal EXCEPT ![c] = FALSE]

Next ==
  \/ \E c \in Callers : \/ (CallerStep(c) \/ ReturnStep(c) \/ Rejected(c)) /\ UNCHANGED signal
                        \/ Cancel(c)
                        \/ NewCall(c)
  \/ \E f \in Flights : (FlightStep(f) \/ Reply(f)) /\ UNCHANGED signal
  \/ Elapse /\ UNCHANGED signal

Spec == Init /\ [][Next]_vars

-----------------------------------------------------------------------------
WaitingFor(f) == {c \in Callers : at[c] = "waiting" /\ joined[c] = f}

TypeOK ==
  /\ tokenGeneration \in 0..MaxGeneration
  /\ accessToken \in 0..tokenGeneration
  /\ tokenLeft \in Nat /\ authCooldown \in Nat
  /\ spent \subseteq 1..tokenGeneration
  /\ tokenFlight \in Flights \cup {NoFlight}
  /\ phase \in [Flights -> {"idle"} \cup Fetching \cup Ended]
  /\ attempt \in [Flights -> 0..1]
  /\ nap \in [Flights -> 0..MaxRetryDelay]
  /\ aborted \in [Flights -> BOOLEAN] /\ settled \in [Flights -> BOOLEAN]
  /\ waiters \in [Flights -> Nat]
  /\ issued \in [Flights -> 0..tokenGeneration]
  /\ at \in [Callers -> {"idle", "waiting", "token", "failed", "cancelled"}]
  /\ joined \in [Callers -> Flights \cup {NoFlight}]
  /\ held \in [Callers -> 0..tokenGeneration]
  /\ signal \in [Callers -> BOOLEAN]

(* A flight's count is the number of callers really waiting for it, and a  *)
(* waiting caller waits for a flight that exists: no caller is forgotten.  *)
WaitersCounted ==
  /\ \A f \in Flights : waiters[f] = Cardinality(WaitingFor(f))
  /\ \A c \in Callers : at[c] = "waiting" => phase[joined[c]] # "idle"

(* A fetch in progress is wanted exactly while it is not aborted, and only *)
(* the flight that new callers join can be wanted: at most one request for *)
(* a token is alive, and none runs for nobody.                             *)
FetchWanted ==
  \A f \in Flights : phase[f] \in Fetching =>
    /\ aborted[f] <=> waiters[f] = 0
    /\ ~aborted[f] => tokenFlight = f

(* One caller's cancellation is its own: a caller sees "cancelled" only    *)
(* when its signal was aborted, however others joined, left and replaced   *)
(* the flight around it.                                                   *)
CancelIsolation == \A c \in Callers : at[c] = "cancelled" => signal[c]

(* A token is replaced only when it is spent, that is rejected by a 401 or *)
(* inside the expiry buffer: a delayed 401 for an older token causes no    *)
(* further refresh.                                                        *)
RefreshJustified == \A g \in 1..(tokenGeneration - 1) : g \in spent

(* Only a fetch somebody waits for installs a token: one that was aborted  *)
(* while its answer was on the way leaves the cached token alone.          *)
InstalledForWaiter ==
  [][tokenGeneration' # tokenGeneration =>
       \E c \in Callers : at[c] = "waiting" /\ joined[c] = tokenFlight
                          /\ phase'[tokenFlight] = "installed"]_vars
=============================================================================
