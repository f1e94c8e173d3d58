---------------------------- MODULE ReportExecutor ----------------------------
(***************************************************************************)
(* executeReport of src/domains/intelligence/report-executor.ts for one     *)
(* report of one API client.  Calls queue by chaining promises: each call   *)
(* waits for the promise of the call before it and resolves its own when   *)
(* it is done.  A call that is cancelled while it waits passes its          *)
(* predecessor's completion on.  The call whose turn it is fetches page     *)
(* after page, a cooldown apart, and caches a complete result.              *)
(*                                                                         *)
(* Times are what is left of them, as in AccessToken.  A page is its number *)
(* of rows, whether more follow and, on the first page, the announced       *)
(* total; rows and columns themselves do not matter to the properties.      *)
(***************************************************************************)
EXTENDS Integers, FiniteSets, SequencesExt

CONSTANTS Callers,      \* calls of executeReport for this report
          NoCaller,     \* the promise the chain starts with
          Keys,         \* request keys: parameters and limits of a call
          MayAsk,       \* the keys a call may ask for (to keep instances small)
          Cooldown,     \* cooldownMs
          MaxPages, MaxRows,
          CacheSize,    \* entries kept per report
          PageRows,     \* rows a page may hold
          Totals,       \* totalCount values the API may announce
          Unannounced   \* no totalCount

ASSUME CallersAssumption == NoCaller \notin Callers
ASSUME LimitsAssumption ==
  /\ Cooldown \in Nat /\ MaxPages \in Nat \ {0} /\ MaxRows \in Nat
  /\ CacheSize \in Nat \ {0} /\ MayAsk \in [Callers -> SUBSET Keys] /\ Keys # {}
  /\ PageRows \subseteq Nat /\ Totals \subseteq Nat /\ Unannounced \notin Nat

VARIABLES
  tail,       \* the call whose promise the next call will wait for
  cache,      \* [key, left, value] in insertion order
  spacing,    \* time to lastStartedAt + cooldownMs
  pc,         \* where a call stands
  key,        \* its request key
  signal,     \* its cancellation signal is aborted
  pred,       \* the call it waits for
  released,   \* its promise is resolved
  forwards,   \* cancelled while waiting: resolves its promise after pred's
  nap,        \* time left of its sleep
  page, rows, announced,   \* its progress
  told,       \* what it returned
  source,     \* recorded: what the API answered to its requests for pages
  line,       \* calls waiting or working, in the order they were made
  sinceSend   \* time until Cooldown has passed since the last send

chainVars == <<tail, pred, released, forwards, line>>
workVars  == <<page, rows, announced>>
vars == <<chainVars, workVars, cache, spacing, pc, key, signal, nap, told, source,
          sinceSend>>

Less1(n) == IF n > 0 THEN n - 1 ELSE 0
\* by names the call that fetched a result; the code does not keep it.
Nothing == [kind |-> "none", rows |-> 0, announced |-> Unannounced, by |-> NoCaller]
Failure(kind) == [Nothing EXCEPT !.kind = kind]
Result(c, n, total) == [kind |-> "ok", rows |-> n, announced |-> total, by |-> c]

\* The answers to one run: the rows sent in all pages together, whether the last
\* page announced more, whether an empty page did, and the total of page one.
NoAnswers == [rows |-> 0, more |-> TRUE, hole |-> FALSE, total |-> Unannounced]
Answered(s, n, more, first, total) ==
  [rows |-> s.rows + n, more |-> more, hole |-> s.hole \/ (more /\ n = 0),
   total |-> IF first THEN total ELSE s.total]

Init ==
  /\ tail = NoCaller /\ cache = <<>> /\ spacing = 0 /\ sinceSend = 0 /\ line = <<>>
  /\ pc = [c \in Callers |-> "idle"]
  /\ key = [c \in Callers |-> CHOOSE k \in Keys : TRUE]
  /\ signal = [c \in Callers |-> FALSE]
  /\ pred = [c \in Callers |-> NoCaller]
  /\ released = [c \in Callers |-> FALSE]
  /\ forwards = [c \in Callers |-> FALSE]
  /\ nap = [c \in Callers |-> 0]
  /\ page = [c \in Callers |-> 0]
  /\ rows = [c \in Callers |-> 0]
  /\ announced = [c \in Callers |-> Unannounced]
  /\ told = [c \in Callers |-> Nothing]
  /\ source = [c \in Callers |-> NoAnswers]

Resolved(c) == c # NoCaller => released[c]
Fresh(k) == \E i \in 1..Len(cache) : cache[i].key = k /\ cache[i].left > 0
Cached(k) == LET i == CHOOSE i \in 1..Len(cache) : cache[i].key = k IN cache[i].value

Go(c, place) == pc' = [pc EXCEPT ![c] = place]
Tell(c, result) == told' = [told EXCEPT ![c] = result]
StepOut(c) == line' = RemoveFirst(line, c)

\* The finally block of a call whose turn it was; s is what stands behind it.
Finish(c, result, s) ==
  /\ source' = [source EXCEPT ![c] = s]
  /\ Go(c, "done") /\ Tell(c, result)
  /\ released' = [released EXCEPT ![c] = TRUE]
  /\ StepOut(c)
  /\ nap' = [nap EXCEPT ![c] = 0]
  /\ page' = [page EXCEPT ![c] = 0]
  /\ rows' = [rows EXCEPT ![c] = 0]
  /\ announced' = [announced EXCEPT ![c] = Unannounced]

-----------------------------------------------------------------------------
(* Waiting for the turn.                                                    *)

ReturnCached(c, k) ==
  /\ pc[c] = "idle" /\ Fresh(k)
  /\ Go(c, "done") /\ Tell(c, Cached(k))
  /\ key' = [key EXCEPT ![c] = k]
  /\ UNCHANGED <<chainVars, workVars, cache, spacing, signal, nap, source, sinceSend>>

Queue(c, k) ==
  /\ pc[c] = "idle" /\ ~Fresh(k)
  /\ key' = [key EXCEPT ![c] = k]
  /\ pred' = [pred EXCEPT ![c] = tail]
  /\ tail' = c
  /\ line' = Append(line, c)
  /\ Go(c, "waiting")
  /\ UNCHANGED <<workVars, cache, spacing, signal, released, forwards, nap, told,
                 source, sinceSend>>

\* A cancelled call that leaves the chain broken behind it.
AbandonWaitSilently(c) ==
  /\ pc[c] = "waiting" /\ signal[c]
  /\ Go(c, "done") /\ Tell(c, Failure("cancelled"))
  /\ StepOut(c)
  /\ UNCHANGED <<workVars, cache, spacing, key, signal, tail, pred, released,
                 forwards, nap, source, sinceSend>>
\* The wait ends with the call's own cancellation.  Its promise must not
\* resolve before its predecessor's, which may still be working.
AbandonWaitAtOnce(c) ==
  /\ pc[c] = "waiting" /\ signal[c]
  /\ Go(c, "done") /\ Tell(c, Failure("cancelled"))
  /\ released' = [released EXCEPT ![c] = TRUE]
  /\ StepOut(c)
  /\ UNCHANGED <<workVars, cache, spacing, key, signal, tail, pred, forwards, nap,
                 source, sinceSend>>
AbandonWait(c) ==
  /\ pc[c] = "waiting" /\ signal[c]
  /\ Go(c, "done") /\ Tell(c, Failure("cancelled"))
  /\ forwards' = [forwards EXCEPT ![c] = TRUE]
  /\ StepOut(c)
  /\ UNCHANGED <<workVars, cache, spacing, key, signal, tail, pred, released, nap,
                 source, sinceSend>>

\* predecessor.then(release, release)
Forward(c) ==
  /\ forwards[c] /\ Resolved(pred[c])
  /\ forwards' = [forwards EXCEPT ![c] = FALSE]
  /\ released' = [released EXCEPT ![c] = TRUE]
  /\ UNCHANGED <<workVars, cache, spacing, pc, key, signal, tail, pred, line, nap,
                 told, source, sinceSend>>

-----------------------------------------------------------------------------
(* The turn: one page after the other.                                      *)

WaitBeforeReport(c) == IF page[c] = 0 THEN spacing ELSE 0
WaitBeforePage(c) == spacing

\* The head of the page loop: wait out the cooldown, or stamp and post.  The
\* sleep is computed once and not checked again when it is over.
NextPage(c, n, total, s) ==
  \/ signal[c] /\ Finish(c, Failure("cancelled"), NoAnswers) /\ UNCHANGED spacing
  \/ /\ ~signal[c]
     /\ page' = [page EXCEPT ![c] = @ + 1]
     /\ rows' = [rows EXCEPT ![c] = n]
     /\ announced' = [announced EXCEPT ![c] = total]
     /\ source' = [source EXCEPT ![c] = s]
     /\ IF WaitBeforePage(c) > 0
        THEN /\ nap' = [nap EXCEPT ![c] = WaitBeforePage(c)] /\ Go(c, "sleep")
             /\ UNCHANGED spacing
        ELSE /\ spacing' = Cooldown /\ Go(c, "posting")
             /\ UNCHANGED nap
     /\ UNCHANGED <<released, line, told>>

\* The predecessor is done.  Its result may answer this call.
FreshForgotten(c) == FALSE
FreshAfterWait(c) == Fresh(key[c])

TakeTurn(c) ==
  /\ pc[c] = "waiting" /\ Resolved(pred[c])
  /\ \/ /\ FreshAfterWait(c)
        /\ Finish(c, Cached(key[c]), NoAnswers) /\ UNCHANGED spacing
     \/ /\ ~FreshAfterWait(c)
        /\ NextPage(c, 0, Unannounced, NoAnswers)
  /\ UNCHANGED <<cache, key, signal, tail, pred, forwards, sinceSend>>

WakeUp(c) ==
  /\ pc[c] = "sleep" /\ nap[c] = 0 /\ ~signal[c]
  /\ spacing' = Cooldown
  /\ Go(c, "posting")
  /\ UNCHANGED <<chainVars, workVars, cache, key, signal, nap, told, source, sinceSend>>

CancelSleep(c) ==
  /\ pc[c] = "sleep" /\ signal[c]
  /\ Finish(c, Failure("cancelled"), NoAnswers)
  /\ UNCHANGED <<cache, spacing, key, signal, tail, pred, forwards, sinceSend>>

\* client.post sends when it has passed the gate, the cooldown and the token.
\* What it sends again after a 401 or 429 belongs to the same start.
Dispatch(c) ==
  /\ pc[c] = "posting"
  /\ Go(c, "sent")
  /\ sinceSend' = Cooldown
  /\ UNCHANGED <<chainVars, workVars, cache, spacing, key, signal, nap, told, source>>

\* client.post throws, its cancellation included, or the page is not one the
\* executor accepts.
BadPage(c) ==
  /\ pc[c] \in {"posting", "sent"}
  /\ Finish(c, Failure("failed"), NoAnswers)
  /\ UNCHANGED <<cache, spacing, key, signal, tail, pred, forwards, sinceSend>>

\* The entries that are not expired.
Live(entries) ==
  LET upTo[n \in 0..Len(entries)] ==
        IF n = 0 THEN <<>>
        ELSE IF entries[n].left > 0 THEN Append(upTo[n - 1], entries[n]) ELSE upTo[n - 1]
  IN  upTo[Len(entries)]

\* Expired entries go, then the oldest until one fits, then the new one.
StoredWithoutLimit(k, value) ==
  Append(Live(cache), [key |-> k, left |-> Cooldown, value |-> value])
Stored(k, value) ==
  LET live == Live(cache)
      kept == IF Len(live) < CacheSize THEN live
              ELSE SubSeq(live, Len(live) - CacheSize + 2, Len(live))
  IN  Append(kept, [key |-> k, left |-> Cooldown, value |-> value])

\* What the loop throws for, and what is looked at when it is over; a form
\* that ends the report at the page limit instead is named beside it.
PageRefused(sum, n, more) == sum > MaxRows \/ (more /\ n = 0)
NoPagesLeft(more) == FALSE
PagesLeft(more) == more
RowsDisagree(sum, total) == total # Unannounced /\ sum # total

\* A page whose shape the executor accepts.  The loop fails, goes on, or is
\* over; then the report fails or is complete, and only then it is cached.
Page(c, n, more, totalHere) ==
  LET sum   == rows[c] + n
      total == IF page[c] = 1 THEN totalHere ELSE announced[c]
      s     == Answered(source[c], n, more, page[c] = 1, totalHere)
      goesOn == more /\ page[c] < MaxPages
      fails  == \/ PageRefused(sum, n, more)
                \/ ~goesOn /\ (PagesLeft(more) \/ RowsDisagree(sum, total))
  IN
  /\ pc[c] = "sent"
  /\ \/ fails /\ Finish(c, Failure("failed"), NoAnswers) /\ UNCHANGED <<cache, spacing>>
     \/ ~fails /\ goesOn /\ NextPage(c, sum, total, s) /\ UNCHANGED cache
     \/ /\ ~fails /\ ~goesOn
        /\ Finish(c, Result(c, sum, total), s)
        /\ cache' = Stored(key[c], Result(c, sum, total))
        /\ UNCHANGED spacing
  /\ UNCHANGED <<key, signal, tail, pred, forwards, sinceSend>>

Reply(c) ==
  \/ BadPage(c)
  \/ \E n \in PageRows, more \in BOOLEAN, total \in Totals \cup {Unannounced} :
       Page(c, n, more, total)

Abort(c) ==
  /\ ~signal[c] /\ pc[c] # "done"
  /\ signal' = [signal EXCEPT ![c] = TRUE]
  /\ UNCHANGED <<chainVars, workVars, cache, spacing, pc, key, nap, told, source,
                 sinceSend>>

Tick ==
  /\ spacing' = Less1(spacing)
  /\ sinceSend' = Less1(sinceSend)
  /\ nap' = [c \in Callers |-> Less1(nap[c])]
  /\ cache' = [i \in 1..Len(cache) |-> [cache[i] EXCEPT !.left = Less1(@)]]
  /\ UNCHANGED <<chainVars, workVars, pc, key, signal, told, source>>

Local(c) ==
  AbandonWait(c) \/ Forward(c) \/ TakeTurn(c) \/ WakeUp(c) \/ CancelSleep(c)

Next ==
  \/ \E c \in Callers :
       \/ \E k \in MayAsk[c] : ReturnCached(c, k) \/ Queue(c, k)
       \/ Local(c) \/ Dispatch(c) \/ Reply(c) \/ Abort(c)
  \/ Tick

\* Continuations run, timers fire, and client.post returns or throws
\* (EveryRequestEnds of ServiceTitanClient).
Fairness ==
  /\ WF_vars(Tick)
  /\ \A c \in Callers : WF_vars(Local(c)) /\ WF_vars(Reply(c))

Spec == Init /\ [][Next]_vars /\ Fairness

-----------------------------------------------------------------------------
Values == [kind : {"none", "ok", "failed", "cancelled"}, rows : 0..MaxRows,
           announced : Totals \cup {Unannounced}, by : Callers \cup {NoCaller}]
Answers == [rows : 0..MaxRows, more : BOOLEAN, hole : BOOLEAN,
            total : Totals \cup {Unannounced}]

TypeOK ==
  /\ tail \in Callers \cup {NoCaller}
  /\ cache \in Seq([key : Keys, left : 0..Cooldown, value : Values])
  /\ Len(cache) <= CacheSize
  /\ spacing \in 0..Cooldown /\ sinceSend \in 0..Cooldown
  /\ pc \in [Callers -> {"idle", "waiting", "sleep", "posting", "sent", "done"}]
  /\ key \in [Callers -> Keys]
  /\ signal \in [Callers -> BOOLEAN]
  /\ pred \in [Callers -> Callers \cup {NoCaller}]
  /\ released \in [Callers -> BOOLEAN] /\ forwards \in [Callers -> BOOLEAN]
  /\ nap \in [Callers -> 0..Cooldown]
  /\ page \in [Callers -> 0..MaxPages]
  /\ rows \in [Callers -> 0..MaxRows]
  /\ announced \in [Callers -> Totals \cup {Unannounced}]
  /\ told \in [Callers -> Values] /\ source \in [Callers -> Answers]
  /\ line \in Seq(Callers)

Working == {"sleep", "posting", "sent"}

(* The chain is a first-come, first-served lock: whoever works is the      *)
(* first of the calls still in line, so two never work on one report at    *)
(* once, however many of those in between were cancelled.                  *)
TurnInOrder == \A c \in Callers : pc[c] \in Working => line # <<>> /\ Head(line) = c

(* Pages are started a cooldown apart, although a sleep is never checked   *)
(* again: nobody else starts one meanwhile.                                *)
StartsSpaced ==
  [][\A c \in Callers : pc[c] # "posting" /\ pc'[c] = "posting" => spacing = 0]_vars

(* No request goes out for what a fresh cache entry answers: calls for the *)
(* same data that wait for each other share one run of the report.         *)
SharedRun == \A c \in Callers : pc[c] \in {"posting", "sent"} => ~Fresh(key[c])

(* A report that is returned or cached, to whichever call and however much *)
(* later, is all the API had for what that call asked: its run asked for   *)
(* the same, read until the API announced no more, passed no empty page    *)
(* on the way, kept every row it was sent, and these are as many as        *)
(* announced.  A report cut off at the page limit or by an empty page is   *)
(* a failure, and failures are not cached.                                 *)
AllOf(v, k) ==
  LET s == source[v.by] IN
  /\ v.kind = "ok" /\ key[v.by] = k
  /\ ~s.more /\ ~s.hole
  /\ v.rows = s.rows /\ v.announced = s.total
  /\ s.total # Unannounced => s.rows = s.total
OnlyWholeReports ==
  /\ \A i \in 1..Len(cache) : AllOf(cache[i].value, cache[i].key)
  /\ \A c \in Callers : told[c].kind = "ok" => AllOf(told[c], key[c])

(* Every call ends.  A call cancelled in line does not break the chain.    *)
EveryCallEnds == \A c \in Callers : pc[c] # "idle" ~> pc[c] = "done"

(* README.md:124 says that report execution is scheduled with a 65-second   *)
(* interval between starts, because of ServiceTitan's limit of one          *)
(* execution of the same report per minute.  The stamp is set before        *)
(* client.post waits for its slot, the cooldown and the token, so two       *)
(* executions can start at the API closer together than the interval.       *)
SendsSpaced ==
  [][\A c \in Callers : pc[c] # "sent" /\ pc'[c] = "sent" => sinceSend = 0]_vars
=============================================================================
