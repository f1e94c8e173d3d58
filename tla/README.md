# A formal model of servicetitan-mcp

`servicetitan-mcp` is a Model Context Protocol server in TypeScript. A host calls
tools; the tools call the ServiceTitan REST API through one HTTP client. This
directory holds TLA+ modules that model the concurrent core of the program, TLC
configurations that check them on small instances, and proofs checked by TLAPS.
Line numbers refer to the repository; paths without a directory are under `src/`.

## The system

A call travels through these parts:

    host -> transport (stdio, SSE, streamable HTTP) -> McpServer
         -> ToolRegistry wrapper (deadline, busy limit, confirmation, audit)
         -> tool handler -> report executor / caches / pagination
         -> ServiceTitanClient.request -> gate -> cooldown -> token -> HTTP

Everything runs in one Node process: a step runs from one `await` to the next and
is atomic, and steps of different calls interleave at the awaits. Nothing is
persisted, so there is no crash recovery; a restart starts empty. Other processes
with the same credentials are outside the model.

| Part | State | Operations | What is hard | What makes it correct |
|---|---|---|---|---|
| Request gate (`client.ts` 70-108) | active count, queue of waiters | acquire, grant, cancel, release | cancel against grant, retry against newcomer | no slot lost or invented, FIFO, no idle slot while somebody waits |
| Token acquisition (`client.ts` 268-352) | cached token, generation, expiry, the shared fetch and its waiters, auth cooldown | getAccessToken, fetchAccessToken, invalidation by a 401 | cancelled callers of a shared fetch, replacement of an aborted one, delayed 401, rate limit | one live fetch, no foreign cancellation, no needless refresh, no token from an abandoned fetch |
| Request loop (`client.ts` 186-266, 339-377) | per call: attempts, retry flags; shared: resource cooldown | request | timeout after execution, 401/429 retries, abort at every point | a write runs at most once and its failure is reported honestly; every call ends |
| Report executor (`domains/intelligence/report-executor.ts` 121-232) | per report: promise chain, last start, cache | executeReport | cancellation in the chain, cooldown over minutes, page sequence | one call works at a time, starts are spaced, only whole reports are kept |
| Request context (`request-context.ts`) | signal, time zone, budget | awaitWithSignal, sleepWithSignal | abort against completion | modelled where it is used |
| Tool registry (`registry.ts`) | active calls, registered tools, result store | register, the wrapped handler | deadline, busy counter, audit that fails | a mutation runs only when permitted and confirmed, is audited once |
| Response delivery (`utils.ts` 152-294) | delivery failures | toolResult, toolError | result too large after a mutation | a completed mutation is never reported as repeatable |
| Result store (`result-store.ts`) | up to four entries, bytes, expiry | put, read, clear | eviction and expiry | bounds hold, the newest entry is readable, chunks cover the text |
| Intelligence tools (`domains/intelligence/*.ts`) | - | fetch sources, fetchWithWarning, name lookups | sources that fail or are cancelled become warnings | an answer that lacks a source says so |
| Reference cache (`cache.ts`), intelligence cache (`domains/intelligence/helpers.ts` 13-127) | entries with TTL, loads in flight | getOrLoad, clear; withIntelCache | shared loads, clear while loading, failed loads | no stale, partial or cancelled result is stored or shared |
| Pagination (`helpers.ts` 184-250, `cache.ts` 177-216) | - | fetchAllPages | truncation, empty pages | complete data or an error |
| HTTP sessions (`streamable-http.ts`) | sessions, pending initializations | initialize, request, reap, close, shutdown | limit, concurrent close, shutdown during initialization | limit holds, a busy session is not reaped, each is closed once |
| SSE (`sse.ts`) | the map of transports, the one the server is connected to | connect, disconnect, message, shutdown | connections replacing each other, late close events | no replaced connection is served or reached again |
| Dates (`helpers.ts` 326 on, `utils.ts` 73-150) | - | local-midnight boundaries, conversion | daylight saving | a day's range covers the day |
| Readiness, configuration, logging, audit, contracts, adapters | none worth a model | - | - | - |

Hazards are listed with their lines in `PROJECT.json`.

## Modules

    RequestGate            the counting gate
    GateOrder              the gate with a record of who came before whom
      RequestGateProofs    its inductive invariant and theorems
    AccessToken            token acquisition
      AccessTokenProofs    its inductive invariant and theorems
    WriteOutcome           abstract: what the caller of a write may rely on
    ServiceTitanClient     the request loop; INSTANCEs RequestGate and AccessToken,
                           implements WriteOutcome
      ServiceTitanClientProofs  its inductive invariant, theorems and refinements;
                           INSTANCEs the proofs of the gate and of the token
    ReportExecutor         executeReport for one report
      ReportExecutorProofs its inductive invariant and theorems
    ToolCalls              the registry's wrapped handler, delivery and audit; relies on
                           WriteOutcome below and implements it above
      ToolCallsProofs      its inductive invariant, theorems and refinement
    SharedResult           abstract: what the callers of a cache of loads may rely on
    ReferenceCache         getOrLoad with its pages; implements SharedResult
      ReferenceCacheProofs its inductive invariant and refinement
    IntelligenceTools      the nine tools and withIntelCache; implements SharedResult
    LocalDays              ranges of local days, day and weekday counts
      IntelligenceToolsProofs  the inductive invariant and refinement of the tools, and
                           the theorems about ranges of days
    HttpSessions           sessions of the streamable HTTP entry point
    SseServer              the SSE entry point
    ResultStore            the store of results too large to deliver
    SseResults             composes SseServer with ResultStore
      TransportProofs      the inductive invariants and theorems of the two entry points
                           and of the store
    MC<module>             instance for TLC, with its .cfg files

**RequestGate.** `gate` is a record: `active` (the counter), `waiting` (the array of
waiters, here the requests themselves), `holders` (who has a `release` callback that
was not called yet; the code keeps this only in closures). `Acquired`, `Released` and
`Withdrawn` are the effects of `acquire`, `release` and `waiter.cancel` on that record;
the actions `Acquire`, `Release`, `Rejoin` (the retry of the request loop, which
releases and acquires in one turn) and `Cancel` apply them. `ServiceTitanClient` uses
the same operators on its own copy of the variable. `GateOrder` adds to every call of
`acquire`, that of a retry included, the requests it found waiting (`ahead`, history): of
them none may still wait when the call has its slot.

**AccessToken.** A *flight* is one `TokenFlight` (client.ts 111-116) with its fetch.
`phase` says where `fetchAccessToken` stands (`sleep`, `post`, or how it ended),
`settled` is the flag its finally callback sets, `waiters` the counter callers keep.
`CallerStep` is `getAccessToken` up to its await, `ReturnStep` what follows the await,
`FlightStep` and `Reply` the fetch. `Rejected` is the handling of a 401 in the request
loop (243-250). A token is represented by its generation. Variable `spent` is history:
generations known to be used up.

**ServiceTitanClient.** `pc` is the await at which a request stands: `queued` (line
208), `cooldown`/`sleep` (214), `token`/`awaitToken` (215), `sent` (220). `Leave` is
the finally block with the outer catch; `EnterLoop` the head of the loop, run in the
same turn as the release that precedes it. The API is part of the model: `Execute` and
`Refuse` decide what becomes of an attempt, independently of `Answer`, which decides
what the client hears. So an attempt may be executed and its answer lost, or be
executed after the client gave up. `notBefore` is history: how long the API asked this
request to stay away.

**WriteOutcome.** Two variables per write: how often it was executed and what its
caller was told. `failed` promises that it never will be; `unsure` is what
`outcomeUnknown: true` says. `KeepsPromise` is the refinement.

**ReportExecutor.** `pred` and `released` are the promise chain (156-163): a call waits
for the promise of the call before it. `forwards` marks a cancelled call whose promise
resolves after its predecessor's. `spacing` is the time left to
`lastStartedAt + cooldownMs`. `NextPage` is the head of the page loop, which runs in
the turn in which the previous page was accepted. `line`, `sinceSend` and `source` are
history; `source` says what the API has answered to each call: how many rows, the total it
announced, whether there are more to come, and whether a page was empty although there were
(`hole`). A report names the call
that fetched it (`by`), so that `OnlyWholeReports` compares what is delivered or cached with
what the API sent, and knows nothing of the checks the code makes in between.

**ToolCalls.** `pc` is `idle`, `refusing` (inside the wrapper, to be turned down),
`handler` (the tool's own handler runs) or `done`. The client is represented by what
`ServiceTitanClient` was shown to implement, `WriteOutcome`; `Delivered` is `toolResult`
or `toolError` (every mutating tool makes one client call and hands its result or its
error to one of them), `Entry` the audit entry. `HostKeepsPromise` and `AuditTruthful` say that
what reaches the host and the log keeps the client's promise. `consent` is history:
what the call came with.

**HttpSessions.** A session has the name of the client that opens it. `opening` is the
await at which an initialize request stands (`building` line 276, `connecting` 301-302
until `onsessioninitialized`, `answering` after it, `undoing` 303/305). `closing` is
`session.closing` with the progress of `closeSession`; a second call finds the flag set,
which is also what the re-entrant `onclose` finds. `request` and `emitted` are the
requests of a session with the events of their responses; a stream is a response whose
handler has returned. Age is a flag: whether `lastSeen` is longer ago than the limit.

**SharedResult.** Per call: what it asked for (`topic`), what became of the load it
started (`load`) and what it was told, by which load. A load is `whole` while a later
call may be served from it. `Settle` tells the outcome to the callers that waited;
a cancellation (`Withdraw`) reaches only the call whose signal fired.

**ReferenceCache.** `state` holds, for each replacement of `clientStates` (`era`, counted
by `clear`) and each kind of data, the kept result, its time to live and `inFlight`. A
load keeps the slot it started in, as the closure of `getOrLoad` keeps `state`. `Page` is
one round of `fetchAllPages`; `complete` is history: whether the source has said that
there is no more. A load counts as `whole` for `SharedResult` only if it has.

**IntelligenceTools.** `PlanOf` lists, for each tool, the names it may have to look up,
the sources it always reads, those read on request and whether it adds a remark of its
own to the warnings: what matters of 3 500 lines of handlers to caching and honesty.
`Resolve` is a lookup, `FetchWithWarning` a source with its failure turned into a warning,
`Return` the end of the handler with `toolResult`, `Settle` what `withIntelCache` does with
the result. `missing` is history: loads one of whose sources failed; the refinement says
that such an answer is never served unmarked to anyone. Sources are read in one fixed order:
the code reads some side by side, but every order leaves the same sets behind. The
registry is the only caller with a signal (`Guarded`); the others embed the library.

**LocalDays.** A zone is two offsets and the instant between them, which stands for
`Intl.DateTimeFormat`. `Midnight` is `parseDateInput` with its two estimates of the offset.
The properties compare it with the definition of a local date, instant by instant.

**SseServer.** Connections are numbered as `activeTransportId` numbers them. GET /sse
awaits only `server.close`, `transport.close` and `server.connect`, none of which waits for
I/O, so a connection is made in one step; the `close` event of a response comes in a later
one (`ending`), or before the server is connected again (`flushed`). The SDK calls
`onclose` on it once more, and the server then drops the transport it has by then: the model
does so too (`ResponseClosed`), and `late` records it. A POST looks its transport up (`LookUp`), reads its body, and is handled
(`HandlePost`): `refused`, `handled`, or `unheard` when the server has lost the transport the
answer should go to. The module's head names what is assumed of the SDK.

**ResultStore, SseResults.** `values` is the Map in insertion order; the text of a result is
a sequence of characters of its own. A reader puts chunks together by `nextOffset`.
`SseResults` lets `st_result_read` arrive by POST and clears the store whenever the server is
closed: by a new connection, by the client that leaves, by shutdown. Losing its transport to a
late `onclose` does not close it and clears nothing.

### Abstractions

Time is what is left of it: each deadline is a counter that `Tick` (or `Elapse`) lowers
and that stops at zero, so no clock bound is needed. A timer may fire late. Message
text, trace identifiers, metrics, URLs, headers, rows and columns are left out. Outside
code is modelled from its use: the ServiceTitan API executes or refuses an attempt and
answers with success, 401, 429 with a delay, another refusal, a server error or silence;
the auth endpoint answers with a token, an error or a 429. `Date.now()` is taken to
agree with timers.

## Runs

| Run | Instance | Shows |
|---|---|---|
| `gate` | 5 requests, 2 slots, queue of 2 | `SlotsAccounted`, `QueueConsistent`, `WorkConserving`, `NoOvertaking` |
| `token` | 3 callers, 2 unwound fetches, 3 tokens | `WaitersCounted`, `FetchWanted`, `CancelIsolation`, `RefreshJustified`, `InstalledForWaiter` |
| `client` | 2 concurrent writes, delays within and beyond the budget | `AttemptsBounded`, `RetryAfterHonoured`, `KeepsPromise` |
| `client_queue` | 3 writes, 1 slot, queue of 1 | `SlotsMatchRequests`: every path gives its slot back |
| `client_live` | a read and a write, 1 slot | `EveryRequestEnds` |
| `report` | 3 calls, 2 of them for the same, 3 pages, cache of 1 | `TurnInOrder`, `StartsSpaced`, `SharedRun`, `OnlyWholeReports`, `EveryCallEnds` |
| `report_sends` | 2 calls | a divergence, see below |
| `tools` | a write, a delete, a read, 2 places, 6 configurations | `CallsCounted`, `NothingWithoutConsent`, `AuditTruthful`, `HostKeepsPromise` |
| `sessions` | 2 clients, 1 place, 2 requests | `WithinLimit`, `CountersExact`, `NothingStranded`, `StreamsKept`, `IdleReclaimed`, `ShutdownEnds` |
| `reference` | 2 callers with a signal, 2 without, 2 pages, one clear | `SharesWholeLoads` |
| `intelligence` | a registry call for any tool, 2 embedded calls, cache of 1; 5 days, 972 zones | `ServesCompleteAnswers`; `RangeHoldsItsDays`, `CountsAsAsked` |
| `sse` | 3 connections, 4 results, store of 2 | `NewestServed`, `PostsReachNewest`, `NewestFits`, `ReadsAreWhole` |

`TypeOK` is checked in `token`, `tools` and `report`, where it bounds the cache.
`PROJECT.json` names, for every property, a plausible bug that its run would find.

Why the bounds suffice. *Gate:* five requests fill both slots and both queue places and
one is turned away, so every branch of `acquire` is taken and a waiter stands behind a
waiter. *Token:* with two fetches an aborted one can unwind next to its replacement,
and a third caller can meet both; more than two would repeat that situation. Three
tokens let a 401 for the first arrive when the second is cached. One lifetime ends
inside the expiry buffer and one delay exceeds the budget. Flights are reused once
unwound. *Client:* a request sends at most three times (`AttemptsBounded`), so the
generation bound of three is met only when every attempt draws a 401. In the runs of
the client the auth endpoint sends no 429; that path is checked in `token`. In
`client_queue` a slot that is passed on, a waiter, and a request that finds the queue
full occur together. *Tools:* three calls for two places turn one away; one call of each
operation meets each guard. *Sessions:* with two clients for one place one is refused while the
other initializes, serves or closes; two requests suffice for one to end twice while the
other streams. *Reference:* two callers that share a load meet one that loads by
itself, before or after a clear; a load has a first, a last and a page too many.
*Intelligence:* the embedded calls share a load, and the registry call evicts or is served
what they leave; with room for one answer every insertion of another key evicts. Dates
depend on nothing else, so that the same run asks for them instead of making calls: the
clock changes by an hour at each hour of the third of five days, for nine offsets between
-11 and +13 hours; zones that skip or repeat a midnight are left out (see Observations).
*Sse:* of three connections, one replaces another while the close event of a third is
still due, before or after a POST is heard; of four results one exceeds the budget, one fills it alone and two fit together.
*Report:* with three calls one works, one is cancelled in line and
one waits behind it; three pages give a first, a last and a page beyond the limit, three
rows of one make a report as long as it may be, and a page of four is beyond that limit.

### Fairness

Weak fairness on `Tick`/`Elapse`, on each continuation of a settled promise and on each
timer: the event loop runs them. Weak fairness on the answers (`Reply`, `Answer`):
axios is created with a timeout (`authTimeoutMs`, `requestTimeoutMs`), so a request ends
in an answer or an error. `ReportExecutor` assumes that `client.post` returns or throws,
which is `EveryRequestEnds`. No fairness is assumed on the *arrival* of calls, on
cancellation, on execution at the API, or on `Release` being preferred to other steps.
`HttpSessions` assumes that the interval and the shutdown timer fire, that time passes,
and that `close` of the SDK settles; it assumes nothing of clients, not even that a
stream ends. The other modules state no fairness: nothing is claimed to happen eventually.

### A divergence from the documentation

`README.md` line 124 says report execution is "scheduled per report and API client, with
a 65-second interval between starts". The code stamps `lastStartedAt` (line 178) and then
calls `client.post`, which may wait for a slot, a cooldown or a token. The interval
holds between stamps (`StartsSpaced`, run `report`) and not between the requests that
reach the API (`SendsSpaced`, run `report_sends`): when the first is held back, the
second may follow closer than the interval.

### Observations

Met while modelling, and checked by no run:

- `helpers.ts` 17 says of the intelligence cache that "In-flight dedup prevents concurrent
  identical calls from hitting the API twice". Loads are shared only between calls without a
  signal and without a store (59), and the registry gives both to every call (`registry.ts`
  336): two calls of the registry never share one. The reports below are serialized and
  reused all the same (`SharedRun`).
- The campaign tool always adds a warning (`campaign-roi.ts` 287) and answers with warnings are
  not kept (`helpers.ts` 105): its answers are never cached.
- In a zone west of Greenwich whose clock is set forward at midnight, the second estimate of
  `parseDateInput` (449) takes the offset after the change, and the day starts at 23:00 of
  the day before.

- `README.md` 150 says that a new SSE connection "replaces the prior one", and `tests/sse.test.ts`
  467 that a stale disconnect of the previous transport is ignored. `cleanupTransport` does ignore
  it, but the SDK listens to the same `close` event: when that of a replaced connection comes
  after `server.connect`, the server drops its newest transport, the answers of which are lost
  until the client connects again. The test uses a mock of the SDK, which is not in the
  repository. `NewestServed` and `PostsReachNewest` name what holds all the same.

## Proofs

| Module | Proved for every value of the constants |
|---|---|
| `RequestGateProofs` | `TypeOK`, `SlotsAccounted`, `QueueConsistent`, `WorkConserving`, `NoOvertaking` |
| `AccessTokenProofs` | `TypeOK`, `WaitersCounted`, `FetchWanted`, `CancelIsolation`, `RefreshJustified`, `InstalledForWaiter` |
| `ServiceTitanClientProofs` | `SlotsMatchRequests`, `AttemptsBounded`, `RetryAfterHonoured`, `KeepsPromise`, `TypeOK`; the client implements `Gate!Spec` and `Token!Spec` |
| `ReportExecutorProofs` | `TypeOK`, `TurnInOrder`, `SharedRun`, `OnlyWholeReports`, `StartsSpaced` |
| `ToolCallsProofs` | `TypeOK`, `CallsCounted`, `NothingWithoutConsent`, `AuditTruthful`, `HostKeepsPromise` |
| `ReferenceCacheProofs` | `SharesWholeLoads` |
| `IntelligenceToolsProofs` | `ServesCompleteAnswers`, `RangeHoldsItsDays`, `CountsAsAsked` |
| `TransportProofs` | `WithinLimit`, `CountersExact`, `NothingStranded`, `StreamsKept`; `NewestServed`, `PostsReachNewest`, `NewestFits`, `ReadsAreWhole` |

Every safety property of every passing run is proved. With `PromiseIsKept` and
`ToolsKeepPromise` the chain from the API to the host is proved in two links: the client
implements `WriteOutcome`, and the wrapper implements it towards the host given a client that
does. What this means at each end is stated on its own: `TruthIsTold` and
`FailuresAreSafeToRepeat` for the caller of the client, `ReportedFailuresAreFinal` for the host,
whose agent may repeat what it was told has failed.

`RequestGateProofs`. Assumptions: the limit and the queue size are positive integers
(`LimitAssumption`, `MaxQueuedAssumption`; `positiveInteger` in client.ts 118 enforces them).
The inductive invariant is `WellFormed`, the conjunction of the type, the accounting of
slots, the consistency of the queue and work conservation. None is inductive alone: that a
release may hand its slot to the head of the queue without exceeding the limit needs the
count to equal the number of holders, which needs the head not to be a holder already,
which is the consistency of the queue; and a newcomer may take a free slot without
overtaking only because nobody waits while one is free. One lemma for each operator
(`Acquired`, `Freed`, `Released`, `Withdrawn`) states that it preserves `WellFormed`;
the actions follow from them. That nobody is overtaken is proved of `GateOrder`: the requests
that a waiter found before it and that still wait stand in front of it in the queue (`InLine`),
so the head, which is granted, has none. A retry that kept its slot while others wait would
not have that: it would hold with the queue ahead of it. A second group of lemmas (`AcquiredOthers`, `ReleasedOthers`,
`WithdrawnOthers`) says what such a step leaves to everybody else, which the client needs.

`AccessTokenProofs`. Assumptions: `NoFlight` is no flight; lifetimes and `maxRetryDelayMs`
are positive, delays and the buffer natural numbers. Callers and flights may be any sets.
The invariant adds to `TypeOK` that each flight's count is the cardinality of its
waiting callers (`Counted`), that they wait for a flight in use (`JoinedInUse`), that a flight
not settled is aborted exactly when its count is zero and that only the flight new callers
join is not (`FlightsInOrder`), and that every token but the cached one is spent, the cached one
too once a wanted fetch runs (`TokensInOrder`). The properties lean on each other in this order:
`RefreshJustified` holds because only a wanted fetch installs a token, there being one wanted
fetch because a flight is aborted exactly when its count is zero, which says what it should
because the count is right. `CancelIsolation` holds because a fetch that ended as cancelled has
no waiters left to tell.

`ServiceTitanClientProofs`. Assumptions: those of the two parts (`GateAssumption`,
`TokenAssumption`), writes are requests, delays are natural numbers. The invariant says that the
gate is well formed and matches the places of the requests (`GateInOrder`); that the sends of a
request are bounded by its retries and that the time it was asked to wait is never longer than
the shared cooldown, and over when it goes for its token (`SendsInOrder`); and that what was told
agrees with what became of the last attempt, every earlier one having been refused
(`AnswersInOrder`). The second conjunct of `SendsInOrder` is why `Larger` in `RecordRateLimit`
matters, the last one why a retry passes `waitForCooldown` again. In `PromiseIsKept` an
execution is an `Execute`, the end of a write a `Tell`, everything else a stutter. `WriteOutcome`
forbids an execution after "failed": it cannot happen here because such an answer follows a
refusal or precedes every send.

The proof is composed. `G == INSTANCE RequestGateProofs` and `T == INSTANCE AccessTokenProofs`
make the lemmas of the parts available; of the gate nothing is unfolded but who holds and who
waits. Conversely `GateIsUsedAsMeant` and `TokenIsUsedAsMeant` show each step of the client to be
a step of the part or a stutter (the client never acquires for a request that has a slot, and a
retry keeps its signal: `NewCall`), so `GateStaysInOrder` and `TokenStaysInOrder` carry what
was proved of the parts over to the client.

`ReportExecutorProofs`. Assumptions: limits are as the code's constants are (positive page limit
and cache size, a natural cooldown), there is something to ask for, and `NoCaller` is no caller.
`TurnInOrder` is far from inductive: a promise of the chain resolves when its call ends, or, when
the call was cancelled in line, after that of its predecessor, so that promises of calls already
gone pass the turn on. The invariant therefore asserts that there is a *rank*, a number for every
call that ever queued, in the order in which they queued: each call waits for the one with
the rank below (`Ranked`), promises resolve in the order of the ranks (`ResolvedInOrder`), and
`line` holds the calls that wait or work, by rank (`LineInOrder`). The rank is an existential
of the invariant, not a variable of the model; the step that queues a call is its only
witness. `WorkInOrder` adds that the call at work has found no fresh entry and that its sleep
outlasts the cooldown, for `SharedRun` and `StartsSpaced`. `ReportsInOrder` is for
`OnlyWholeReports`: the call at work has gathered just what it was sent, with no hole
(`GatheredInOrder`), and a report that is cached or was delivered was fetched by a call that is
done, so that what stands behind it does not change any more (`SettledCache`,
`SettledAnswers`). The cache is trimmed by a recursive function
(`Live`); what it returns for every sequence is proved by induction (`LiveEntries`). The
induction is by the least counterexample (`LeastElement`), which follows from the
well-foundedness of strict inclusion on finite sets: the library's induction theorems take
an operator as a parameter, which none of the provers can instantiate.

`TransportProofs`, streamable HTTP. Assumptions: a positive limit; `None` is no client. The limit is
checked against a counter and the size of the Map, before the asynchronous steps that
fill the Map; so the invariant says that the counter is the number of initializations under way
(`PlacesCounted`), and `WithinLimit` is stated of both. `RequestsCounted` and `RequestsPlaced` say
the same of the requests of a session; `ServersHeld` ties a server to the step that
made it.

`ToolCallsProofs`. Assumptions: reads, writes and deletes are disjoint
(`OperationsAssumption`: a tool has one operation) and the limit is positive
(`MaxCallsAssumption`). The invariant has one part per mutation. `ClientTrue`: what the
client told is true and only admitted calls have a story. `Retold`: once a call is over,
host and log say what the client told, and a call that never reached its handler is
reported failed without having been executed. The two need each other: an answer keeps
its truth only because the API executes late for `unsure` alone, and the log is right
only because an entry is written with the answer it describes. `Counted`, that the
counter is the cardinality of the calls inside, is carried beside it. In the refinement
the end of a mutating call is a `Tell`, an execution an `Execute`, all else a stutter.

`TransportProofs`, SSE and the store. Assumptions: texts have a length and a size, the capacity, the time to
live and the chunk size are positive, and no result is called "none". `NewestServed` is proved of
`SseServer` alone and of its composition with the store, for any number of connections and
POSTs. It is inductive but for one fact: every response that is open or still to close is that
of a connection that was made (`ResponsesAreOfConnections`). With it, a `close` event is that of
the newest connection or of one already cleaned up after. `PostsReachNewest` needs the same of
POSTs (`PostsAreForConnections`): what a POST was looked up for was made, and if it has not been
cleaned up after it is in the map, which is the newest connection alone. Of the store,
`NewestFits` follows from how long the newest result has still to live, which is at least what
`age` leaves of `Ttl` (`NewestKept`), and `ReadsAreWhole` from what a reader has being the text up to
its offset (`ReaderInOrder`). Most of the work is the arithmetic of the entries: that the used
bytes are a sum (`UsedIs`, `UsedOfAppend`), that pruning makes neither the length nor the sum larger
(`LiveFits`), and that evicting ends with room for what is put (`EvictedFits`). `Used` and `Live` are
recursive functions, so that their equations must be shown to have a solution (`Recursion`) and
to hold at every entry (`Induction`); both rest on the least element of a set of numbers.

`ReferenceCacheProofs` proves that `ReferenceCache` implements `SharedResult` (`SharesWholeLoads`)
for any callers, kinds of data, numbers of pages and times to live. Assumptions: callers with
a signal are callers, page limit and time to live are positive, and `None` is neither a caller
nor a slot. The invariant says what each point of a call's way implies (`CallsTrue`), that a call
which joined waits for a shared load of the same slot that still runs (`JoinedTrue`), and that a
slot keeps whole results and registers running loads only (`SlotsTrue`). `JoinedTrue` is what
makes the end of a load a `Settle`: every listener still waits, asked for the same and cannot be
aborted, because only calls without a signal join. An expiry is a `Forget`, a cancelled load a
`Withdraw`, a page that leads to the next a stutter, and so is `clear`, which abandons slots
without touching what their loads have promised.

`IntelligenceToolsProofs`, the tools. Assumptions: cache size and times to live are positive,
`None` is neither a call nor a key, `MayAsk` gives each call a set of keys, and the calls
guarded by the registry are calls. The invariant says what each point of a call's way implies,
above all that a load that missed a source has left a warning (`CallsTrue`); that a call which
joined waits for a load of the same key that still runs, neither of them with a signal
(`JoinedTrue`); that what is registered as in flight runs (`InFlightTrue`); and that an entry is
the very answer its load gave, which missed nothing (`KeptTrue`). Together they say why turning a
failure into a warning is enough: whether an answer is kept depends on its warnings alone
(`helpers.ts` 105). The end of a load is a `Settle`, that of an aborted one a `Withdraw`; expiry
and `clear` are a `Forget` or a stutter, a lookup and a source a stutter. What pruning leaves is
proved by induction on the sequence (`LiveEntries`), what an insertion leaves follows from it
(`PutEntries`).

`IntelligenceToolsProofs`, the dates. Assumptions: a day has a positive length, offsets and the
instant of the change are integers. An instant on the wrong side of the change would be a second
midnight of its day; so, where each day has exactly one midnight (`HasMidnights`), the midnight
that `parseDateInput` finds divides the instants of earlier dates from those of later ones
(`MidnightDivides`). The range (`RangeIs`) and the counts follow. The condition is part of the
properties: in a zone that skips or repeats a midnight they may fail (see Observations).

Only model-checked: the liveness properties (`EveryRequestEnds`, `EveryCallEnds`,
`IdleReclaimed`, `ShutdownEnds`), which need ENABLED and are beyond the prover.

## Plan

What would add most next: pure operators against reference definitions
(`retryAfterMilliseconds`, the registration filters).

## Not modelled

Of the 190 000 lines of the repository, 164 000 are the generated tables
`contracts/official-operations.generated.ts` and `official-routes.generated.ts`: constants that
`resolve-route.ts` looks up. Modules that model the rest, however complete, leave most lines of
the repository without a definition. Most of the remaining 25 000 lines are the CRUD adapters
under `domains/`: a schema, one client call, a reshaped answer and no state; what such a call
may do is in `ToolCalls` (permission, confirmation, deadline, delivery, audit) and
`ServiceTitanClient`. The arithmetic of the metrics over the rows of a report, the search of
`intel_lookup`, and the rendering of timestamps keep no state between calls either. The
registration filters test constants once at start. Readiness is a list of requests and their
outcomes. Configuration, logging, schema shims, redaction and header checks are parsing and
text. `PROJECT.json` lists every part with its status.
