-------------------------- MODULE IntelligenceTools --------------------------
(***************************************************************************)
(* The intelligence tools: what each one fetches, how a source that fails   *)
(* becomes a warning, and the result cache that all of them share           *)
(* (src/domains/intelligence).  A source is a report or a paged list; the    *)
(* arithmetic over its rows and what it contains are left out.              *)
(***************************************************************************)
EXTENDS Naturals, Sequences, FiniteSets

CONSTANTS Calls,
          Guarded,      \* calls made through the registry; the others embed the library
          MayAsk,       \* the keys a call may ask for (to keep instances small)
          MaxEntries,   \* MAX_INTEL_CACHE_ENTRIES, also the bound of loads in flight
          Ttl, SnapshotTtl,
          MaxClears,    \* bound of the model: how often clearIntelCache is called
          None

ASSUME GuardedAssumption == Guarded \subseteq Calls
ASSUME EntriesAssumption == MaxEntries \in Nat \ {0} /\ Ttl \in Nat \ {0} /\ SnapshotTtl \in Nat \ {0}

-----------------------------------------------------------------------------
(* What a tool does: names it may have to look up, sources it always reads,  *)
(* groups of sources read on request, and whether it "never", "maybe" or      *)
(* "always" adds a remark of its own to the warnings.                         *)
Plan(names, always, onRequest, remark) ==
  [names |-> names, always |-> always, onRequest |-> onRequest, remark |-> remark]

RevenueSummary == Plan({"businessUnit"}, {"175", "179"}, {{"177"}, {"payments"}}, "never")
TechnicianScorecard ==
  Plan({"technician", "businessUnit"}, {"168", "170", "169"}, {{"171", "173", "174"}}, "maybe")
MembershipHealth == Plan({}, {"182", "178"}, {{"invoices"}}, "never")
EstimatePipeline == Plan({}, {"estimates"}, {{"172"}}, "never")
CampaignPerformance == Plan({}, {"campaigns", "calls", "bookings", "175", "176"}, {}, "always")
DailySnapshot ==
  Plan({}, {"appointments", "jobs", "invoices", "payments", "estimates", "calls", "163"}, {}, "maybe")
CsrPerformance == Plan({"businessUnit"}, {"162"}, {}, "never")
LaborCost == Plan({"businessUnit", "technician"}, {"166"}, {}, "never")
InvoiceTracking == Plan({"businessUnit"}, {"2281", "2282"}, {}, "never")

PlanOf == [revenue |-> RevenueSummary, technicians |-> TechnicianScorecard, memberships |-> MembershipHealth,
           pipeline |-> EstimatePipeline, campaigns |-> CampaignPerformance, snapshot |-> DailySnapshot,
           csr |-> CsrPerformance, labor |-> LaborCost, invoices |-> InvoiceTracking]

\* The cache key: the tool and its arguments, as far as they choose sources.
Key == UNION {[tool : {t}, names : SUBSET PlanOf[t].names,
               sources : {PlanOf[t].always \cup UNION asked : asked \in SUBSET PlanOf[t].onRequest}]
              : t \in DOMAIN PlanOf}
TtlOf(k) == IF k.tool = "snapshot" THEN SnapshotTtl ELSE Ttl

ASSUME NoneAssumption == None \notin Calls /\ None \notin Key
ASSUME MayAskAssumption == MayAsk \in [Calls -> SUBSET Key]

-----------------------------------------------------------------------------
VARIABLES
  intelCache,   \* kept answers, oldest first
  inflight,     \* loads whose promises later calls may be given
  topic,        \* the key of a call
  pc,           \* "idle", "loading", "joined", "done"
  waitsFor,     \* the load whose promise a joined call was given
  unresolved,   \* names a load has still to look up
  outstanding,  \* sources a load has still to read
  warned,       \* loads that have pushed a warning
  missing,      \* history: loads one of whose lookups or sources failed
  aborted, told,
  clears        \* history: how often the cache was cleared

cacheVars == <<intelCache, inflight, clears>>
loadVars == <<unresolved, outstanding, warned, missing>>
callVars == <<topic, pc, waitsFor, aborted, told>>
vars == <<cacheVars, loadVars, callVars>>

Nothing == [is |-> "nothing", by |-> None]
Answer(what, by) == [is |-> what, by |-> by]

Init ==
  /\ intelCache = <<>> /\ inflight = {} /\ clears = 0
  /\ topic = [c \in Calls |-> None]
  /\ pc = [c \in Calls |-> "idle"]
  /\ waitsFor = [c \in Calls |-> None]
  /\ unresolved = [c \in Calls |-> {}] /\ outstanding = [c \in Calls |-> {}]
  /\ warned = {} /\ missing = {}
  /\ aborted = {} /\ told = [c \in Calls |-> Nothing]

-----------------------------------------------------------------------------
(* withIntelCache.                                                          *)

\* Loads are shared only by calls with neither a signal nor a store of their own.
Shares(c) == c \notin Guarded

Unexpired(entry) == entry.left > 0
Live(entries) ==
  LET upTo[n \in 0 .. Len(entries)] ==
        IF n = 0 THEN <<>>
        ELSE IF Unexpired(entries[n]) THEN Append(upTo[n - 1], entries[n]) ELSE upTo[n - 1]
  IN  upTo[Len(entries)]
Pruned == Live(intelCache)
Kept(k) == {i \in DOMAIN Pruned : Pruned[i].key = k}
InFlight(k) == {l \in inflight : topic[l] = k}
Listeners(l) == {l} \cup {c \in Calls : pc[c] = "joined" /\ waitsFor[c] = l}

Tell(those, answer) ==
  /\ told' = [c \in Calls |-> IF c \in those THEN answer ELSE told[c]]
  /\ pc' = [c \in Calls |-> IF c \in those THEN "done" ELSE pc[c]]

StartLoad(c, k) ==
  /\ pc' = [pc EXCEPT ![c] = "loading"]
  /\ unresolved' = [unresolved EXCEPT ![c] = k.names]
  /\ outstanding' = [outstanding EXCEPT ![c] = k.sources]
  /\ inflight' = IF Shares(c) /\ Cardinality(inflight) < MaxEntries THEN inflight \cup {c} ELSE inflight
  /\ UNCHANGED <<waitsFor, told>>

WithIntelCache(c, k) ==
  /\ pc[c] = "idle"
  /\ topic' = [topic EXCEPT ![c] = k]
  /\ \/ /\ c \in aborted
        /\ Tell({c}, Answer("cancelled", None))
        /\ UNCHANGED <<intelCache, inflight, waitsFor, unresolved, outstanding>>
     \/ /\ c \notin aborted
        /\ intelCache' = Pruned
        /\ \/ \E i \in Kept(k) : /\ Tell({c}, Pruned[i].answer)
                                 /\ UNCHANGED <<inflight, waitsFor, unresolved, outstanding>>
           \/ /\ Kept(k) = {} /\ Shares(c)
              /\ \E l \in InFlight(k) : waitsFor' = [waitsFor EXCEPT ![c] = l]
              /\ pc' = [pc EXCEPT ![c] = "joined"]
              /\ UNCHANGED <<inflight, told, unresolved, outstanding>>
           \/ Kept(k) = {} /\ ~ (Shares(c) /\ InFlight(k) # {}) /\ StartLoad(c, k)
  /\ UNCHANGED <<clears, warned, missing, aborted>>

CompleteIgnoringWarnings(answer) == answer.is \notin {"failed", "handle"}
\* isCompleteSuccessfulResult: no error, no warnings, nothing left in a store.
Complete(answer) == answer.is \notin {"failed", "marked", "handle"}

\* Entries are dropped until there is room; an entry of the same key is replaced
\* where it stands.
Put(entry) ==
  LET roomy == IF Len(intelCache) < MaxEntries THEN intelCache
               ELSE SubSeq(intelCache, Len(intelCache) - MaxEntries + 2, Len(intelCache))
      same  == {i \in DOMAIN roomy : roomy[i].key = entry.key}
  IN IF same = {} THEN Append(roomy, entry) ELSE [i \in DOMAIN roomy |-> IF i \in same THEN entry ELSE roomy[i]]

Settle(l, answer) ==
  /\ intelCache' = IF Complete(answer)
                   THEN Put([key |-> topic[l], answer |-> answer, left |-> TtlOf(topic[l])])
                   ELSE intelCache
  /\ inflight' = inflight \ {l}
  /\ Tell(Listeners(l), answer)

Reject(l) ==
  /\ inflight' = inflight \ {l}
  /\ Tell(Listeners(l), Answer("cancelled", None))
  /\ UNCHANGED intelCache

-----------------------------------------------------------------------------
(* The handlers.                                                            *)

\* What toolResult makes of the result. One that is too large is put into the
\* caller's store; without one, or when it does not fit there, it is not delivered.
Delivered(l, warns) ==
  {Answer(IF warns THEN "marked" ELSE "whole", l), Answer("failed", l)}
    \cup (IF l \in Guarded THEN {Answer("handle", l)} ELSE {})

\* The handler is done in the turn of its last source; a call aborted by then is
\* rejected whatever it has gathered.
Return(l, answers) ==
  IF l \in aborted THEN Reject(l) ELSE \E answer \in answers : Settle(l, answer)

\* Whether sources are read one by one or side by side, and which of them fails,
\* makes no difference to the answer: one order stands for all.
First(items) == CHOOSE item \in items : TRUE

\* resolveTechnicianId, resolveBusinessUnitId: the name found is reported among
\* the warnings (a technician may be found by another term and have none); a name
\* unknown or ambiguous, or a failed load of the reference data, ends the call.
Resolve(l, name) ==
  /\ pc[l] = "loading" /\ unresolved[l] # {} /\ name = First(unresolved[l])
  /\ \/ /\ l \notin aborted
        /\ unresolved' = [unresolved EXCEPT ![l] = @ \ {name}]
        /\ warned' = warned \cup {l} \/ (name = "technician" /\ warned' = warned)
        /\ UNCHANGED <<missing, intelCache, inflight, pc, told>>
     \/ /\ Return(l, {Answer("failed", l)})
        /\ missing' = missing \cup {l}
        /\ UNCHANGED <<unresolved, warned>>
  /\ UNCHANGED <<clears, topic, waitsFor, outstanding, aborted>>

Remarks(l) ==
  CASE PlanOf[topic[l].tool].remark = "never"  -> {FALSE}
    [] PlanOf[topic[l].tool].remark = "maybe"  -> BOOLEAN
    [] PlanOf[topic[l].tool].remark = "always" -> {TRUE}

\* fetchWithWarning: a source that fails, for whatever reason, leaves a warning and
\* its empty substitute. With the last source the handler returns.
FetchWithWarning(l, source, arrives) ==
  /\ pc[l] = "loading" /\ unresolved[l] = {} /\ source = First(outstanding[l])
  /\ arrives => l \notin aborted
  /\ outstanding' = [outstanding EXCEPT ![l] = @ \ {source}]
  /\ missing' = IF arrives THEN missing ELSE missing \cup {l}
  /\ warned' = IF arrives THEN warned ELSE warned \cup {l}
  /\ IF outstanding[l] # {source} THEN UNCHANGED <<intelCache, inflight, pc, told>>
     ELSE \E remark \in Remarks(l) : Return(l, Delivered(l, l \in warned' \/ remark))
  /\ UNCHANGED <<clears, topic, waitsFor, unresolved, aborted>>

Abort(c) ==
  /\ c \in Guarded \ aborted /\ pc[c] # "done"
  /\ aborted' = aborted \cup {c}
  /\ UNCHANGED <<cacheVars, loadVars, topic, pc, waitsFor, told>>

ClearIntelCache ==
  /\ clears < MaxClears
  /\ clears' = clears + 1 /\ intelCache' = <<>> /\ inflight' = {}
  /\ UNCHANGED <<loadVars, callVars>>

Tick ==
  /\ \E i \in DOMAIN intelCache : Unexpired(intelCache[i])
  /\ intelCache' = [i \in DOMAIN intelCache |-> [intelCache[i] EXCEPT !.left = IF @ > 0 THEN @ - 1 ELSE 0]]
  /\ UNCHANGED <<inflight, clears, loadVars, callVars>>

Next ==
  \/ \E c \in Calls : \/ \E k \in MayAsk[c] : WithIntelCache(c, k)
                      \/ \E name \in unresolved[c] : Resolve(c, name)
                      \/ \E source \in outstanding[c], arrives \in BOOLEAN : FetchWithWarning(c, source, arrives)
                      \/ Abort(c)
  \/ ClearIntelCache \/ Tick

Spec == Init /\ [][Next]_vars

-----------------------------------------------------------------------------
\* The load of l in the terms of SharedResult. It is whole when all its lookups and
\* sources succeeded, and only as long as it is kept.
KeptFrom(l) == \E i \in DOMAIN intelCache : Unexpired(intelCache[i]) /\ intelCache[i].answer.by = l

LoadOf(l) ==
  IF pc[l] = "loading" THEN "running"
  ELSE IF told[l].by # l /\ l \notin missing THEN "none"
  ELSE IF told[l].is \in {"failed", "handle", "marked"} THEN told[l].is
  ELSE IF told[l].is = "whole" /\ l \in missing THEN "marked"
  ELSE IF told[l].is = "whole" /\ KeptFrom(l) THEN "whole" ELSE "gone"

Shared == INSTANCE SharedResult WITH
            Cancellable <- Guarded, Topics <- Key, load <- [l \in Calls |-> LoadOf(l)]

\* PROPERTY. The tools keep the promise of SharedResult: an answer is served to a
\* later call, or to several, only if every source it was computed from arrived; one
\* with a failed source is marked, a stored one goes to its own session, and a
\* cancellation to its own call (withIntelCache 46-121, fetchWithWarning 164-176,
\* which turns every failure into a warning, cancellations included).
ServesCompleteAnswers == Shared!Spec
=============================================================================
