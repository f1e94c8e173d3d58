------------------------ MODULE IntelligenceToolsProofs ------------------------
(***************************************************************************)
(* The intelligence tools: their dates, for days of any length and zones of  *)
(* any offsets, and the result cache they share, which implements            *)
(* SharedResult for any calls, keys, lifetimes and size.                    *)
(*                                                                         *)
(* That an answer is kept only if all its sources arrived is not local to    *)
(* the cache: Complete sees a warning, so the invariant says that a load     *)
(* that missed something has left one (CallsTrue) and that what is kept is   *)
(* the very answer its load gave (KeptTrue).                                *)
(***************************************************************************)
EXTENDS IntelligenceTools, LocalDays, WellFoundedInduction, FiniteSetTheorems, TLAPS

-----------------------------------------------------------------------------
(* Days.  A day begins at its midnight and ends before the next one, whatever *)
(* the clock does: that is true because an instant on the wrong side of the   *)
(* change would be a second midnight of the day.                            *)

LEMMA DayOf ==
  ASSUME NEW x \in Int, NEW d \in Int
  PROVE  /\ x \div Day \in Int
         /\ x \div Day >= d <=> x >= d * Day
         /\ (d * Day) \div Day = d
<1>1. Day \in Nat /\ Day > 0
  BY DayAssumption
<1>2. PICK q \in Int : q = x \div Day
  BY <1>1
<1>3. q * Day <= x /\ x < q * Day + Day
  BY <1>1, <1>2
<1>4. q >= d => q * Day >= d * Day
  BY <1>1, Z3
<1>5. ~ (q >= d) => d * Day >= q * Day + Day
  BY <1>1, Z3
<1>6. d * Day \in Int /\ q * Day \in Int
  BY <1>1
<1>7. (d * Day) \div Day = d
  BY <1>1
<1> QED
  BY <1>1, <1>2, <1>3, <1>4, <1>5, <1>6, <1>7

\* The one instant that reads midnight is what the two estimates find, and divides
\* the instants before the day from those that are not.
LEMMA MidnightDivides ==
  ASSUME NEW zone \in Zones, HasMidnights(zone), NEW d \in 0 .. LastDay + 1
  PROVE  /\ Midnight(zone, d) \in Int
         /\ LocalDate(zone, Midnight(zone, d)) = d
         /\ \A i \in Int : /\ LocalDate(zone, i) \in Int
                           /\ i >= Midnight(zone, d) <=> LocalDate(zone, i) >= d
<1>1. /\ d \in Int /\ Day \in Int
      /\ zone.before \in Int /\ zone.after \in Int /\ zone.at \in Int
  BY DayAssumption, ZonesAssumption
<1>2. PICK w \in Int, b \in Int, a \in Int, at \in Int :
        w = d * Day /\ b = zone.before /\ a = zone.after /\ at = zone.at
  BY <1>1
<1> DEFINE Off(i) == IF i < at THEN b ELSE a
<1>3. \A i : Offset(zone, i) = Off(i)
  BY <1>2 DEF Offset
<1>4. PICK m \in {w - b, w - a} : {i \in {w - b, w - a} : i + Off(i) = w} = {m}
  <2>1. Midnights(zone, d) = {i \in {w - b, w - a} : i + Off(i) = w}
    BY <1>2, <1>3 DEF Midnights
  <2>2. PICK m \in Midnights(zone, d) : Midnights(zone, d) = {m}
    BY DEF HasMidnights
  <2> QED
    BY <2>1, <2>2
<1>5. /\ m \in Int /\ m + Off(m) = w
      /\ \A i \in {w - b, w - a} : i + Off(i) = w => i = m
  <2>1. w - b \in Int /\ w - a \in Int
    OBVIOUS
  <2>2. m \in {i \in {w - b, w - a} : i + Off(i) = w}
    <3> HIDE DEF Off
    <3> QED
      BY <1>4
  <2>3. \A i \in {w - b, w - a} : i + Off(i) = w => i \in {m}
    <3> HIDE DEF Off
    <3> QED
      BY <1>4
  <2> QED
    BY <2>1, <2>2, <2>3
<1>6. Midnight(zone, d) = w - Off(w - Off(w))
  BY <1>2, <1>3 DEF Midnight
<1>7. w - Off(w - Off(w)) = m
  BY <1>5
<1>8. ASSUME NEW i \in Int PROVE i >= m <=> i + Off(i) >= w
  BY <1>5
<1>9. ASSUME NEW i \in Int
      PROVE  /\ LocalDate(zone, i) \in Int
             /\ LocalDate(zone, i) >= d <=> i + Off(i) >= w
  <2>1. i + Off(i) \in Int
    OBVIOUS
  <2>2. LocalDate(zone, i) = (i + Off(i)) \div Day
    BY <1>3 DEF LocalDate
  <2> HIDE DEF Off
  <2> QED
    BY <1>1, <1>2, <2>1, <2>2, DayOf
<1>10. LocalDate(zone, m) = d
  <2>1. LocalDate(zone, m) = w \div Day
    BY <1>3, <1>5 DEF LocalDate
  <2> QED
    BY <1>1, <1>2, <2>1, DayOf
<1> QED
  BY <1>5, <1>6, <1>7, <1>8, <1>9, <1>10

\* A range of days in their order begins on the first and ends on the last; in the
\* other order it would end before it begins.
LEMMA RangeIs ==
  ASSUME NEW zone \in Zones, HasMidnights(zone), NEW from \in 0 .. LastDay, NEW to \in 0 .. LastDay
  PROVE  LET range == ToDateRange(zone, from, to)
         IN /\ \A i \in Int : i \in range.start .. range.end <=> LocalDate(zone, i) \in from .. to
            /\ from <= to => /\ range.start \in Int /\ range.end \in Int /\ range.start <= range.end
                            /\ LocalDate(zone, range.start) = from /\ LocalDate(zone, range.end) = to
<1> DEFINE start == Midnight(zone, from)
           next == Midnight(zone, to + 1)
           end == next - 1
           range == ToDateRange(zone, from, to)
<1>0. /\ LastDay \in Nat /\ from \in 0 .. LastDay + 1 /\ to + 1 \in 0 .. LastDay + 1 /\ to \in 0 .. LastDay + 1
      /\ from \in Int /\ to \in Int
  BY DayAssumption
<1>1. range = IF end < start THEN Failed ELSE [start |-> start, end |-> end]
  BY DEF ToDateRange, ParseDateInput
<1>2. /\ start \in Int /\ LocalDate(zone, start) = from
      /\ \A i \in Int : LocalDate(zone, i) \in Int /\ (i >= start <=> LocalDate(zone, i) >= from)
  BY <1>0, MidnightDivides
<1>3. /\ next \in Int /\ LocalDate(zone, next) = to + 1
      /\ \A i \in Int : i >= next <=> LocalDate(zone, i) >= to + 1
  BY <1>0, MidnightDivides
<1>4. \A i \in Int : i >= Midnight(zone, to) <=> LocalDate(zone, i) >= to
  BY <1>0, MidnightDivides
<1>5. Midnight(zone, to) \in Int /\ LocalDate(zone, Midnight(zone, to)) = to
  BY <1>0, MidnightDivides
<1> HIDE DEF start, next
<1>6. from <= to <=> start < next
  BY <1>0, <1>2, <1>3
<1>7. LocalDate(zone, end) = to
  <2>1. end \in Int /\ ~ (end >= next) /\ end >= Midnight(zone, to)
    BY <1>0, <1>3, <1>5
  <2> QED
    BY <1>0, <1>2, <1>3, <1>4, <2>1
<1>8. CASE from <= to
  <2>1. range = [start |-> start, end |-> end]
    BY <1>1, <1>2, <1>3, <1>6, <1>8
  <2>2. range.start = start /\ range.end = end
    BY <2>1
  <2>3. ASSUME NEW i \in Int PROVE i \in start .. end <=> LocalDate(zone, i) \in from .. to
    BY <1>0, <1>2, <1>3
  <2> QED
    BY <1>2, <1>3, <1>6, <1>7, <1>8, <2>2, <2>3
<1>9. CASE ~ (from <= to)
  <2>1. range.start = 0 /\ range.end = -1
    BY <1>1, <1>2, <1>3, <1>6, <1>9 DEF Failed
  <2>2. \A i \in Int : i \notin 0 .. -1 /\ LocalDate(zone, i) \notin from .. to
    BY <1>0, <1>2, <1>9
  <2> QED
    BY <1>9, <2>1, <2>2
<1> QED
  BY <1>8, <1>9

QuestionsAsked == asked \subseteq [zone : Zones, from : 0 .. LastDay, to : 0 .. LastDay]

LEMMA QuestionsStay == DaysSpec => []QuestionsAsked
<1>1. DaysInit => QuestionsAsked
  BY DEF DaysInit, QuestionsAsked
<1>2. QuestionsAsked /\ [AskForDays]_asked => QuestionsAsked'
  BY DEF AskForDays, QuestionsAsked
<1> QED
  BY <1>1, <1>2, PTL DEF DaysSpec

\* THEOREM. For days of any length, zones of any offsets, changing at any instant, and
\* any days asked for, the range of the days holds exactly the instants of these days
\* (toDateRange 364-387, parseDateInput 423-451).
THEOREM RangesHoldTheirDays == DaysSpec => []RangeHoldsItsDays
<1>1. QuestionsAsked => RangeHoldsItsDays
  <2> SUFFICES ASSUME NEW q \in asked, QuestionsAsked, HasMidnights(q.zone)
               PROVE  LET range == ToDateRange(q.zone, q.from, q.to)
                      IN \A i \in Instants : i \in range.start .. range.end <=> LocalDate(q.zone, i) \in q.from .. q.to
    BY DEF RangeHoldsItsDays
  <2>1. q.zone \in Zones /\ q.from \in 0 .. LastDay /\ q.to \in 0 .. LastDay
    BY DEF QuestionsAsked
  <2>2. \A i \in Instants : i \in Int
    BY DayAssumption DEF Instants
  <2> QED
    BY <2>1, <2>2, RangeIs
<1> QED
  BY <1>1, QuestionsStay, PTL

\* THEOREM. So are the numbers of days and of weekdays that a tool divides by
\* (countWeekdaysInclusive 574-594, dayDiff 596-602).
THEOREM DaysAreCounted == DaysSpec => []CountsAsAsked
<1>1. QuestionsAsked => CountsAsAsked
  <2> SUFFICES ASSUME NEW q \in asked, QuestionsAsked, HasMidnights(q.zone), q.from <= q.to
               PROVE  LET range == ToDateRange(q.zone, q.from, q.to)
                      IN /\ CountWeekdaysInclusive(q.zone, range.start, range.end)
                              = Cardinality({d \in q.from .. q.to : IsWeekday(d)})
                         /\ DayDiff(q.zone, range.start, range.end) = q.to - q.from
    BY DEF CountsAsAsked
  <2>1. q.zone \in Zones /\ q.from \in 0 .. LastDay /\ q.to \in 0 .. LastDay
    BY DEF QuestionsAsked
  <2> DEFINE range == ToDateRange(q.zone, q.from, q.to)
  <2>2. /\ range.start \in Int /\ range.end \in Int /\ range.start <= range.end
        /\ LocalDate(q.zone, range.start) = q.from /\ LocalDate(q.zone, range.end) = q.to
    BY <2>1, RangeIs
  <2>3. q.from \in Int /\ q.to \in Int
    BY <2>1, DayAssumption
  <2> HIDE DEF range
  <2>4. CountWeekdaysInclusive(q.zone, range.start, range.end) = Cardinality({d \in q.from .. q.to : IsWeekday(d)})
    BY <2>2 DEF CountWeekdaysInclusive
  <2>5. DayDiff(q.zone, range.start, range.end) = q.to - q.from
    BY <2>2, <2>3 DEF DayDiff
  <2> QED
    BY <2>4, <2>5 DEF range
<1> QED
  BY <1>1, QuestionsStay, PTL

-----------------------------------------------------------------------------
(* The result cache.  What a call is at each point of its way; that a joined  *)
(* call waits for a shared load of its own key that still runs; and that an   *)
(* entry is the whole answer its load gave.                                  *)

Entry == [key : Key, answer : [is : {"whole"}, by : Calls], left : Nat]

TypesInv ==
  /\ intelCache \in Seq(Entry)
  /\ inflight \subseteq Calls
  /\ topic \in [Calls -> Key \cup {None}]
  /\ pc \in [Calls -> {"idle", "loading", "joined", "done"}]
  /\ waitsFor \in [Calls -> Calls \cup {None}]
  /\ told \in [Calls -> [is : {"nothing", "whole", "marked", "handle", "failed", "cancelled"}, by : Calls \cup {None}]]
  /\ aborted \subseteq Guarded

\* A source that failed has left a warning.
CallsTrue ==
  \A c \in Calls :
    /\ pc[c] = "idle" => topic[c] = None /\ told[c] = Nothing /\ c \notin missing
    /\ pc[c] # "idle" => topic[c] \in Key
    /\ pc[c] = "loading" => told[c] = Nothing /\ (c \in missing => c \in warned)
    /\ pc[c] = "joined" => told[c] = Nothing /\ c \notin Guarded /\ c \notin missing
    /\ pc[c] = "done" => told[c].is # "nothing"

JoinedTrue ==
  \A c \in Calls : pc[c] = "joined" =>
    waitsFor[c] \in Calls \ Guarded /\ pc[waitsFor[c]] = "loading" /\ topic[waitsFor[c]] = topic[c]

InFlightTrue == \A l \in inflight : pc[l] = "loading" /\ l \notin Guarded

\* An entry is the whole answer of a load that missed nothing and is over.
Genuine(entry) ==
  LET l == entry.answer.by
  IN pc[l] = "done" /\ topic[l] = entry.key /\ told[l] = entry.answer /\ l \notin missing

KeptTrue == \A i \in DOMAIN intelCache : Genuine(intelCache[i])

IInv == TypesInv /\ CallsTrue /\ JoinedTrue /\ InFlightTrue /\ KeptTrue

LEMMA InitEstablishes == Init => IInv
<1> SUFFICES ASSUME Init PROVE IInv
  OBVIOUS
<1>1. TypesInv
  BY DEF Init, TypesInv, Nothing
<1> QED
  BY <1>1 DEF Init, IInv, CallsTrue, JoinedTrue, InFlightTrue, KeptTrue

-----------------------------------------------------------------------------
(* What pruning and putting leave in the cache.  Live is a recursive function *)
(* over the cache, about which induction says something; that rests on the    *)
(* least element of a set of numbers.                                        *)

LEMMA LeastElement ==
  ASSUME NEW T, T \subseteq Nat, T # {}
  PROVE  \E m \in T : \A n \in T : m <= n
<1>1. PICK b \in T : TRUE OBVIOUS
<1> DEFINE D == {0..n : n \in {k \in T : k <= b}}
<1>2. IsFiniteSet(0..b) BY <1>1, FS_Interval
<1>3. IsWellFoundedOn(StrictSubsetOrdering(0..b), SUBSET (0..b))
  BY <1>2, FS_StrictSubsetOrderingWellFounded, FS_FiniteSubsetsOfFinite
<1>4. D \subseteq SUBSET (0..b) /\ 0..b \in D OBVIOUS
<1> HIDE DEF D
<1>5. PICK X \in D : \A Y \in D : ~ (<<Y, X>> \in StrictSubsetOrdering(0..b))
  BY <1>3, <1>4, WFMin
<1>6. PICK m \in T : m <= b /\ X = 0..m BY DEF D
<1>7. ASSUME NEW n \in T, ~(m <= n) PROVE FALSE
  <2>1. n <= b /\ n < m BY <1>6, <1>7
  <2>2. 0..n \in D BY <2>1 DEF D
  <2>3. m \in 0..m /\ m \notin 0..n BY <2>1
  <2>4. 0..n \subseteq 0..m /\ 0..n # 0..m /\ 0..m \subseteq 0..b BY <1>6, <2>1, <2>3
  <2>5. <<0..n, X>> \in StrictSubsetOrdering(0..b)
    BY <1>6, <2>4 DEF StrictSubsetOrdering
  <2>6. QED BY <1>5, <2>2, <2>5
<1>8. QED BY <1>7

\* What holds at 0 and is passed on from each number to the next holds up to L.
LEMMA Induction ==
  ASSUME NEW L \in Nat, NEW T \in SUBSET (0..L), 0 \in T,
         \A n \in 1..L : n - 1 \in T => n \in T
  PROVE  T = 0..L
<1> SUFFICES ASSUME (0..L) \ T # {} PROVE FALSE OBVIOUS
<1>1. PICK m \in (0..L) \ T : \A n \in (0..L) \ T : m <= n
  <2>1. (0..L) \ T \subseteq Nat OBVIOUS
  <2> QED BY <2>1, LeastElement
<1>2. m \in 1..L /\ m - 1 \in 0..L /\ ~(m <= m - 1) BY <1>1
<1> QED BY <1>1, <1>2

\* Pruning leaves the entries that are not expired, all of them and no other.
LEMMA LiveEntries ==
  ASSUME NEW E, NEW s \in Seq(E)
  PROVE  /\ Live(s) \in Seq(E)
         /\ \A i \in 1..Len(Live(s)) : \E j \in 1..Len(s) : Unexpired(s[j]) /\ Live(s)[i] = s[j]
         /\ \A j \in 1..Len(s) : Unexpired(s[j]) => \E i \in 1..Len(Live(s)) : Live(s)[i] = s[j]
<1> DEFINE From(f, n) == IF n = 0 THEN <<>>
                         ELSE IF Unexpired(s[n]) THEN Append(f[n - 1], s[n]) ELSE f[n - 1]
           Defines(f, m) == f = [n \in 0..m |-> From(f, n)]
           L == Len(s)
<1>0. L \in Nat
  OBVIOUS
<1>1. \E f : Defines(f, L)
  <2> DEFINE T == {m \in 0..L : \E f : Defines(f, m)}
  <2>1. 0 \in T
    <3>1. Defines([n \in 0..0 |-> <<>>], 0)
      OBVIOUS
    <3> HIDE DEF Defines
    <3> QED
      BY <1>0, <3>1
  <2>2. ASSUME NEW m \in 1..L, m - 1 \in T PROVE m \in T
    <3>1. PICK f : Defines(f, m - 1)
      BY <2>2
    <3> DEFINE g == [n \in 0..m |-> IF n < m THEN f[n] ELSE From(f, m)]
    <3>2. ASSUME NEW n \in 0..m PROVE g[n] = From(g, n)
      <4>1. CASE n < m
        <5>1. n \in 0..(m - 1)
          BY <4>1
        <5>2. f[n] = From(f, n)
          <6> HIDE DEF From
          <6> QED
            BY <3>1, <5>1
        <5>3. n # 0 => g[n - 1] = f[n - 1]
          BY <4>1
        <5> QED
          BY <4>1, <5>2, <5>3
      <4>2. CASE n = m
        <5>1. g[m - 1] = f[m - 1]
          OBVIOUS
        <5> QED
          BY <4>2, <5>1
      <4> QED
        BY <4>1, <4>2
    <3>3. Defines(g, m)
      <4> HIDE DEF From
      <4> QED
        BY <3>2
    <3> HIDE DEF Defines, g
    <3> QED
      BY <1>0, <3>3
  <2> HIDE DEF T, L
  <2>3. T \in SUBSET (0..L)
    BY DEF T
  <2>4. L \in T
    BY <1>0, <2>1, <2>2, <2>3, Induction
  <2> QED
    BY <2>4 DEF T
<1>2. PICK up : Defines(up, L) /\ Live(s) = up[L]
  <2>1. Live(s) = (CHOOSE h : Defines(h, L))[L]
    BY DEF Live
  <2>2. Defines(CHOOSE h : Defines(h, L), L)
    <3> HIDE DEF Defines
    <3> QED
      BY <1>1
  <2> QED
    BY <2>1, <2>2
<1> DEFINE Good(q, n) ==
             /\ q \in Seq(E)
             /\ \A i \in 1..Len(q) : \E j \in 1..n : Unexpired(s[j]) /\ q[i] = s[j]
             /\ \A j \in 1..n : Unexpired(s[j]) => \E i \in 1..Len(q) : q[i] = s[j]
<1>3. Good(up[L], L)
  <2> DEFINE T == {m \in 0..L : Good(up[m], m)}
  <2>1. 0 \in T
    <3>1. up[0] = <<>>
      BY <1>0, <1>2
    <3>2. Good(<<>>, 0)
      OBVIOUS
    <3> HIDE DEF Good, L
    <3> QED
      BY <1>0, <3>1, <3>2
  <2>2. ASSUME NEW m \in 1..L, m - 1 \in T PROVE m \in T
    <3>1. m \in 0..L /\ up[m] = From(up, m)
      <4> HIDE DEF From, L
      <4> QED
        BY <1>0, <1>2
    <3> DEFINE p == up[m - 1]
               q == Append(p, s[m])
    <3>2. Good(p, m - 1)
      BY <2>2
    <3>3. s[m] \in E /\ p \in Seq(E) /\ q \in Seq(E) /\ Len(q) = Len(p) + 1
      BY <3>2
    <3>4. \A i \in 1..Len(q) : q[i] = IF i <= Len(p) THEN p[i] ELSE s[m]
      BY <3>3
    <3>0. m \in Nat /\ m - 1 \in Nat /\ m \in 1..m /\ \A j \in 1..(m - 1) : j \in 1..m
      BY <1>0
    <3> HIDE DEF L
    <3>5. CASE Unexpired(s[m])
      <4>1. up[m] = q
        BY <3>1, <3>5
      <4> HIDE DEF q, p
      <4>2. \A i \in 1..Len(q) : \E j \in 1..m : Unexpired(s[j]) /\ q[i] = s[j]
        <5>1. \A i \in 1..Len(p) : \E j \in 1..m : Unexpired(s[j]) /\ p[i] = s[j]
          BY <3>0, <3>2
        <5>2. Len(p) \in Nat /\ m \in 1..m
          BY <3>0, <3>3
        <5>3. ASSUME NEW i \in 1..Len(q) PROVE \E j \in 1..m : Unexpired(s[j]) /\ q[i] = s[j]
          <6>1. CASE i <= Len(p)
            <7>1. i \in 1..Len(p) /\ q[i] = p[i]
              BY <3>4, <5>2, <6>1
            <7> QED
              BY <5>1, <7>1
          <6>2. CASE ~ (i <= Len(p))
            <7>1. q[i] = s[m]
              BY <3>4, <6>2
            <7> QED
              BY <3>5, <5>2, <7>1
          <6> QED
            BY <6>1, <6>2
        <5> QED
          BY <5>3
      <4>3. ASSUME NEW j \in 1..m, Unexpired(s[j]) PROVE \E i \in 1..Len(q) : q[i] = s[j]
        <5>1. CASE j = m
          BY <3>3, <3>4, <5>1
        <5>2. CASE j # m
          <6>1. PICK i \in 1..Len(p) : p[i] = s[j]
            BY <3>2, <4>3, <5>2
          <6> QED
            BY <3>3, <3>4, <6>1
        <5> QED
          BY <5>1, <5>2
      <4>4. Good(q, m)
        BY <3>3, <4>2, <4>3
      <4> HIDE DEF Good
      <4> QED
        BY <3>1, <4>1, <4>4
    <3>6. CASE ~ Unexpired(s[m])
      <4>1. up[m] = p
        BY <3>1, <3>6
      <4> HIDE DEF p
      <4>2. Good(p, m)
        BY <3>2, <3>6
      <4> HIDE DEF Good
      <4> QED
        BY <3>1, <4>1, <4>2
    <3> QED
      BY <3>5, <3>6
  <2> HIDE DEF T, L
  <2>3. T \in SUBSET (0..L)
    BY DEF T
  <2>4. L \in T
    BY <1>0, <2>1, <2>2, <2>3, Induction
  <2> QED
    BY <2>4 DEF T
<1>4. Good(Live(s), L)
  <2> HIDE DEF Good, Defines
  <2> QED
    BY <1>2, <1>3
<1> QED
  BY <1>4

\* A put leaves the new entry and otherwise only entries that were there.
LEMMA PutEntries ==
  ASSUME intelCache \in Seq(Entry), NEW entry \in Entry
  PROVE  /\ Put(entry) \in Seq(Entry)
         /\ \A i \in DOMAIN Put(entry) :
              Put(entry)[i] = entry \/ \E j \in DOMAIN intelCache : Put(entry)[i] = intelCache[j]
         /\ \E i \in DOMAIN Put(entry) : Put(entry)[i] = entry
<1> DEFINE from == Len(intelCache) - MaxEntries + 2
           roomy == IF Len(intelCache) < MaxEntries THEN intelCache ELSE SubSeq(intelCache, from, Len(intelCache))
           same == {i \in DOMAIN roomy : roomy[i].key = entry.key}
<1>1. /\ roomy \in Seq(Entry)
      /\ \A i \in DOMAIN roomy : \E j \in DOMAIN intelCache : roomy[i] = intelCache[j]
  <2>1. CASE Len(intelCache) < MaxEntries
    BY <2>1
  <2>2. CASE ~ (Len(intelCache) < MaxEntries)
    <3>1. from \in Nat /\ from >= 2 /\ Len(intelCache) \in Nat
      BY <2>2, EntriesAssumption
    <3>2. roomy = SubSeq(intelCache, from, Len(intelCache))
      BY <2>2
    <3> HIDE DEF from, roomy
    <3>3. roomy \in Seq(Entry)
      BY <3>1, <3>2
    <3>4. \A i \in DOMAIN roomy : from + i - 1 \in DOMAIN intelCache /\ roomy[i] = intelCache[from + i - 1]
      BY <3>1, <3>2
    <3> QED
      BY <3>3, <3>4
  <2> QED
    BY <2>1, <2>2
<1>2. Put(entry) = IF same = {} THEN Append(roomy, entry)
                   ELSE [i \in DOMAIN roomy |-> IF i \in same THEN entry ELSE roomy[i]]
  BY DEF Put
<1> HIDE DEF roomy
<1>3. Len(roomy) \in Nat /\ DOMAIN roomy = 1..Len(roomy) /\ \A i \in 1..Len(roomy) : roomy[i] \in Entry
  BY <1>1
<1>4. CASE same = {}
  <2>1. /\ Append(roomy, entry) \in Seq(Entry)
        /\ DOMAIN Append(roomy, entry) = 1..(Len(roomy) + 1)
        /\ \A i \in 1..(Len(roomy) + 1) : Append(roomy, entry)[i] = IF i <= Len(roomy) THEN roomy[i] ELSE entry
    BY <1>1
  <2>2. Len(roomy) + 1 \in 1..(Len(roomy) + 1) /\ ~ (Len(roomy) + 1 <= Len(roomy))
    BY <1>3
  <2> HIDE DEF same
  <2> QED
    BY <1>1, <1>2, <1>3, <1>4, <2>1, <2>2
<1>5. CASE same # {}
  <2> DEFINE replaced == [i \in 1..Len(roomy) |-> IF i \in same THEN entry ELSE roomy[i]]
  <2>1. Put(entry) = replaced
    BY <1>2, <1>3, <1>5
  <2>2. same \subseteq 1..Len(roomy)
    BY <1>3
  <2> HIDE DEF same
  <2>3. replaced \in Seq(Entry)
    BY <1>3
  <2>4. DOMAIN replaced = 1..Len(roomy)
    OBVIOUS
  <2>5. \A i \in 1..Len(roomy) : replaced[i] = entry \/ replaced[i] = roomy[i]
    OBVIOUS
  <2>6. \E i \in 1..Len(roomy) : replaced[i] = entry
    BY <1>5, <2>2
  <2> HIDE DEF replaced
  <2> QED
    BY <1>1, <1>3, <2>1, <2>3, <2>4, <2>5, <2>6
<1> QED
  BY <1>4, <1>5

-----------------------------------------------------------------------------
(* The invariant is kept.                                                    *)

\* Every entry is one that was there, whatever its age.
EntriesStay ==
  /\ intelCache' \in Seq(Entry)
  /\ \A i \in DOMAIN intelCache' : \E j \in DOMAIN intelCache :
       intelCache'[i].key = intelCache[j].key /\ intelCache'[i].answer = intelCache[j].answer

DoneStay ==
  \A c \in Calls : pc[c] = "done" =>
    pc'[c] = "done" /\ topic'[c] = topic[c] /\ told'[c] = told[c] /\ (c \in missing' => c \in missing)

LEMMA EntryIs ==
  ASSUME TypesInv, NEW i \in DOMAIN intelCache
  PROVE  /\ intelCache[i] \in Entry /\ intelCache[i].key \in Key /\ intelCache[i].left \in Nat
         /\ intelCache[i].answer.is = "whole" /\ intelCache[i].answer.by \in Calls
         /\ intelCache[i].answer = [is |-> "whole", by |-> intelCache[i].answer.by]
<1>1. intelCache[i] \in Entry
  BY DEF TypesInv
<1> QED
  BY <1>1 DEF Entry

LEMMA KeptStay ==
  ASSUME IInv, EntriesStay, DoneStay
  PROVE  KeptTrue'
<1> SUFFICES ASSUME NEW i \in DOMAIN intelCache' PROVE Genuine(intelCache[i])'
  BY DEF KeptTrue
<1>1. PICK j \in DOMAIN intelCache :
        intelCache'[i].key = intelCache[j].key /\ intelCache'[i].answer = intelCache[j].answer
  BY DEF EntriesStay
<1>2. Genuine(intelCache[j]) /\ intelCache[j].answer.by \in Calls
  BY EntryIs DEF IInv, KeptTrue
<1> QED
  BY <1>1, <1>2 DEF Genuine, DoneStay

LEMMA PrunedStay ==
  ASSUME IInv, intelCache' = Pruned
  PROVE  EntriesStay /\ \A l \in Calls : KeptFrom(l)' = KeptFrom(l)
<1>0. intelCache \in Seq(Entry) /\ intelCache' = Live(intelCache)
  BY DEF IInv, TypesInv, Pruned
<1>1. /\ intelCache' \in Seq(Entry)
      /\ \A i \in 1..Len(intelCache') : \E j \in 1..Len(intelCache) :
           Unexpired(intelCache[j]) /\ intelCache'[i] = intelCache[j]
      /\ \A j \in 1..Len(intelCache) : Unexpired(intelCache[j]) =>
           \E i \in 1..Len(intelCache') : intelCache'[i] = intelCache[j]
  <2>1. /\ Live(intelCache) \in Seq(Entry)
        /\ \A i \in 1..Len(Live(intelCache)) : \E j \in 1..Len(intelCache) :
             Unexpired(intelCache[j]) /\ Live(intelCache)[i] = intelCache[j]
        /\ \A j \in 1..Len(intelCache) : Unexpired(intelCache[j]) =>
             \E i \in 1..Len(Live(intelCache)) : Live(intelCache)[i] = intelCache[j]
    BY <1>0, LiveEntries
  <2> QED
    BY <1>0, <2>1
<1>2. DOMAIN intelCache = 1..Len(intelCache) /\ DOMAIN intelCache' = 1..Len(intelCache')
  <2>1. \A s \in Seq(Entry) : DOMAIN s = 1..Len(s)
    OBVIOUS
  <2> QED
    BY <1>0, <1>1, <2>1
<1>3. EntriesStay
  <2>1. \A i \in DOMAIN intelCache' : \E j \in DOMAIN intelCache : intelCache'[i] = intelCache[j]
    BY <1>1, <1>2
  <2> QED
    BY <1>1, <2>1 DEF EntriesStay
<1>4. ASSUME NEW l \in Calls PROVE KeptFrom(l)' <=> KeptFrom(l)
  <2>1. ASSUME KeptFrom(l)' PROVE KeptFrom(l)
    <3>1. PICK i \in 1..Len(intelCache') : intelCache'[i].answer.by = l
      BY <1>2, <2>1 DEF KeptFrom
    <3>2. PICK j \in 1..Len(intelCache) : Unexpired(intelCache[j]) /\ intelCache'[i] = intelCache[j]
      BY <1>1, <3>1
    <3> QED
      BY <1>2, <3>1, <3>2 DEF KeptFrom
  <2>2. ASSUME KeptFrom(l) PROVE KeptFrom(l)'
    <3>1. PICK j \in 1..Len(intelCache) : Unexpired(intelCache[j]) /\ intelCache[j].answer.by = l
      BY <1>2, <2>2 DEF KeptFrom
    <3>2. PICK i \in 1..Len(intelCache') : intelCache'[i] = intelCache[j]
      BY <1>1, <3>1
    <3>3. Unexpired(intelCache[i])'
      BY <3>1, <3>2 DEF Unexpired
    <3> QED
      BY <1>2, <3>1, <3>2, <3>3 DEF KeptFrom
  <2> QED
    BY <2>1, <2>2
<1> QED
  BY <1>3, <1>4 DEF KeptFrom

\* A call that is answered at once.
LEMMA AnsweredPreserves ==
  ASSUME IInv, NEW c \in Calls, NEW k \in Key, NEW a,
         a \in [is : {"whole", "cancelled"}, by : Calls \cup {None}],
         pc[c] = "idle", topic' = [topic EXCEPT ![c] = k], Tell({c}, a), EntriesStay,
         UNCHANGED <<inflight, waitsFor, warned, missing, aborted>>
  PROVE  IInv'
<1>1. told' = [told EXCEPT ![c] = a] /\ pc' = [pc EXCEPT ![c] = "done"]
  BY DEF Tell, IInv, TypesInv
<1>2. a.is # "nothing" /\ c \notin missing
  BY DEF IInv, CallsTrue
<1>3. TypesInv'
  BY <1>1 DEF IInv, TypesInv, EntriesStay
<1>4. CallsTrue'
  BY <1>1, <1>2 DEF IInv, TypesInv, CallsTrue
<1>5. JoinedTrue' /\ InFlightTrue'
  BY <1>1 DEF IInv, TypesInv, JoinedTrue, InFlightTrue
<1>6. DoneStay
  BY <1>1 DEF IInv, TypesInv, DoneStay
<1> QED
  BY <1>3, <1>4, <1>5, <1>6, KeptStay DEF IInv

LEMMA JoinPreserves ==
  ASSUME IInv, NEW c \in Calls, c \notin Guarded, NEW k \in Key, NEW l \in InFlight(k),
         pc[c] = "idle", topic' = [topic EXCEPT ![c] = k], EntriesStay,
         pc' = [pc EXCEPT ![c] = "joined"], waitsFor' = [waitsFor EXCEPT ![c] = l],
         UNCHANGED <<inflight, told, warned, missing, aborted>>
  PROVE  IInv'
<1>1. l \in Calls \ Guarded /\ pc[l] = "loading" /\ topic[l] = k /\ l # c
  BY DEF IInv, TypesInv, InFlightTrue, InFlight
<1>2. TypesInv'
  BY <1>1 DEF IInv, TypesInv, EntriesStay
<1>3. CallsTrue'
  BY DEF IInv, TypesInv, CallsTrue
<1>4. JoinedTrue' /\ InFlightTrue'
  BY <1>1 DEF IInv, TypesInv, JoinedTrue, InFlightTrue
<1>5. DoneStay
  BY DEF IInv, TypesInv, DoneStay
<1> QED
  BY <1>2, <1>3, <1>4, <1>5, KeptStay DEF IInv

LEMMA StartPreserves ==
  ASSUME IInv, NEW c \in Calls, NEW k \in Key,
         pc[c] = "idle", topic' = [topic EXCEPT ![c] = k], EntriesStay, StartLoad(c, k),
         UNCHANGED <<warned, missing, aborted>>
  PROVE  IInv'
<1>1. /\ pc' = [pc EXCEPT ![c] = "loading"] /\ UNCHANGED <<waitsFor, told>>
      /\ inflight' = inflight \/ (c \notin Guarded /\ inflight' = inflight \cup {c})
  BY DEF StartLoad, Shares
<1>2. c \notin missing /\ told[c] = Nothing
  BY DEF IInv, CallsTrue
<1>3. TypesInv'
  BY <1>1 DEF IInv, TypesInv, EntriesStay
<1>4. CallsTrue'
  BY <1>1, <1>2 DEF IInv, TypesInv, CallsTrue
<1>5. JoinedTrue' /\ InFlightTrue'
  BY <1>1 DEF IInv, TypesInv, JoinedTrue, InFlightTrue
<1>6. DoneStay
  BY <1>1 DEF IInv, TypesInv, DoneStay
<1> QED
  BY <1>3, <1>4, <1>5, <1>6, KeptStay DEF IInv

\* What withIntelCache does with a call, case by case.
LEMMA WithIntelCacheIs ==
  ASSUME IInv, NEW c \in Calls, NEW k \in Key, WithIntelCache(c, k)
  PROVE  /\ pc[c] = "idle" /\ topic' = [topic EXCEPT ![c] = k] /\ UNCHANGED <<warned, missing, aborted>>
         /\ EntriesStay /\ \A l \in Calls : KeptFrom(l)' = KeptFrom(l)
         /\ \/ c \in aborted /\ Tell({c}, Answer("cancelled", None)) /\ UNCHANGED <<inflight, waitsFor>>
            \/ /\ c \notin aborted
               /\ \E l \in Calls : /\ KeptFrom(l) /\ topic[l] = k /\ told[l] = Answer("whole", l) /\ l \notin missing
                                    /\ pc[l] = "done" /\ Tell({c}, Answer("whole", l))
               /\ UNCHANGED <<inflight, waitsFor>>
            \/ /\ c \notin Guarded
               /\ \E l \in InFlight(k) : waitsFor' = [waitsFor EXCEPT ![c] = l]
               /\ pc' = [pc EXCEPT ![c] = "joined"] /\ UNCHANGED <<inflight, told>>
            \/ StartLoad(c, k)
<1>1. pc[c] = "idle" /\ topic' = [topic EXCEPT ![c] = k] /\ UNCHANGED <<warned, missing, aborted>>
  BY DEF WithIntelCache
<1>2. CASE /\ c \in aborted /\ Tell({c}, Answer("cancelled", None))
           /\ UNCHANGED <<intelCache, inflight, waitsFor, unresolved, outstanding>>
  <2>1. EntriesStay
    BY <1>2 DEF EntriesStay, IInv, TypesInv
  <2>2. \A l \in Calls : KeptFrom(l)' = KeptFrom(l)
    BY <1>2 DEF KeptFrom
  <2> QED
    BY <1>1, <1>2, <2>1, <2>2
<1>3. CASE /\ c \notin aborted /\ intelCache' = Pruned
           /\ \E i \in Kept(k) : Tell({c}, Pruned[i].answer)
           /\ UNCHANGED <<inflight, waitsFor, unresolved, outstanding>>
  <2>1. PICK i \in Kept(k) : Tell({c}, Pruned[i].answer)
    BY <1>3
  <2>2. PICK j \in DOMAIN intelCache : Unexpired(intelCache[j]) /\ Pruned[i] = intelCache[j]
    <3>1. intelCache \in Seq(Entry) /\ DOMAIN intelCache = 1..Len(intelCache)
      BY DEF IInv, TypesInv
    <3>2. Live(intelCache) \in Seq(Entry)
      BY <3>1, LiveEntries
    <3>3. i \in 1..Len(Live(intelCache))
      BY <3>2 DEF Kept, Pruned
    <3> QED
      BY <3>1, <3>3, LiveEntries DEF Pruned
  <2> DEFINE l == intelCache[j].answer.by
  <2>3. l \in Calls /\ intelCache[j].answer = Answer("whole", l) /\ intelCache[j].key = k
    BY <2>2, EntryIs DEF IInv, Kept, Answer
  <2>4. KeptFrom(l)
    BY <2>2 DEF KeptFrom
  <2>5. topic[l] = k /\ told[l] = Answer("whole", l) /\ l \notin missing /\ pc[l] = "done"
    BY <2>3 DEF IInv, KeptTrue, Genuine
  <2>6. Tell({c}, Answer("whole", l))
    BY <2>1, <2>2, <2>3
  <2> HIDE DEF l
  <2> QED
    BY <1>1, <1>3, <2>3, <2>4, <2>5, <2>6, PrunedStay
<1>4. CASE /\ c \notin aborted /\ intelCache' = Pruned /\ Shares(c)
           /\ \E l \in InFlight(k) : waitsFor' = [waitsFor EXCEPT ![c] = l]
           /\ pc' = [pc EXCEPT ![c] = "joined"] /\ UNCHANGED <<inflight, told, unresolved, outstanding>>
  BY <1>1, <1>4, PrunedStay DEF Shares
<1>5. CASE c \notin aborted /\ intelCache' = Pruned /\ StartLoad(c, k)
  BY <1>1, <1>5, PrunedStay
<1> QED
  BY <1>2, <1>3, <1>4, <1>5 DEF WithIntelCache

LEMMA WithIntelCachePreserves ==
  ASSUME IInv, NEW c \in Calls, NEW k \in Key, WithIntelCache(c, k)
  PROVE  IInv'
<1>1. Answer("cancelled", None) \in [is : {"whole", "cancelled"}, by : Calls \cup {None}]
  BY DEF Answer
<1>2. \A l \in Calls : Answer("whole", l) \in [is : {"whole", "cancelled"}, by : Calls \cup {None}]
  BY DEF Answer
<1>3. ASSUME NEW a \in [is : {"whole", "cancelled"}, by : Calls \cup {None}], Tell({c}, a),
             UNCHANGED <<inflight, waitsFor>>
      PROVE  IInv'
  BY <1>3, WithIntelCacheIs, AnsweredPreserves
<1>4. ASSUME c \notin Guarded, NEW l \in InFlight(k), waitsFor' = [waitsFor EXCEPT ![c] = l],
             pc' = [pc EXCEPT ![c] = "joined"], UNCHANGED <<inflight, told>>
      PROVE  IInv'
  BY <1>4, WithIntelCacheIs, JoinPreserves
<1>5. CASE StartLoad(c, k)
  BY <1>5, WithIntelCacheIs, StartPreserves
<1> QED
  BY <1>1, <1>2, <1>3, <1>4, <1>5, WithIntelCacheIs

-----------------------------------------------------------------------------
(* The end of a load.                                                        *)

\* Those who await a load that runs wait for its key; none is cancelled with it.
LEMMA ListenersWait ==
  ASSUME IInv, NEW l \in Calls, pc[l] = "loading"
  PROVE  /\ Listeners(l) \subseteq Calls /\ l \in Listeners(l)
         /\ \A c \in Listeners(l) : topic[c] = topic[l] /\ topic[c] \in Key /\ told[c] = Nothing
         /\ \A c \in Listeners(l) \ {l} : pc[c] = "joined" /\ c \notin aborted /\ c \notin missing
         /\ l \in Guarded => Listeners(l) = {l}
BY DEF Listeners, IInv, TypesInv, CallsTrue, JoinedTrue

\* A handle is given out by calls with a store of their own only.
Outcomes(l) ==
  {a \in [is : {"whole", "marked", "handle", "failed"}, by : {l}] : a.is = "handle" => l \in Guarded}
NewEntry(l) == [key |-> topic[l], answer |-> Answer("whole", l), left |-> TtlOf(topic[l])]

\* How a load ends: all who wait for it are told the same; a whole answer is kept.
Ends(l, a) ==
  /\ inflight' = inflight \ {l} /\ Tell(Listeners(l), a)
  /\ intelCache' = IF a.is = "whole" THEN Put(NewEntry(l)) ELSE intelCache

LEMMA ReturnIs ==
  ASSUME NEW l \in Calls, NEW answers \in SUBSET Outcomes(l), Return(l, answers)
  PROVE  \/ l \in aborted /\ Ends(l, Answer("cancelled", None))
         \/ l \notin aborted /\ \E a \in answers : Ends(l, a) /\ (a.is = "whole" => a = Answer("whole", l))
<1>1. CASE l \in aborted
  BY <1>1 DEF Return, Reject, Ends, Answer
<1>2. CASE l \notin aborted
  <2>1. PICK a \in answers : Settle(l, a)
    BY <1>2 DEF Return
  <2>2. a \in Outcomes(l)
    OBVIOUS
  <2>3. a.is = "whole" => a = Answer("whole", l)
    BY <2>2 DEF Outcomes, Answer
  <2>4. Complete(a) <=> a.is = "whole"
    BY <2>2 DEF Outcomes, Complete
  <2>5. Ends(l, a)
    BY <2>1, <2>3, <2>4 DEF Settle, Ends, NewEntry
  <2> QED
    BY <1>2, <2>3, <2>5
<1> QED
  BY <1>1, <1>2

\* An end keeps the invariant, as long as no load that missed something is whole.
LEMMA EndPreserves ==
  ASSUME IInv, NEW l \in Calls, pc[l] = "loading", NEW a, a = Answer("cancelled", None) \/ a \in Outcomes(l),
         Ends(l, a), a.is = "whole" => a = Answer("whole", l) /\ l \notin missing',
         UNCHANGED <<topic, waitsFor, aborted>>,
         missing' \in {missing, missing \cup {l}}, warned' \in {warned, warned \cup {l}}
  PROVE  IInv'
<1> DEFINE D == Listeners(l)
<1>1. /\ D \subseteq Calls /\ l \in D
      /\ \A c \in D : topic[c] \in Key /\ topic[c] = topic[l] /\ told[c] = Nothing
      /\ \A c \in D \ {l} : pc[c] = "joined" /\ c \notin missing
      /\ \A c \in Calls : pc[c] = "joined" /\ waitsFor[c] = l => c \in D
  BY ListenersWait DEF Listeners
<1>2. /\ told' = [c \in Calls |-> IF c \in D THEN a ELSE told[c]]
      /\ pc' = [c \in Calls |-> IF c \in D THEN "done" ELSE pc[c]]
      /\ inflight' = inflight \ {l}
      /\ intelCache' = IF a.is = "whole" THEN Put(NewEntry(l)) ELSE intelCache
  BY DEF Ends, Tell
<1> HIDE DEF D
<1>3. /\ a \in [is : {"whole", "marked", "handle", "failed", "cancelled"}, by : Calls \cup {None}]
      /\ a.is # "nothing"
  BY DEF Outcomes, Answer
<1>4. intelCache \in Seq(Entry) /\ (a.is = "whole" => NewEntry(l) \in Entry)
  <2>1. topic[l] \in Key /\ TtlOf(topic[l]) \in Nat
    BY <1>1, EntriesAssumption DEF TtlOf
  <2>2. Answer("whole", l) \in [is : {"whole"}, by : Calls]
    BY DEF Answer
  <2>3. NewEntry(l) \in Entry
    BY <2>1, <2>2 DEF NewEntry, Entry
  <2> QED
    BY <2>3 DEF IInv, TypesInv
<1>5. TypesInv'
  <2>1. intelCache' \in Seq(Entry)
    BY <1>2, <1>4, PutEntries
  <2> QED
    BY <1>1, <1>2, <1>3, <2>1 DEF IInv, TypesInv
<1>6. CallsTrue'
  BY <1>1, <1>2, <1>3 DEF IInv, TypesInv, CallsTrue
<1>7. JoinedTrue' /\ InFlightTrue'
  <2>1. ASSUME NEW c \in Calls, pc'[c] = "joined"
        PROVE  /\ waitsFor[c] \in Calls \ Guarded
               /\ pc'[waitsFor[c]] = "loading" /\ topic[waitsFor[c]] = topic[c]
    <3>1. c \notin D /\ pc[c] = "joined"
      BY <1>2, <2>1
    <3>2. waitsFor[c] \in Calls \ Guarded /\ pc[waitsFor[c]] = "loading" /\ topic[waitsFor[c]] = topic[c]
      BY <3>1 DEF IInv, JoinedTrue
    <3>3. waitsFor[c] \notin D
      BY <1>1, <3>1, <3>2
    <3> QED
      BY <1>2, <3>2, <3>3
  <2>2. InFlightTrue'
    BY <1>1, <1>2 DEF IInv, TypesInv, InFlightTrue
  <2> QED
    BY <2>1, <2>2 DEF JoinedTrue
<1>8. KeptTrue'
  <2>1. \A i \in DOMAIN intelCache' :
           (a.is = "whole" /\ intelCache'[i] = NewEntry(l)) \/ \E j \in DOMAIN intelCache : intelCache'[i] = intelCache[j]
    BY <1>2, <1>4, PutEntries
  <2> SUFFICES ASSUME NEW i \in DOMAIN intelCache' PROVE Genuine(intelCache[i])'
    BY DEF KeptTrue
  <2>2. CASE a.is = "whole" /\ intelCache'[i] = NewEntry(l)
    <3>1. intelCache'[i].key = topic[l] /\ intelCache'[i].answer = Answer("whole", l) /\ Answer("whole", l).by = l
      BY <2>2 DEF NewEntry, Answer
    <3> QED
      BY <1>1, <1>2, <2>2, <3>1 DEF Genuine
  <2>3. ASSUME NEW j \in DOMAIN intelCache, intelCache'[i] = intelCache[j] PROVE Genuine(intelCache[i])'
    <3>1. Genuine(intelCache[j]) /\ intelCache[j].answer.by \in Calls
      BY EntryIs DEF IInv, KeptTrue
    <3>2. intelCache[j].answer.by \notin D
      BY <1>1, <3>1 DEF Genuine
    <3>3. intelCache[j].answer.by \notin missing'
      BY <1>1, <3>1, <3>2 DEF Genuine
    <3> QED
      BY <1>2, <2>3, <3>1, <3>2, <3>3 DEF Genuine
  <2> QED
    BY <2>1, <2>2, <2>3
<1> QED
  BY <1>5, <1>6, <1>7, <1>8 DEF IInv

\* A load that goes on: only what it has missed and what it warns of may grow.
LEMMA GoingOnPreserves ==
  ASSUME IInv, NEW l \in Calls, pc[l] = "loading",
         UNCHANGED <<intelCache, inflight, topic, pc, waitsFor, aborted, told>>,
         warned' \in {warned, warned \cup {l}}, missing' = missing \/ (missing' = missing \cup {l} /\ l \in warned')
  PROVE  IInv'
<1>1. EntriesStay /\ DoneStay
  BY DEF EntriesStay, DoneStay, IInv, TypesInv
<1>2. TypesInv' /\ JoinedTrue' /\ InFlightTrue'
  BY DEF IInv, TypesInv, JoinedTrue, InFlightTrue
<1>3. CallsTrue'
  BY DEF IInv, CallsTrue
<1> QED
  BY <1>1, <1>2, <1>3, KeptStay DEF IInv

\* What a handler does with a name or a source: it goes on, or the load ends.
LEMMA ResolveIs ==
  ASSUME IInv, NEW l \in Calls, NEW name, Resolve(l, name)
  PROVE  /\ pc[l] = "loading" /\ UNCHANGED <<topic, waitsFor, aborted>>
         /\ \/ /\ UNCHANGED <<intelCache, inflight, pc, told, missing>>
               /\ warned' \in {warned, warned \cup {l}}
            \/ /\ missing' = missing \cup {l} /\ warned' = warned
               /\ \/ l \in aborted /\ Ends(l, Answer("cancelled", None))
                  \/ l \notin aborted /\ \E a \in Outcomes(l) : Ends(l, a) /\ a.is # "whole"
<1>1. Answer("failed", l) \in Outcomes(l) /\ Answer("failed", l).is # "whole"
  BY DEF Answer, Outcomes
<1>2. Return(l, {Answer("failed", l)}) =>
        \/ l \in aborted /\ Ends(l, Answer("cancelled", None))
        \/ l \notin aborted /\ Ends(l, Answer("failed", l))
  BY <1>1, ReturnIs
<1> QED
  BY <1>1, <1>2 DEF Resolve

LEMMA FetchIs ==
  ASSUME IInv, NEW l \in Calls, NEW source, NEW arrives \in BOOLEAN, FetchWithWarning(l, source, arrives)
  PROVE  /\ pc[l] = "loading" /\ UNCHANGED <<topic, waitsFor, aborted>>
         /\ warned' \in {warned, warned \cup {l}}
         /\ missing' = missing \/ (missing' = missing \cup {l} /\ l \in warned')
         /\ \/ UNCHANGED <<intelCache, inflight, pc, told>>
            \/ l \in aborted /\ l \in missing' /\ Ends(l, Answer("cancelled", None))
            \/ /\ l \notin aborted
               /\ \E a \in Outcomes(l) : Ends(l, a) /\ (a.is = "whole" => a = Answer("whole", l) /\ l \notin warned')
<1>1. /\ pc[l] = "loading" /\ UNCHANGED <<topic, waitsFor, aborted>>
      /\ arrives => l \notin aborted
      /\ missing' = (IF arrives THEN missing ELSE missing \cup {l})
      /\ warned' = (IF arrives THEN warned ELSE warned \cup {l})
  BY DEF FetchWithWarning
<1>2. CASE UNCHANGED <<intelCache, inflight, pc, told>>
  BY <1>1, <1>2
<1>3. ASSUME NEW remark \in Remarks(l), Return(l, Delivered(l, l \in warned' \/ remark))
      PROVE  \/ l \in aborted /\ Ends(l, Answer("cancelled", None))
             \/ /\ l \notin aborted
                /\ \E a \in Outcomes(l) : Ends(l, a) /\ (a.is = "whole" => a = Answer("whole", l) /\ l \notin warned')
  <2>1. ASSUME NEW warns PROVE Delivered(l, warns) \in SUBSET Outcomes(l)
    BY DEF Delivered, Outcomes, Answer
  <2>2. CASE l \in warned'
    <3>1. Return(l, Delivered(l, TRUE))
      <4>1. (l \in warned' \/ remark) = TRUE
        BY <2>2
      <4> QED
        BY <1>3, <4>1
    <3>2. \A a \in Delivered(l, TRUE) : a.is # "whole"
      BY DEF Delivered, Answer
    <3> QED
      BY <2>1, <3>1, <3>2, ReturnIs
  <2>3. CASE l \notin warned'
    BY <1>3, <2>1, <2>3, ReturnIs
  <2> QED
    BY <2>2, <2>3
<1> QED
  BY <1>1, <1>2, <1>3 DEF FetchWithWarning

LEMMA ResolvePreserves ==
  ASSUME IInv, NEW l \in Calls, NEW name, Resolve(l, name)
  PROVE  IInv'
<1>1. CASE UNCHANGED <<intelCache, inflight, pc, told, missing>> /\ warned' \in {warned, warned \cup {l}}
  BY <1>1, ResolveIs, GoingOnPreserves
<1>2. CASE missing' = missing \cup {l} /\ warned' = warned /\ Ends(l, Answer("cancelled", None))
  <2>1. Answer("cancelled", None).is # "whole"
    BY DEF Answer
  <2> QED
    BY <1>2, <2>1, ResolveIs, EndPreserves
<1>3. CASE missing' = missing \cup {l} /\ warned' = warned /\ \E a \in Outcomes(l) : Ends(l, a) /\ a.is # "whole"
  BY <1>3, ResolveIs, EndPreserves
<1> QED
  BY <1>1, <1>2, <1>3, ResolveIs

LEMMA FetchPreserves ==
  ASSUME IInv, NEW l \in Calls, NEW source, NEW arrives \in BOOLEAN, FetchWithWarning(l, source, arrives)
  PROVE  IInv'
<1>1. /\ pc[l] = "loading" /\ UNCHANGED <<topic, waitsFor, aborted>>
      /\ warned' \in {warned, warned \cup {l}}
      /\ missing' = missing \/ (missing' = missing \cup {l} /\ l \in warned')
  BY FetchIs
<1>2. CASE UNCHANGED <<intelCache, inflight, pc, told>>
  BY <1>1, <1>2, GoingOnPreserves
<1>3. CASE Ends(l, Answer("cancelled", None))
  <2>1. Answer("cancelled", None).is # "whole"
    BY DEF Answer
  <2> QED
    BY <1>1, <1>3, <2>1, EndPreserves
<1>4. ASSUME NEW a \in Outcomes(l), Ends(l, a), a.is = "whole" => a = Answer("whole", l) /\ l \notin warned'
      PROVE  IInv'
  <2>1. l \notin warned' => l \notin missing'
    BY <1>1 DEF IInv, CallsTrue
  <2> QED
    BY <1>1, <1>4, <2>1, EndPreserves
<1> QED
  BY <1>2, <1>3, <1>4, FetchIs

LEMMA AbortPreserves ==
  ASSUME IInv, NEW c \in Calls, Abort(c)
  PROVE  IInv'
<1>1. EntriesStay /\ DoneStay
  BY DEF EntriesStay, DoneStay, IInv, TypesInv, Abort, cacheVars, loadVars
<1> QED
  BY <1>1, KeptStay DEF Abort, cacheVars, loadVars, IInv, TypesInv, CallsTrue, JoinedTrue, InFlightTrue

LEMMA ClearPreserves ==
  ASSUME IInv, ClearIntelCache
  PROVE  IInv'
<1>1. EntriesStay /\ DoneStay
  BY DEF EntriesStay, DoneStay, ClearIntelCache, loadVars, callVars
<1> QED
  BY <1>1, KeptStay
     DEF ClearIntelCache, loadVars, callVars, EntriesStay, IInv, TypesInv, CallsTrue, JoinedTrue, InFlightTrue

\* Time passes for every entry, and revives none.
LEMMA TickAges ==
  ASSUME IInv, Tick
  PROVE  EntriesStay /\ \A l \in Calls : KeptFrom(l)' => KeptFrom(l)
<1> DEFINE n == Len(intelCache)
           left(i) == IF intelCache[i].left > 0 THEN intelCache[i].left - 1 ELSE 0
<1>1. n \in Nat /\ DOMAIN intelCache = 1..n /\ \A i \in 1..n : intelCache[i] \in Entry
  BY DEF IInv, TypesInv
<1>2. intelCache' = [i \in 1..n |-> [intelCache[i] EXCEPT !.left = left(i)]]
  BY <1>1 DEF Tick
<1>3. \A e \in Entry : \A m \in Nat :
        /\ [e EXCEPT !.left = m] \in Entry /\ [e EXCEPT !.left = m].left = m
        /\ [e EXCEPT !.left = m].key = e.key /\ [e EXCEPT !.left = m].answer = e.answer
  BY DEF Entry
<1>4. \A i \in 1..n : left(i) \in Nat /\ (left(i) > 0 => intelCache[i].left > 0)
  <2>1. \A e \in Entry : e.left \in Nat
    BY DEF Entry
  <2> HIDE DEF n
  <2> QED
    BY <1>1, <2>1
<1> HIDE DEF n, left
<1>5. \A i \in 1..n : /\ intelCache'[i] \in Entry /\ intelCache'[i].left = left(i)
                      /\ intelCache'[i].key = intelCache[i].key /\ intelCache'[i].answer = intelCache[i].answer
  BY <1>1, <1>2, <1>3, <1>4
<1>6. DOMAIN intelCache' = 1..n /\ intelCache' \in Seq(Entry)
  <2>1. DOMAIN intelCache' = 1..n /\ intelCache' = [i \in 1..n |-> intelCache'[i]]
    BY <1>2
  <2>2. \A s \in [1..n -> Entry] : s \in Seq(Entry)
    BY <1>1
  <2>3. intelCache' \in [1..n -> Entry]
    BY <1>5, <2>1
  <2> QED
    BY <2>1, <2>2, <2>3
<1>7. EntriesStay
  BY <1>1, <1>5, <1>6 DEF EntriesStay
<1>8. \A l \in Calls : KeptFrom(l)' => KeptFrom(l)
  BY <1>1, <1>4, <1>5, <1>6 DEF KeptFrom, Unexpired
<1> QED
  BY <1>7, <1>8

LEMMA TickPreserves ==
  ASSUME IInv, Tick
  PROVE  IInv'
<1>1. EntriesStay /\ UNCHANGED <<inflight, topic, pc, waitsFor, told, aborted, warned, missing>>
  BY TickAges DEF Tick, loadVars, callVars
<1>2. DoneStay
  BY <1>1 DEF DoneStay
<1> QED
  BY <1>1, <1>2, KeptStay DEF EntriesStay, IInv, TypesInv, CallsTrue, JoinedTrue, InFlightTrue

LEMMA NextPreserves == IInv /\ [Next]_vars => IInv'
<1> SUFFICES ASSUME IInv, [Next]_vars PROVE IInv'
  OBVIOUS
<1>1. \A c \in Calls : \A k \in MayAsk[c] : k \in Key
  BY MayAskAssumption
<1>2. CASE Next
  BY <1>1, <1>2, WithIntelCachePreserves, ResolvePreserves, FetchPreserves, AbortPreserves, ClearPreserves,
     TickPreserves DEF Next
<1>3. CASE UNCHANGED vars
  BY <1>3 DEF vars, cacheVars, loadVars, callVars, IInv, TypesInv, CallsTrue, JoinedTrue, InFlightTrue, KeptTrue, Genuine
<1> QED
  BY <1>2, <1>3

LEMMA Invariance == Spec => []IInv
BY InitEstablishes, NextPreserves, PTL DEF Spec

-----------------------------------------------------------------------------
(* The steps of the tools as steps of SharedResult.                          *)

Load == [l \in Calls |-> LoadOf(l)]

LEMMA LoadsAre ==
  ASSUME IInv, NEW l \in Calls
  PROVE  /\ Load[l] = "running" <=> pc[l] = "loading"
         /\ pc[l] \in {"idle", "joined"} => Load[l] = "none"
         /\ (pc[l] = "done" /\ told[l] = Answer("whole", l) /\ l \notin missing /\ KeptFrom(l)) => Load[l] = "whole"
  <1>1. pc[l] \in {"idle", "joined"} => told[l].by = None /\ l # None /\ l \notin missing
    BY NoneAssumption DEF IInv, CallsTrue, Nothing
  <1> QED
    BY <1>1 DEF Load, LoadOf, Answer

\* A load whose call is left alone changes at most from whole to gone.
LEMMA LoadStays ==
  ASSUME NEW l \in Calls, pc'[l] = pc[l], told'[l] = told[l], l \in missing' <=> l \in missing,
         KeptFrom(l)' => KeptFrom(l)
  PROVE  /\ Load'[l] = Load[l] \/ (Load[l] = "whole" /\ Load'[l] = "gone")
         /\ KeptFrom(l)' = KeptFrom(l) => Load'[l] = Load[l]
BY DEF Load, LoadOf

LEMMA InitRefines == Init => Shared!Init
BY NoneAssumption DEF Init, Shared!Init, LoadOf, Nothing, Shared!Nothing

LEMMA WithIntelCacheRefines ==
  ASSUME IInv, NEW c \in Calls, NEW k \in Key, WithIntelCache(c, k)
  PROVE  Shared!Next
<1>1. /\ pc[c] = "idle" /\ topic[c] = None /\ told[c] = Nothing /\ c \notin missing
      /\ topic' = [topic EXCEPT ![c] = k] /\ UNCHANGED <<warned, missing, aborted>>
      /\ \A l \in Calls : KeptFrom(l)' = KeptFrom(l)
  BY WithIntelCacheIs DEF IInv, CallsTrue
<1> SUFFICES \/ /\ c \in aborted /\ told' = [told EXCEPT ![c] = Answer("cancelled", None)] /\ Load' = Load
             \/ \E l \in Calls : /\ Load[l] = "whole" /\ topic[l] = k /\ c \notin aborted
                                 /\ told' = [told EXCEPT ![c] = Answer("whole", l)] /\ Load' = Load
             \/ \E l \in Calls : Load[l] = "running" /\ topic[l] = k /\ UNCHANGED <<Load, told>>
             \/ Load' = [Load EXCEPT ![c] = "running"] /\ told' = told
  BY <1>1 DEF Shared!Next, Shared!Ask, Answer, Load
<1>2. \A l \in Calls \ {c} : pc'[l] = pc[l] /\ told'[l] = told[l] => Load'[l] = Load[l]
  BY <1>1, LoadStays
\* an answer given at once, by another's load or by none, leaves the loads as they are
<1>3. ASSUME NEW a, Tell({c}, a), a.by # c PROVE Load' = Load /\ told' = [told EXCEPT ![c] = a]
  <2>1. told' = [told EXCEPT ![c] = a] /\ pc' = [pc EXCEPT ![c] = "done"]
    BY <1>3 DEF Tell, IInv, TypesInv
  <2>2. \A l \in Calls \ {c} : Load'[l] = Load[l]
    BY <1>2, <2>1 DEF IInv, TypesInv
  <2>3. Load[c] = "none"
    BY <1>1, LoadsAre
  <2>4. Load'[c] = "none"
    BY <1>1, <1>3, <2>1 DEF Load, LoadOf, IInv, TypesInv
  <2> QED
    BY <2>1, <2>2, <2>3, <2>4 DEF Load
<1>4. CASE c \in aborted /\ Tell({c}, Answer("cancelled", None))
  <2>1. Answer("cancelled", None).by # c
    BY NoneAssumption DEF Answer
  <2> QED
    BY <1>3, <1>4, <2>1
<1>5. CASE /\ c \notin aborted
           /\ \E l \in Calls : /\ KeptFrom(l) /\ topic[l] = k /\ told[l] = Answer("whole", l) /\ l \notin missing
                                /\ pc[l] = "done" /\ Tell({c}, Answer("whole", l))
  <2>1. PICK l \in Calls : /\ KeptFrom(l) /\ topic[l] = k /\ told[l] = Answer("whole", l) /\ l \notin missing
                          /\ pc[l] = "done" /\ Tell({c}, Answer("whole", l))
    BY <1>5
  <2>2. Answer("whole", l).by # c /\ Load[l] = "whole"
    BY <1>1, <2>1, LoadsAre DEF Answer
  <2> QED
    BY <1>3, <1>5, <2>1, <2>2
<1>6. CASE /\ \E l \in InFlight(k) : waitsFor' = [waitsFor EXCEPT ![c] = l]
           /\ pc' = [pc EXCEPT ![c] = "joined"] /\ UNCHANGED <<inflight, told>>
  <2>1. PICK l \in InFlight(k) : TRUE
    BY <1>6
  <2>2. l \in Calls /\ Load[l] = "running" /\ topic[l] = k
    <3>1. l \in Calls /\ pc[l] = "loading" /\ topic[l] = k
      BY DEF InFlight, IInv, TypesInv, InFlightTrue
    <3> QED
      BY <3>1, LoadsAre
  <2>3. \A m \in Calls \ {c} : Load'[m] = Load[m]
    BY <1>2, <1>6 DEF IInv, TypesInv
  <2>4. Load[c] = "none"
    BY <1>1, LoadsAre
  <2>5. Load'[c] = "none"
    BY <1>1, <1>6, NoneAssumption DEF Load, LoadOf, Nothing, IInv, TypesInv
  <2>6. Load' = Load
    BY <2>3, <2>4, <2>5 DEF Load
  <2> QED
    BY <1>6, <2>2, <2>6
<1>7. CASE StartLoad(c, k)
  <2>1. pc' = [pc EXCEPT ![c] = "loading"] /\ told' = told
    BY <1>7 DEF StartLoad
  <2>2. \A m \in Calls \ {c} : Load'[m] = Load[m]
    BY <1>2, <2>1 DEF IInv, TypesInv
  <2>3. Load'[c] = "running"
    BY <2>1 DEF Load, LoadOf, IInv, TypesInv
  <2>4. Load' = [Load EXCEPT ![c] = "running"]
    BY <2>2, <2>3 DEF Load
  <2> QED
    BY <2>1, <2>4
<1> QED
  BY <1>4, <1>5, <1>6, <1>7, WithIntelCacheIs

\* The end of a load with an answer is a Settle of SharedResult: an answer that is
\* whole missed nothing and is kept, and what had to give way is gone.
LEMMA EndRefines ==
  ASSUME IInv, NEW l \in Calls, pc[l] = "loading", l \notin aborted, NEW a \in Outcomes(l), Ends(l, a),
         a.is = "whole" => a = Answer("whole", l) /\ l \notin missing',
         UNCHANGED <<topic, aborted>>, missing' \in {missing, missing \cup {l}}
  PROVE  Shared!Next
<1> DEFINE D == Listeners(l)
           outcome == a.is
<1>1. /\ D \subseteq Calls /\ l \in D /\ D \cap aborted = {}
      /\ \A c \in D : topic[c] = topic[l] /\ topic[c] # None /\ told[c] = Nothing
      /\ \A c \in D \ {l} : pc[c] = "joined" /\ c \notin missing
      /\ outcome = "handle" => D = {l}
  BY ListenersWait, NoneAssumption DEF Outcomes
<1>2. /\ told' = [c \in Calls |-> IF c \in D THEN a ELSE told[c]]
      /\ pc' = [c \in Calls |-> IF c \in D THEN "done" ELSE pc[c]]
      /\ intelCache' = IF outcome = "whole" THEN Put(NewEntry(l)) ELSE intelCache
  BY DEF Ends, Tell
<1>3. outcome \in {"whole", "marked", "handle", "failed"} /\ a = [is |-> outcome, by |-> l] /\ a.by = l
  BY DEF Outcomes
<1>4. /\ intelCache \in Seq(Entry) /\ NewEntry(l) \in Entry
      /\ NewEntry(l).answer.by = l /\ NewEntry(l).left > 0
  <2>1. topic[l] \in Key /\ TtlOf(topic[l]) \in Nat /\ TtlOf(topic[l]) > 0
    BY EntriesAssumption DEF TtlOf, IInv, CallsTrue
  <2>2. Answer("whole", l) \in [is : {"whole"}, by : Calls] /\ Answer("whole", l).by = l
    BY DEF Answer
  <2> QED
    BY <2>1, <2>2 DEF NewEntry, Entry, IInv, TypesInv
<1> HIDE DEF D, outcome
<1>5. \A k \in Calls \ {l} : KeptFrom(k)' => KeptFrom(k)
  <2> SUFFICES ASSUME NEW k \in Calls \ {l}, NEW i \in DOMAIN intelCache',
                      Unexpired(intelCache'[i]), intelCache'[i].answer.by = k
               PROVE  KeptFrom(k)
    BY DEF KeptFrom, Unexpired
  <2>1. (\E j \in DOMAIN intelCache : intelCache'[i] = intelCache[j]) \/ intelCache'[i] = NewEntry(l)
    BY <1>2, <1>4, PutEntries
  <2> QED
    BY <1>4, <2>1 DEF KeptFrom
<1>6. outcome = "whole" => KeptFrom(l)'
  <2> SUFFICES ASSUME outcome = "whole" PROVE KeptFrom(l)'
    OBVIOUS
  <2>1. PICK i \in DOMAIN intelCache' : intelCache'[i] = NewEntry(l)
    BY <1>2, <1>4, PutEntries
  <2> QED
    BY <1>4, <2>1 DEF KeptFrom, Unexpired
<1>7. Load'[l] = outcome
  <2>1. pc'[l] = "done" /\ told'[l] = a /\ told'[l].by = l /\ told'[l].is = outcome
    BY <1>1, <1>2, <1>3
  <2>2. outcome = "whole" => l \notin missing'
    BY DEF outcome
  <2> QED
    BY <1>3, <1>6, <2>1, <2>2 DEF Load, LoadOf
<1>8. ASSUME NEW k \in Calls \ {l}
      PROVE  Load'[k] = Load[k] \/ (Load[k] = "whole" /\ Load'[k] = "gone")
  <2>1. CASE k \in D
    <3>1. Load[k] = "none"
      BY <1>1, <2>1, LoadsAre
    <3>2. pc'[k] = "done" /\ told'[k].by # k /\ k \notin missing'
      BY <1>1, <1>2, <1>3, <2>1
    <3>3. Load'[k] = "none"
      BY <3>2 DEF Load, LoadOf
    <3> QED
      BY <3>1, <3>3
  <2>2. CASE k \notin D
    <3>1. pc'[k] = pc[k] /\ told'[k] = told[k] /\ (k \in missing' <=> k \in missing)
      BY <1>2, <2>2
    <3> QED
      BY <1>5, <3>1, LoadStays
  <2> QED
    BY <2>1, <2>2
<1> DEFINE old == {k \in Calls \ {l} : Load[k] = "whole" /\ Load'[k] = "gone"}
<1>9. /\ old \in SUBSET {k \in Calls : Load[k] = "whole"}
      /\ Load' = [k \in Calls |-> IF k = l THEN outcome ELSE IF k \in old THEN "gone" ELSE Load[k]]
  BY <1>7, <1>8 DEF Load
<1>10. \A c \in D : Shared!Waiting(c)
  BY <1>1 DEF Shared!Waiting, Shared!Nothing, Nothing
<1> HIDE DEF old
<1>11. Load[l] = "running"
  BY LoadsAre
<1>12. Shared!Settle(l, outcome, D)
  BY <1>1, <1>2, <1>3, <1>9, <1>10, <1>11 DEF Shared!Settle, Load
<1> QED
  BY <1>1, <1>3, <1>12 DEF Shared!Next

\* The end of an aborted load is a Withdraw.
LEMMA AbortedEndRefines ==
  ASSUME IInv, NEW l \in Calls, pc[l] = "loading", l \in aborted, Ends(l, Answer("cancelled", None)),
         UNCHANGED <<topic, aborted>>, l \in missing', missing' \in {missing, missing \cup {l}}
  PROVE  Shared!Next
<1>1. l \in Guarded /\ Listeners(l) = {l} /\ topic[l] # None /\ told[l] = Nothing
  BY ListenersWait, NoneAssumption DEF IInv, TypesInv
<1>2. /\ told' = [told EXCEPT ![l] = [is |-> "cancelled", by |-> None]] /\ pc' = [pc EXCEPT ![l] = "done"]
      /\ intelCache' = intelCache
  BY <1>1 DEF Ends, Tell, Answer, IInv, TypesInv
<1>3. Load'[l] = "gone"
  BY <1>2 DEF Load, LoadOf, IInv, TypesInv
<1>4. \A k \in Calls \ {l} : Load'[k] = Load[k]
  <2>1. \A k \in Calls \ {l} : pc'[k] = pc[k] /\ told'[k] = told[k] /\ (k \in missing' <=> k \in missing)
    BY <1>2 DEF IInv, TypesInv
  <2>2. \A k \in Calls : KeptFrom(k)' = KeptFrom(k)
    BY <1>2 DEF KeptFrom
  <2> QED
    BY <2>1, <2>2, LoadStays
<1>5. Load' = [Load EXCEPT ![l] = "gone"]
  BY <1>3, <1>4 DEF Load
<1>6. Shared!Withdraw(l)
  BY <1>1, <1>2, <1>5 DEF Shared!Withdraw, Shared!Waiting, Shared!Nothing, Nothing, Load
<1> QED
  BY <1>6 DEF Shared!Next

LEMMA GoingOnRefines ==
  ASSUME IInv, NEW l \in Calls, pc[l] = "loading",
         UNCHANGED <<intelCache, topic, pc, aborted, told>>, missing' \in {missing, missing \cup {l}}
  PROVE  UNCHANGED Shared!vars
<1>1. Load'[l] = Load[l]
  BY DEF Load, LoadOf
<1>2. \A k \in Calls \ {l} : Load'[k] = Load[k]
  BY LoadStays DEF KeptFrom
<1> QED
  BY <1>1, <1>2 DEF Load, Shared!vars

LEMMA ResolveRefines ==
  ASSUME IInv, NEW l \in Calls, NEW name, Resolve(l, name)
  PROVE  Shared!Next \/ UNCHANGED Shared!vars
<1>1. CASE UNCHANGED <<intelCache, inflight, pc, told, missing>>
  BY <1>1, ResolveIs, GoingOnRefines
<1>2. CASE missing' = missing \cup {l} /\ l \in aborted /\ Ends(l, Answer("cancelled", None))
  BY <1>2, ResolveIs, AbortedEndRefines
<1>3. CASE missing' = missing \cup {l} /\ l \notin aborted /\ \E a \in Outcomes(l) : Ends(l, a) /\ a.is # "whole"
  BY <1>3, ResolveIs, EndRefines
<1> QED
  BY <1>1, <1>2, <1>3, ResolveIs

LEMMA FetchRefines ==
  ASSUME IInv, NEW l \in Calls, NEW source, NEW arrives \in BOOLEAN, FetchWithWarning(l, source, arrives)
  PROVE  Shared!Next \/ UNCHANGED Shared!vars
<1>1. /\ pc[l] = "loading" /\ UNCHANGED <<topic, aborted>>
      /\ missing' \in {missing, missing \cup {l}}
      /\ l \notin warned' => l \notin missing'
  BY FetchIs DEF IInv, CallsTrue
<1>2. CASE UNCHANGED <<intelCache, inflight, pc, told>>
  BY <1>1, <1>2, GoingOnRefines
<1>3. CASE l \in aborted /\ l \in missing' /\ Ends(l, Answer("cancelled", None))
  BY <1>1, <1>3, AbortedEndRefines
<1>4. ASSUME NEW a \in Outcomes(l), l \notin aborted, Ends(l, a),
             a.is = "whole" => a = Answer("whole", l) /\ l \notin warned'
      PROVE  Shared!Next
  BY <1>1, <1>4, EndRefines
<1> QED
  BY <1>2, <1>3, <1>4, FetchIs

LEMMA AbortRefines ==
  ASSUME NEW c \in Calls, Abort(c)
  PROVE  Shared!Next
<1>1. c \in Guarded /\ aborted' = aborted \cup {c} /\ UNCHANGED <<topic, told, pc, missing, intelCache>>
  BY DEF Abort, cacheVars, loadVars
<1>2. Load' = Load
  BY <1>1 DEF Load, LoadOf, KeptFrom
<1>3. Shared!Abort(c)
  BY <1>1, <1>2 DEF Shared!Abort, Load
<1> QED
  BY <1>3 DEF Shared!Next

\* What expires or is cleared is forgotten.
LEMMA ForgetRefines ==
  ASSUME IInv, Tick \/ ClearIntelCache
  PROVE  Shared!Next \/ UNCHANGED Shared!vars
<1>1. UNCHANGED <<topic, pc, missing, aborted, told>>
  BY DEF Tick, ClearIntelCache, loadVars, callVars
<1>2. \A k \in Calls : KeptFrom(k)' => KeptFrom(k)
  <2>1. CASE Tick
    BY <2>1, TickAges
  <2>2. CASE ClearIntelCache
    BY <2>2 DEF ClearIntelCache, KeptFrom
  <2> QED
    BY <2>1, <2>2
<1>3. \A k \in Calls : Load'[k] = Load[k] \/ (Load[k] = "whole" /\ Load'[k] = "gone")
  BY <1>1, <1>2, LoadStays
<1> DEFINE old == {k \in Calls : Load[k] = "whole" /\ Load'[k] = "gone"}
<1>4. Load' = [k \in Calls |-> IF k \in old THEN "gone" ELSE Load[k]]
  BY <1>3 DEF Load
<1>5. CASE old = {}
  <2>1. Load' = Load
    BY <1>3, <1>5 DEF Load
  <2> QED
    BY <1>1, <2>1 DEF Load, Shared!vars
<1>6. CASE old # {}
  <2>1. old \in SUBSET Calls /\ \A k \in old : Load[k] = "whole"
    OBVIOUS
  <2> HIDE DEF old
  <2>2. Shared!Forget(old)
    BY <1>1, <1>4, <1>6, <2>1 DEF Shared!Forget, Load
  <2> QED
    BY <2>1, <2>2 DEF Shared!Next
<1> QED
  BY <1>5, <1>6

LEMMA StepRefines == IInv /\ [Next]_vars => [Shared!Next]_(Shared!vars)
<1> SUFFICES ASSUME IInv, [Next]_vars PROVE Shared!Next \/ UNCHANGED Shared!vars
  OBVIOUS
<1>1. \A c \in Calls : \A k \in MayAsk[c] : k \in Key
  BY MayAskAssumption
<1>2. CASE Next
  BY <1>1, <1>2, WithIntelCacheRefines, ResolveRefines, FetchRefines, AbortRefines, ForgetRefines DEF Next
<1>3. CASE UNCHANGED vars
  BY <1>3 DEF vars, cacheVars, loadVars, callVars, Shared!vars, LoadOf, KeptFrom
<1> QED
  BY <1>2, <1>3

\* THEOREM. For any calls, keys, times to live and sizes of the cache the tools keep
\* the promise of SharedResult: an answer is served to a later call, or to several,
\* only if every source it was computed from arrived (withIntelCache 46-121,
\* fetchWithWarning 164-176).
THEOREM ToolsServeCompleteAnswers == Spec => ServesCompleteAnswers
BY Invariance, InitRefines, StepRefines, PTL DEF Spec, ServesCompleteAnswers, Shared!Spec
=============================================================================
