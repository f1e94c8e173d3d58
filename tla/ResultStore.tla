------------------------------ MODULE ResultStore ------------------------------
(***************************************************************************)
(* The store of results that were too large to be delivered, and the calls  *)
(* of st_result_read that fetch them back chunk by chunk while others are    *)
(* put, evicted, expired or cleared (src/result-store.ts, readResult and     *)
(* clearResults of src/registry.ts).                                        *)
(***************************************************************************)
EXTENDS Naturals, Sequences, SequencesExt, FiniteSetsExt

CONSTANTS Results,          \* what is put: a result has the name of its text
          TotalChars,       \* length of a text
          Bytes,            \* its size in UTF-8
          Readers,          \* who calls st_result_read, each for one result at a time
          Capacity,         \* the 4 of put
          MaxBytes, Ttl,
          ChunkSize         \* chars of a chunk, from maxResponseChars

ASSUME TextsAssumption == TotalChars \in [Results -> Nat \ {0}] /\ Bytes \in [Results -> Nat \ {0}]
ASSUME ReadingAssumption == "none" \notin Results
ASSUME LimitsAssumption == {Capacity, Ttl, ChunkSize} \subseteq Nat \ {0} /\ MaxBytes \in Nat

VARIABLES values,   \* the Map, oldest first
          fate,     \* of a result: "new", "stored", "refused" (put threw)
          reading,  \* the result a reader asks for
          offset,   \* where its next chunk starts
          state,    \* "more", "whole" (nextOffset was null), "lost" (read threw)
          got,      \* the characters it was given, in order
          newest,   \* history: the results put last and not cleared since, if any
          age       \* history: ticks since then

storeVars == <<values, fate, reading, offset, state, got, newest, age>>

Text(r) == [i \in 1 .. TotalChars[r] |-> <<r, i>>]
Used(entries) ==
  LET sum[n \in 0 .. Len(entries)] ==
        IF n = 0 THEN 0 ELSE sum[n - 1] + Bytes[entries[n].id]
  IN  sum[Len(entries)]
Unexpired(entry) == entry.left > 0
Live(entries) ==
  LET upTo[n \in 0 .. Len(entries)] ==
        IF n = 0 THEN <<>>
        ELSE IF Unexpired(entries[n]) THEN Append(upTo[n - 1], entries[n]) ELSE upTo[n - 1]
  IN  upTo[Len(entries)]
Pruned == Live(values)

StoreInit ==
  /\ values = <<>> /\ fate = [r \in Results |-> "new"]
  /\ reading = [d \in Readers |-> "none"]
  /\ offset = [d \in Readers |-> 0]
  /\ state = [d \in Readers |-> "more"] /\ got = [d \in Readers |-> <<>>]
  /\ newest = {} /\ age = 0

-----------------------------------------------------------------------------
\* The loop of put drops the oldest until the new result has room.
RoomIgnoringBytes(entries, r) == Len(entries) < Capacity
Room(entries, r) == Len(entries) < Capacity /\ Used(entries) + Bytes[r] <= MaxBytes
Evicted(entries, r) ==
  LET Rest(n) == SubSeq(entries, n + 1, Len(entries))
  IN Rest(Min({n \in 0 .. Len(entries) : Room(Rest(n), r)}))

Put(r) ==
  /\ fate[r] = "new"
  /\ \/ /\ Bytes[r] > MaxBytes
        /\ fate' = [fate EXCEPT ![r] = "refused"] /\ values' = Pruned
        /\ UNCHANGED <<newest, age>>
     \/ /\ Bytes[r] <= MaxBytes
        /\ fate' = [fate EXCEPT ![r] = "stored"]
        /\ values' = Append(Evicted(Pruned, r), [id |-> r, left |-> Ttl])
        /\ newest' = {r} /\ age' = 0
  /\ UNCHANGED <<reading, offset, state, got>>

\* slice(offset, offset + maxChars), and whether nextOffset says to go on.
Chunk(r, from) == SubSeq(Text(r), from + 1, Min({from + ChunkSize, TotalChars[r]}))
GoesOnTooShort(r, next) == next + 1 < TotalChars[r]
GoesOn(r, next) == next < TotalChars[r]

\* A reader takes up a handle it was given, or goes on at nextOffset.
Read(d, r) ==
  /\ fate[r] = "stored" /\ state[d] = "more"
  /\ reading[d] = r \/ reading[d] = "none"
  /\ reading' = [reading EXCEPT ![d] = r]
  /\ values' = Pruned
  /\ IF \E i \in DOMAIN Pruned : Pruned[i].id = r
     THEN /\ got' = [got EXCEPT ![d] = @ \o Chunk(r, offset[d])]
          /\ offset' = [offset EXCEPT ![d] = @ + Len(Chunk(r, @))]
          /\ state' = [state EXCEPT ![d] = IF GoesOn(r, offset'[d]) THEN "more" ELSE "whole"]
     ELSE state' = [state EXCEPT ![d] = "lost"] /\ UNCHANGED <<offset, got>>
  /\ UNCHANGED <<fate, newest, age>>

ClearResults ==
  /\ values' = <<>> /\ newest' = {}
  /\ UNCHANGED <<fate, reading, offset, state, got, age>>

Expire ==
  /\ \E i \in DOMAIN values : Unexpired(values[i])
  /\ values' = [i \in DOMAIN values |-> [values[i] EXCEPT !.left = IF @ > 0 THEN @ - 1 ELSE 0]]
  /\ age' = IF age < Ttl THEN age + 1 ELSE age
  /\ UNCHANGED <<fate, reading, offset, state, got, newest>>

-----------------------------------------------------------------------------
\* INVARIANT. Four results and the byte budget at most, whatever is put and however
\* large, and the newest one always among them until it expires or is cleared: the
\* handle just delivered can be read (put 11-28).
NewestFits ==
  /\ Len(values) <= Capacity /\ Used(values) <= MaxBytes
  /\ \A r \in newest : age < Ttl => \E i \in DOMAIN values : values[i].id = r /\ Unexpired(values[i])

\* INVARIANT. What a reader has put together by nextOffset is the beginning of one
\* result and, when nextOffset is null, all of it; a read that comes too late fails
\* instead of ending the text (read 29-38, the st_result_read description at
\* src/server.ts:50).
ReadsAreWhole ==
  \A d \in Readers : reading[d] # "none" =>
    /\ IsPrefix(got[d], Text(reading[d]))
    /\ Len(got[d]) = offset[d]
    /\ state[d] = "whole" => got[d] = Text(reading[d])
=============================================================================
