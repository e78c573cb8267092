------------------------------- MODULE KVRing -------------------------------
(***************************************************************************)
(* One device-resident KV cache tensor: a ring of Rows rows kept twice     *)
(* back to back, so that the Rows rows from the logical start on are       *)
(* always contiguous (AppendMirroredDeviceRingRows).  The history_len      *)
(* newest rows of that view are committed; a graph reads only those, the   *)
(* mask hides the rest.                                                    *)
(*                                                                         *)
(* An append writes its rows chunk by chunk, each chunk first into the low *)
(* and then into the high copy, and moves the start only after the last    *)
(* write.  Any write may fail: the append then returns without moving the  *)
(* start, and the caller can only rebuild the cache (BuildFullCaches).     *)
(***************************************************************************)
EXTENDS Integers, Sequences

CONSTANTS
  Rows,      \* cache_rows: capacity of one copy of the ring
  Values,    \* contents of a row
  Empty,     \* a zero-initialised row
  Prompts,   \* sequences of rows the prefill graph may have produced
  Updates    \* sequences of rows a decode graph may have produced

\* Rows is what the graph declares; a prompt is not empty and fits
\* (LanguageEngine::Generate and BuildFullCaches refuse others).
ASSUME RingAssumption ==
  /\ Rows \in Nat \ {0}
  /\ Empty \notin Values
  /\ Prompts \subseteq {p \in Seq(Values) : 1 <= Len(p) /\ Len(p) <= Rows}
  /\ Updates \subseteq Seq(Values) \ {<<>>}

VARIABLES
  storage,  \* physical rows, 2 * Rows of them
  start,    \* byte_offset / row_bytes: physical row of the logical start
  history,  \* history_len of the caller
  prompt,   \* prefill rows, kept by RunPayload
  append,   \* the append in progress: its rows and how many are written
  phase     \* "idle", "low", "high", "written" or "failed"

ringVars == <<storage, start, history, prompt, append, phase>>

-----------------------------------------------------------------------------
NoAppend == [rows |-> <<>>, done |-> 0]

\* new_start and the first destination row of an append of n rows.
NewStart(n) == (start + n) % Rows

FirstDestination(n) == (NewStart(n) + Rows - n) % Rows

\* Mutant: the second chunk does not begin at row zero.
DestinationStuck == FirstDestination(Len(append.rows))

\* The chunk to write next: its destination in the low copy and its length.
Destination == IF append.done = 0 THEN FirstDestination(Len(append.rows)) ELSE 0
Remaining   == Len(append.rows) - append.done

ChunkRows   == IF Remaining <= Rows - Destination THEN Remaining ELSE Rows - Destination

\* storage with the current chunk copied to physical row base on.
WithChunkAt(base) ==
  [i \in 0 .. 2 * Rows - 1 |->
     IF base <= i /\ i < base + ChunkRows
     THEN append.rows[append.done + (i - base) + 1]
     ELSE storage[i]]

\* BuildFullCaches: the prompt rows right-aligned in both copies.
Seeded(p) ==
  [i \in 0 .. 2 * Rows - 1 |->
     LET r == i % Rows
     IN IF r >= Rows - Len(p) THEN p[r - (Rows - Len(p)) + 1] ELSE Empty]

-----------------------------------------------------------------------------
RingInit ==
  /\ prompt \in Prompts
  /\ storage = Seeded(prompt)
  /\ start = 0
  /\ history = Len(prompt)
  /\ append = NoAppend
  /\ phase = "idle"

\* AppendMirroredDeviceRingRows accepts any n rows up to a whole ring.
BeginAppend(update, n) ==
  /\ phase = "idle"
  /\ n <= Rows
  /\ append' = [rows |-> SubSeq(update, 1, n), done |-> 0]
  /\ phase' = "low"
  /\ UNCHANGED <<storage, start, history, prompt>>

\* AppendCacheUpdate commits the leading n rows of a graph's update when they
\* fit behind the history.
Begin(update, n) == history + n <= Rows /\ BeginAppend(update, n)

WriteLow ==
  /\ phase = "low"
  /\ storage' = WithChunkAt(Destination)
  /\ phase' = "high"
  /\ UNCHANGED <<start, history, prompt, append>>

\* Mutant: the high copy is not written.
WriteHighSkipped ==
  /\ phase = "high"
  /\ append' = [append EXCEPT !.done = @ + ChunkRows]
  /\ phase' = IF ChunkRows = Remaining THEN "written" ELSE "low"
  /\ UNCHANGED <<storage, start, history, prompt>>

WriteHigh ==
  /\ phase = "high"
  /\ storage' = WithChunkAt(Rows + Destination)
  /\ append' = [append EXCEPT !.done = @ + ChunkRows]
  /\ phase' = IF ChunkRows = Remaining THEN "written" ELSE "low"
  /\ UNCHANGED <<start, history, prompt>>

\* The write returned an error; its bytes may or may not have reached memory.
WriteFails ==
  /\ phase \in {"low", "high"}
  /\ \/ storage' = WithChunkAt(Destination + (IF phase = "low" THEN 0 ELSE Rows))
     \/ UNCHANGED storage
  /\ phase' = "failed"
  /\ UNCHANGED <<start, history, prompt, append>>

FinishAppend ==
  /\ phase = "written"
  /\ start' = NewStart(Len(append.rows))
  /\ append' = NoAppend
  /\ phase' = "idle"
  /\ UNCHANGED <<storage, prompt>>

\* The caller counts the rows once the append has returned.
Finish == FinishAppend /\ history' = history + Len(append.rows)

\* Mutant: the byte offset survives the rebuild.
ReseedKeepsStart ==
  /\ phase \in {"idle", "failed"}
  /\ storage' = Seeded(prompt) /\ history' = Len(prompt)
  /\ append' = NoAppend /\ phase' = "idle"
  /\ UNCHANGED <<prompt, start>>

\* RunPayload falls back to slow decoding: new buffers from the prefill rows.
Reseed ==
  /\ phase \in {"idle", "failed"}
  /\ storage' = Seeded(prompt)
  /\ start' = 0
  /\ history' = Len(prompt)
  /\ append' = NoAppend
  /\ phase' = "idle"
  /\ UNCHANGED prompt

RingNext ==
  \/ \E u \in Updates : \E n \in 1 .. Len(u) : Begin(u, n)
  \/ WriteLow
  \/ WriteHigh
  \/ WriteFails
  \/ Finish
  \/ Reseed

RingSpec == RingInit /\ [][RingNext]_ringVars

-----------------------------------------------------------------------------
\* Row r of the contiguous view a graph is given.
View(r) == storage[start + r]

RingTypeOK ==
  /\ storage \in [0 .. 2 * Rows - 1 -> Values \cup {Empty}]
  /\ start \in 0 .. Rows - 1
  /\ history \in 1 .. Rows
  /\ prompt \in Prompts
  /\ append \in [rows : Seq(Values), done : Nat]
  /\ phase \in {"idle", "low", "high", "written", "failed"}

\* Between appends both copies of the ring hold the same rows, so the view is
\* right wherever the start is.
MirrorCoherent ==
  phase = "idle" => \A i \in 0 .. Rows - 1 : storage[i] = storage[i + Rows]

\* The committed rows as the graph reads them, oldest first.
CommittedLog == [k \in 1 .. history |-> View(Rows - history + k - 1)]

\* The ring delivers what KVLog promises: a commit appears at once, when the
\* start moves, and in order; an append in progress or one that failed leaves
\* every committed row readable as it was.
Abstract == INSTANCE KVLog WITH log <- CommittedLog, broken <- phase = "failed"
ImplementsLog == Abstract!Spec
=============================================================================
