----------------------------- MODULE WindowProofs -----------------------------
(***************************************************************************)
(* What a graph call sees, the ring it reads it from, and what is decided  *)
(* on the rows it returns.                                                 *)
(*                                                                         *)
(* For every kv width, prefill width and block size, the mask and the      *)
(* positions of every graph call show each active row its context exactly  *)
(* once, and both builders of positions agree.                             *)
(*                                                                         *)
(* The ring of every capacity implements KVLog, its two copies agree       *)
(* whenever no append is under way, and an append slides what it shows,    *)
(* whoever appends.  The inductive invariant of the engine's ring says how *)
(* far an append has come.  Since the engine commits only what fits behind *)
(* the history, the start never comes round to zero: its appends are one   *)
(* chunk, written first to the rows from start on, which the view no       *)
(* longer needs, and then to their copies beyond the view.  That of any    *)
(* caller's ring follows two chunks around the end.                        *)
(*                                                                         *)
(* Every decision on a window of six rows can be acted upon, and the       *)
(* coordinate audit decides as the runtime but for what it says.           *)
(***************************************************************************)
EXTENDS AttentionWindow, KVRingAppends, CoordinateDecoding, TLAPS, SequenceTheorems,
        FiniteSetTheorems, WellFoundedInduction

\* What membership in the three call sets says, field by field.
LEMMA CallFields ==
  ASSUME NEW c \in Calls
  PROVE  /\ c.query \in Nat \ {0} /\ c.cacheLen \in Nat \ {0}
         /\ c.past \in Nat /\ c.prefix \in Nat /\ c.active \in Nat
         /\ c.past + c.query <= c.cacheLen
         /\ c.kind \in {"prefill", "ar", "pbd"}
         /\ c.kind = "prefill" => /\ c.past = 0
                                  /\ 1 <= c.active /\ c.active <= c.query
         /\ c.kind # "prefill" => c.past >= 1
         /\ c.kind = "pbd" => c.query = c.prefix + Block
<1>1. CASE c \in PrefillCalls
  <2>1. /\ c.kind = "prefill" /\ c.query \in PrefillQueries /\ c.cacheLen \in CacheLens
        /\ c.past = 0 /\ c.prefix = 0
        /\ c.active <= c.query /\ c.query <= c.cacheLen
    BY <1>1 DEF PrefillCalls
  <2>2. c.active \in Nat \ {0}
    <3>1. c.active \in UNION {1 .. q : q \in PrefillQueries}
      BY <1>1 DEF PrefillCalls
    <3> QED BY <3>1, WindowAssumption DEF WindowAssumption
  <2>3. c.query \in Nat \ {0} /\ c.cacheLen \in Nat \ {0}
    BY <2>1, WindowAssumption DEF WindowAssumption
  <2> QED BY <2>1, <2>2, <2>3, WindowAssumption DEF WindowAssumption
<1>2. CASE c \in ArCalls
  <2>1. /\ c.kind = "ar" /\ c.query \in 1 .. 5 /\ c.cacheLen \in CacheLens
        /\ c.prefix = 0 /\ c.active = 0
        /\ c.past + c.query <= c.cacheLen
    BY <1>2 DEF ArCalls, MaskFits
  <2>2. c.past \in Nat \ {0}
    <3>1. c.past \in UNION {1 .. n : n \in CacheLens}
      BY <1>2 DEF ArCalls, DecodePasts
    <3> QED BY <3>1, WindowAssumption DEF WindowAssumption
  <2>3. c.cacheLen \in Nat \ {0}
    BY <2>1, WindowAssumption DEF WindowAssumption
  <2> QED BY <2>1, <2>2, <2>3, WindowAssumption DEF WindowAssumption
<1>3. CASE c \in PbdCalls
  <2>1. /\ c.kind = "pbd" /\ c.query \in Block .. 2 * Block /\ c.cacheLen \in CacheLens
        /\ c.prefix \in 0 .. Block /\ c.active = 0
        /\ c.query = c.prefix + Block
        /\ c.past + c.query <= c.cacheLen
    BY <1>3 DEF PbdCalls, MaskFits
  <2>2. c.past \in Nat \ {0}
    <3>1. c.past \in UNION {1 .. n : n \in CacheLens}
      BY <1>3 DEF PbdCalls, DecodePasts
    <3> QED BY <3>1, WindowAssumption DEF WindowAssumption
  <2>3. c.cacheLen \in Nat \ {0}
    BY <2>1, WindowAssumption DEF WindowAssumption
  <2> QED BY <2>1, <2>2, <2>3, WindowAssumption DEF WindowAssumption
<1> QED BY <1>1, <1>2, <1>3 DEF Calls

\* A prefill row sees exactly the prompt rows up to itself.
LEMMA PrefillSeesOnce ==
  ASSUME NEW c \in Calls, c.kind = "prefill",
         NEW i \in 0 .. c.query - 1, ~PaddingRow(c, i)
  PROVE  SeesContextOnce(c, i)
<1> DEFINE visible == {j \in 0 .. c.cacheLen - 1 : RowAllowed(c, i, j)}
<1> USE CallFields DEF RowAllowed, RowPosition, PrefillAllowed, PrefillPosition,
        ColumnPosition, HistoryStart, PaddingRow, LastSeen
<1>1. \A j \in visible : ~IsPadding(c, j)
  BY DEF IsPadding
<1>2. \A j, k \in visible : ColumnPosition(c, j) = ColumnPosition(c, k) => j = k
  OBVIOUS
<1>3. \A j \in visible : ColumnPosition(c, j) \in 0 .. LastSeen(c, i)
  OBVIOUS
<1>4. ASSUME NEW p \in 0 .. LastSeen(c, i)
      PROVE  \E j \in visible : ColumnPosition(c, j) = p
  <2> DEFINE col == c.cacheLen - c.active + p
  <2>1. col \in visible
    OBVIOUS
  <2>2. ColumnPosition(c, col) = p
    OBVIOUS
  <2> QED BY <2>1, <2>2
<1> HIDE DEF visible
<1> QED BY <1>1, <1>2, <1>3, <1>4 DEF SeesContextOnce, visible

\* An AR row sees the history and the query rows up to itself.
LEMMA ArSeesOnce ==
  ASSUME NEW c \in Calls, c.kind = "ar", NEW i \in 0 .. c.query - 1
  PROVE  SeesContextOnce(c, i)
<1> DEFINE visible == {j \in 0 .. c.cacheLen - 1 : RowAllowed(c, i, j)}
<1> USE CallFields DEF RowAllowed, RowPosition, Allowed, DecodePosition,
        ColumnPosition, HistoryStart, LastSeen
<1>1. \A j \in visible : ~IsPadding(c, j)
  BY DEF IsPadding
<1>2. \A j, k \in visible : ColumnPosition(c, j) = ColumnPosition(c, k) => j = k
  OBVIOUS
<1>3. \A j \in visible : ColumnPosition(c, j) \in 0 .. LastSeen(c, i)
  OBVIOUS
<1>4. ASSUME NEW p \in 0 .. LastSeen(c, i)
      PROVE  \E j \in visible : ColumnPosition(c, j) = p
  <2> DEFINE col == HistoryStart(c) + p
  <2>1. col \in visible
    OBVIOUS
  <2>2. ColumnPosition(c, col) = p
    OBVIOUS
  <2> QED BY <2>1, <2>2
<1> HIDE DEF visible
<1> QED BY <1>1, <1>2, <1>3, <1>4 DEF SeesContextOnce, visible

\* A prefix row of a PBD graph is causal, a block row sees the history, the
\* prefix but its last token, and the whole block, whose first row repeats it.
LEMMA PbdSeesOnce ==
  ASSUME NEW c \in Calls, c.kind = "pbd", NEW i \in 0 .. c.query - 1
  PROVE  SeesContextOnce(c, i)
<1> DEFINE columns == 0 .. c.cacheLen - 1
           visible == {j \in columns : RowAllowed(c, i, j)}
           first   == c.cacheLen - c.query - c.past
           last    == IF i < c.prefix THEN c.past + i ELSE c.past + c.query - 2
<1>1. /\ Block \in Nat \ {0} /\ c.query \in Nat \ {0} /\ c.cacheLen \in Nat \ {0}
      /\ c.past \in Nat \ {0} /\ c.prefix \in Nat
      /\ c.past + c.query <= c.cacheLen
      /\ c.query = c.prefix + Block
  BY CallFields, WindowAssumption DEF WindowAssumption
<1>2. \A j \in columns : j \in visible <=>
        IF i < c.prefix
        THEN first <= j /\ j <= c.cacheLen - c.query + i
        ELSE first <= j /\ j # c.cacheLen - Block - 1
  <2> SUFFICES ASSUME NEW j \in columns
               PROVE  Allowed(c.query, c.cacheLen, c.past, Block, i, j) <=>
                        IF i < c.prefix
                        THEN first <= j /\ j <= c.cacheLen - c.query + i
                        ELSE first <= j /\ j # c.cacheLen - Block - 1
    BY DEF RowAllowed
  <2>1. CASE i < c.prefix
    BY <1>1, <2>1 DEF Allowed
  <2>2. CASE i >= c.prefix
    BY <1>1, <2>2 DEF Allowed
  <2> QED BY <1>1, <2>1, <2>2
<1>3. \A j \in columns : ColumnPosition(c, j) =
        IF j < c.cacheLen - Block THEN j - first ELSE j - first - 1
  BY <1>1 DEF ColumnPosition, HistoryStart, RowPosition, DecodePosition
<1>4. LastSeen(c, i) = last
  BY <1>1 DEF LastSeen, RowPosition, DecodePosition
<1>5. \A j \in visible : ~IsPadding(c, j)
  BY <1>1, <1>2 DEF IsPadding, HistoryStart
<1> HIDE DEF visible
<1>6. visible \subseteq columns
  BY DEF visible
<1>7. \A j, k \in visible : ColumnPosition(c, j) = ColumnPosition(c, k) => j = k
  <2> SUFFICES ASSUME NEW j \in visible, NEW k \in visible,
                      ColumnPosition(c, j) = ColumnPosition(c, k)
               PROVE  j = k
    OBVIOUS
  <2>1. j \in columns /\ k \in columns
    BY <1>6
  <2>2. CASE i < c.prefix
    <3>1. j < c.cacheLen - Block /\ k < c.cacheLen - Block
      BY <1>1, <1>2, <2>1, <2>2
    <3> QED BY <1>1, <1>3, <2>1, <3>1
  <2>3. CASE i >= c.prefix
    <3> DEFINE edge == c.cacheLen - Block
    <3>1. first \in Int /\ edge \in Int /\ j \in Int /\ k \in Int
      BY <1>1, <2>1
    <3>2. j # edge - 1 /\ k # edge - 1
      BY <1>1, <1>2, <2>1, <2>3
    <3>3. (IF j < edge THEN j - first ELSE j - first - 1)
            = (IF k < edge THEN k - first ELSE k - first - 1)
      BY <1>3, <2>1
    <3> HIDE DEF first, edge
    <3> QED BY <3>1, <3>2, <3>3
  <2> QED BY <1>1, <2>2, <2>3
<1>8. \A j \in visible : ColumnPosition(c, j) \in 0 .. LastSeen(c, i)
  <2> SUFFICES ASSUME NEW j \in visible
               PROVE  ColumnPosition(c, j) \in 0 .. last
    BY <1>4
  <2>1. CASE i < c.prefix
    BY <1>1, <1>2, <1>3, <1>6, <2>1
  <2>2. CASE i >= c.prefix
    BY <1>1, <1>2, <1>3, <1>6, <2>2
  <2> QED BY <1>1, <2>1, <2>2
<1>9. ASSUME NEW p \in 0 .. LastSeen(c, i)
      PROVE  \E j \in visible : ColumnPosition(c, j) = p
  <2> DEFINE col == IF p < c.past + c.prefix - 1 \/ i < c.prefix
                    THEN first + p ELSE first + p + 1
  <2>1. p \in 0 .. last
    BY <1>4
  <2>2. col \in columns
    BY <1>1, <2>1
  <2>3. col \in visible
    <3>1. CASE i < c.prefix
      BY <1>1, <1>2, <2>1, <2>2, <3>1
    <3>2. CASE i >= c.prefix
      BY <1>1, <1>2, <2>1, <2>2, <3>2
    <3> QED BY <1>1, <3>1, <3>2
  <2>4. ColumnPosition(c, col) = p
    BY <1>1, <1>3, <2>1, <2>2
  <2> QED BY <2>3, <2>4
<1> QED BY <1>5, <1>7, <1>8, <1>9 DEF SeesContextOnce, visible

\* Every active row of every call the runtime makes sees its context once.
THEOREM EveryCallSeesContextOnce ==
  ASSUME NEW c \in Calls, NEW i \in 0 .. c.query - 1, ~PaddingRow(c, i)
  PROVE  SeesContextOnce(c, i)
BY CallFields, PrefillSeesOnce, ArSeesOnce, PbdSeesOnce

-----------------------------------------------------------------------------
\* The rows built so far are rows of the call and are what RowAllowed says.
BuiltRows ==
  /\ call \in Calls
  /\ RowsBuilt \subseteq 0 .. call.query - 1
  /\ \A r \in RowsBuilt :
       mask[r] = {j \in 0 .. call.cacheLen - 1 : RowAllowed(call, r, j)}

LEMMA BuiltRowsInvariant == Spec => []BuiltRows
<1>1. Init => BuiltRows
  BY DEF Init, BuiltRows, RowsBuilt
<1>2. BuiltRows /\ [Next]_vars => BuiltRows'
  <2> SUFFICES ASSUME BuiltRows, [Next]_vars PROVE BuiltRows'
    OBVIOUS
  <2>1. CASE BuildRow
    <3>1. PICK i \in 0 .. call.query - 1 :
            /\ mask' = [r \in 0 .. i |-> {j \in 0 .. call.cacheLen - 1 :
                                            RowAllowed(call, r, j)}]
            /\ UNCHANGED call
      BY <2>1 DEF BuildRow
    <3>2. RowsBuilt' = 0 .. i
      BY <3>1 DEF RowsBuilt
    <3>3. 0 .. i \subseteq 0 .. call.query - 1
      BY CallFields DEF BuiltRows
    <3> QED BY <3>1, <3>2, <3>3 DEF BuiltRows
  <2>2. CASE UNCHANGED vars
    BY <2>2 DEF BuiltRows, RowsBuilt, vars
  <2> QED BY <2>1, <2>2 DEF Next, Built
<1> QED BY <1>1, <1>2, PTL DEF Spec

\* ContextSeenOnce holds in every reachable state: the mask BuildMask has
\* written fits the positions BuildPositions has written and the layout of the
\* cache, for every graph width, cache width, history and prefix length.
THEOREM ContextSeenOnceInvariant == Spec => []ContextSeenOnce
<1>1. BuiltRows => ContextSeenOnce
  <2> SUFFICES ASSUME BuiltRows, NEW i \in RowsBuilt, ~PaddingRow(call, i)
               PROVE  /\ \A j \in mask[i] : ~IsPadding(call, j)
                      /\ \A j, k \in mask[i] :
                           ColumnPosition(call, j) = ColumnPosition(call, k) => j = k
                      /\ {ColumnPosition(call, j) : j \in mask[i]} = 0 .. LastSeen(call, i)
    BY DEF ContextSeenOnce
  <2>1. SeesContextOnce(call, i)
    BY EveryCallSeesContextOnce DEF BuiltRows
  <2>2. mask[i] = {j \in 0 .. call.cacheLen - 1 : RowAllowed(call, i, j)}
    BY DEF BuiltRows
  <2> QED BY <2>1, <2>2 DEF SeesContextOnce
<1> QED BY <1>1, BuiltRowsInvariant, PTL

-----------------------------------------------------------------------------
\* The position ids built so far are those of RowPosition.
BuiltPositions ==
  /\ call \in Calls
  /\ RowsBuilt \subseteq 0 .. call.query - 1
  /\ \A r \in RowsBuilt : positions[r] = RowPosition(call, r)

LEMMA BuiltPositionsInvariant == Spec => []BuiltPositions
<1>1. Init => BuiltPositions
  BY DEF Init, BuiltPositions, RowsBuilt
<1>2. BuiltPositions /\ [Next]_vars => BuiltPositions'
  <2> SUFFICES ASSUME BuiltPositions, [Next]_vars PROVE BuiltPositions'
    OBVIOUS
  <2>1. CASE BuildRow
    <3>1. PICK i \in 0 .. call.query - 1 :
            /\ DOMAIN mask' = 0 .. i
            /\ positions' = [r \in 0 .. i |-> RowPosition(call, r)]
            /\ UNCHANGED call
      BY <2>1 DEF BuildRow
    <3>2. RowsBuilt' = 0 .. i
      BY <3>1 DEF RowsBuilt
    <3>3. 0 .. i \subseteq 0 .. call.query - 1
      BY CallFields DEF BuiltPositions
    <3> QED BY <3>1, <3>2, <3>3 DEF BuiltPositions
  <2>2. CASE UNCHANGED vars
    BY <2>2 DEF BuiltPositions, RowsBuilt, vars
  <2> QED BY <2>1, <2>2 DEF Next, Built
<1> QED BY <1>1, <1>2, PTL DEF Spec

\* For every decode graph of every width the two builders shift the same rows:
\* those behind the accepted prefix are the last Block rows of the query.
THEOREM PositionBuildersAlwaysAgree == Spec => []PositionBuildersAgree
<1>1. BuiltPositions => PositionBuildersAgree
  <2> SUFFICES ASSUME BuiltPositions, call.kind # "prefill", NEW i \in RowsBuilt
               PROVE  positions[i]
                        = BuildPositionIds(call.query, call.past, Block, call.kind = "pbd")[i]
    BY DEF PositionBuildersAgree
  <2>1. /\ i \in 0 .. call.query - 1 /\ call.query \in Nat /\ call.prefix \in Nat
        /\ call.kind = "pbd" => call.query = call.prefix + Block
    BY CallFields DEF BuiltPositions
  <2>2. Block \in Nat /\ Block > 0
    BY WindowAssumption DEF WindowAssumption
  <2>3. positions[i] = call.past + i - (IF call.kind = "pbd" /\ i >= call.prefix THEN 1 ELSE 0)
    BY DEF BuiltPositions, RowPosition, DecodePosition
  <2>4. call.kind = "pbd" =>
          (i >= call.prefix <=> call.query >= Block /\ i >= call.query - Block)
    BY <2>1, <2>2
  <2> QED BY <2>1, <2>2, <2>3, <2>4 DEF BuildPositionIds
<1> QED BY <1>1, BuiltPositionsInvariant, PTL

-----------------------------------------------------------------------------
(* The ring.                                                                 *)
\* The append in progress takes the leading rows of some graph update.
FromUpdate(rows) == \E u \in Updates : \E n \in 1 .. Len(u) : rows = SubSeq(u, 1, n)

Pending == Len(append.rows)

Progress ==
  /\ phase = "idle" => append = NoAppend
  /\ phase \in {"low", "high", "written"} =>
       /\ FromUpdate(append.rows)
       /\ Pending >= 1
       /\ history + Pending <= Rows
  /\ phase \in {"low", "high"} => append.done = 0
  /\ phase \in {"idle", "low", "written"} =>
       \A i \in 0 .. Rows - 1 : storage[i] = storage[i + Rows]
  /\ phase = "high" =>
       \A i \in 0 .. Rows - 1 :
         i \notin start .. start + Pending - 1 => storage[i] = storage[i + Rows]
  /\ phase \in {"high", "written"} =>
       \A i \in start .. start + Pending - 1 : storage[i] = append.rows[i - start + 1]

\* No committed row is a zero-initialised one.
CommittedRowsWritten ==
  \A r \in Rows - history .. Rows - 1 : View(r) \in Values

RingInv ==
  /\ RingTypeOK
  /\ start = history - Len(prompt)
  /\ Progress
  /\ CommittedRowsWritten

-----------------------------------------------------------------------------
\* Remainders of the sums the ring computes: none reaches twice the capacity.
LEMMA Remainder ==
  ASSUME NEW x \in Nat, x < 2 * Rows
  PROVE  /\ x < Rows => x % Rows = x
         /\ x >= Rows => x % Rows = x - Rows
  <1>1. Rows \in Nat \ {0}
    BY RingAssumption DEF RingAssumption
  <1>2. CASE x < Rows
    BY <1>1, <1>2
  <1>3. CASE x >= Rows
    BY <1>1, <1>3
  <1> QED BY <1>1, <1>2, <1>3

\* An append that fits behind the history is one chunk that begins at start.
LEMMA OneChunk ==
  ASSUME RingInv, phase \in {"low", "high", "written"}
  PROVE  /\ Pending \in Nat \ {0}
         /\ start + Pending < Rows
         /\ NewStart(Pending) = start + Pending
         /\ phase # "written" => /\ Destination = start
                                 /\ Remaining = Pending
                                 /\ ChunkRows = Pending
  <1>1. Rows \in Nat \ {0} /\ start \in 0 .. Rows - 1 /\ history \in 1 .. Rows
    BY RingAssumption DEF RingAssumption, RingInv, RingTypeOK
  <1>2. Pending \in Nat \ {0} /\ history + Pending <= Rows
    <2>1. append.rows \in Seq(Values)
      BY DEF RingInv, RingTypeOK
    <2>2. Pending \in Nat
      BY <2>1, LenProperties DEF Pending
    <2> QED BY <2>2 DEF RingInv, Progress
  <1>3. Len(prompt) \in Nat /\ Len(prompt) >= 1
    BY RingAssumption DEF RingAssumption, RingInv, RingTypeOK
  <1>4. start + Pending < Rows
    BY <1>1, <1>2, <1>3 DEF RingInv
  <1>5. NewStart(Pending) = start + Pending
    BY <1>1, <1>2, <1>4, Remainder DEF NewStart
  <1>6. FirstDestination(Pending) = start
    BY <1>1, <1>2, <1>4, <1>5, Remainder DEF FirstDestination
  <1>7. ASSUME phase # "written"
        PROVE  Destination = start /\ Remaining = Pending /\ ChunkRows = Pending
    <2>1. append.done = 0
      BY <1>7 DEF RingInv, Progress
    <2>2. Destination = start /\ Remaining = Pending
      BY <1>2, <1>6, <2>1 DEF Destination, Remaining, Pending
    <2> QED BY <1>1, <1>2, <1>4, <2>2 DEF ChunkRows
  <1> QED BY <1>2, <1>4, <1>5, <1>7

\* The rows of a seeded ring.
LEMMA SeededRows ==
  ASSUME NEW p \in Prompts
  PROVE  /\ Len(p) \in 1 .. Rows
         /\ Seeded(p) \in [0 .. 2 * Rows - 1 -> Values \cup {Empty}]
         /\ \A i \in 0 .. Rows - 1 : Seeded(p)[i] = Seeded(p)[i + Rows]
         /\ \A r \in Rows - Len(p) .. Rows - 1 :
              Seeded(p)[r] = p[r - (Rows - Len(p)) + 1] /\ Seeded(p)[r] \in Values
  <1>1. Rows \in Nat \ {0} /\ p \in Seq(Values) /\ Len(p) \in 1 .. Rows
    BY RingAssumption DEF RingAssumption
  <1> DEFINE row(r) == IF r >= Rows - Len(p) THEN p[r - (Rows - Len(p)) + 1] ELSE Empty
  <1>2. \A i \in 0 .. 2 * Rows - 1 : Seeded(p)[i] = row(i % Rows)
    BY DEF Seeded
  <1>3. \A i \in 0 .. Rows - 1 : i % Rows = i /\ (i + Rows) % Rows = i
    BY <1>1, Remainder
  <1>4. \A r \in Rows - Len(p) .. Rows - 1 : row(r) = p[r - (Rows - Len(p)) + 1] /\ row(r) \in Values
    BY <1>1, ElementOfSeq
  <1>5. \A r \in 0 .. Rows - 1 : row(r) \in Values \cup {Empty}
    BY <1>1, <1>4
  <1>6. \A i \in 0 .. 2 * Rows - 1 : i % Rows \in 0 .. Rows - 1
    BY <1>1
  <1>7. Seeded(p) \in [0 .. 2 * Rows - 1 -> Values \cup {Empty}]
    <2>1. Seeded(p) = [i \in 0 .. 2 * Rows - 1 |-> row(i % Rows)]
      BY DEF Seeded
    <2> HIDE DEF row
    <2> QED BY <2>1, <1>5, <1>6
  <1>8. \A i \in 0 .. Rows - 1 : Seeded(p)[i] = row(i) /\ Seeded(p)[i + Rows] = row(i)
    <2> SUFFICES ASSUME NEW i \in 0 .. Rows - 1
                 PROVE  Seeded(p)[i] = row(i) /\ Seeded(p)[i + Rows] = row(i)
      OBVIOUS
    <2>1. i \in 0 .. 2 * Rows - 1 /\ i + Rows \in 0 .. 2 * Rows - 1
      BY <1>1
    <2> HIDE DEF row
    <2> QED BY <1>2, <1>3, <2>1
  <1> HIDE DEF row
  <1>9. \A r \in Rows - Len(p) .. Rows - 1 : r \in 0 .. Rows - 1
    BY <1>1
  <1> QED BY <1>1, <1>4, <1>7, <1>8, <1>9

\* A chunk write puts the append's rows at base and touches nothing else.
LEMMA ChunkWritten ==
  ASSUME RingInv, phase \in {"low", "high"}, NEW base \in {start, Rows + start}
  PROVE  /\ WithChunkAt(base) \in [0 .. 2 * Rows - 1 -> Values \cup {Empty}]
         /\ \A i \in 0 .. 2 * Rows - 1 :
              /\ i \in base .. base + Pending - 1 =>
                   WithChunkAt(base)[i] = append.rows[i - base + 1]
              /\ i \notin base .. base + Pending - 1 => WithChunkAt(base)[i] = storage[i]
  <1>1. /\ Rows \in Nat \ {0} /\ start \in 0 .. Rows - 1
        /\ storage \in [0 .. 2 * Rows - 1 -> Values \cup {Empty}]
        /\ append.rows \in Seq(Values)
    BY RingAssumption DEF RingAssumption, RingInv, RingTypeOK
  <1>2. Pending \in Nat \ {0} /\ ChunkRows = Pending /\ append.done = 0
    BY OneChunk DEF RingInv, Progress
  <1>3. WithChunkAt(base) =
          [i \in 0 .. 2 * Rows - 1 |->
             IF base <= i /\ i < base + Pending
             THEN append.rows[i - base + 1] ELSE storage[i]]
    <2>1. \A i \in 0 .. 2 * Rows - 1 : append.done + (i - base) + 1 = i - base + 1
      BY <1>1, <1>2
    <2> QED BY <1>2, <2>1 DEF WithChunkAt
  <1>4. ASSUME NEW i \in 0 .. 2 * Rows - 1, base <= i, i < base + Pending
        PROVE  append.rows[i - base + 1] \in Values
    <2>1. i - base + 1 \in 1 .. Len(append.rows)
      BY <1>1, <1>2, <1>4 DEF Pending
    <2> QED BY <1>1, <2>1, ElementOfSeq
  <1>5. WithChunkAt(base) \in [0 .. 2 * Rows - 1 -> Values \cup {Empty}]
    BY <1>1, <1>3, <1>4
  <1>6. ASSUME NEW i \in 0 .. 2 * Rows - 1
        PROVE  /\ i \in base .. base + Pending - 1 =>
                    WithChunkAt(base)[i] = append.rows[i - base + 1]
               /\ i \notin base .. base + Pending - 1 =>
                    WithChunkAt(base)[i] = storage[i]
    <2>1. /\ base \in Int /\ i \in Int /\ Pending \in Int
          /\ i \in base .. base + Pending - 1 <=> base <= i /\ i < base + Pending
      BY <1>1, <1>2
    <2>2. WithChunkAt(base)[i] = IF base <= i /\ i < base + Pending
                                 THEN append.rows[i - base + 1] ELSE storage[i]
      BY <1>3, Zenon
    <2> QED BY <2>1, <2>2, Zenon
  <1> QED BY <1>5, <1>6

\* A chunk write leaves the committed rows of the view alone.
LEMMA CommittedUntouched ==
  ASSUME RingInv, phase \in {"low", "high"}, NEW base \in {start, Rows + start},
         NEW r \in Rows - history .. Rows - 1
  PROVE  WithChunkAt(base)[start + r] = storage[start + r]
  <1>1. /\ Rows \in Nat \ {0} /\ start \in 0 .. Rows - 1 /\ history \in 1 .. Rows
    BY RingAssumption DEF RingAssumption, RingInv, RingTypeOK
  <1>2. Pending \in Nat \ {0} /\ start + Pending < Rows /\ history + Pending <= Rows
    BY OneChunk DEF RingInv, Progress
  <1>3. start + r \in 0 .. 2 * Rows - 1 /\ start + r \notin base .. base + Pending - 1
    BY <1>1, <1>2
  <1> QED BY <1>3, ChunkWritten

-----------------------------------------------------------------------------
\* A seeded ring, as BuildFullCaches leaves it, satisfies the invariant.
LEMMA InitInv == RingInit => RingInv
  <1> SUFFICES ASSUME RingInit PROVE RingInv
    OBVIOUS
  <1>1. /\ Rows \in Nat \ {0}
        /\ Len(prompt) \in 1 .. Rows
    BY SeededRows, RingAssumption DEF RingAssumption, RingInit
  <1>2. NoAppend \in [rows : Seq(Values), done : Nat]
    BY DEF NoAppend
  <1>3. RingTypeOK
    BY <1>1, <1>2, SeededRows DEF RingInit, RingTypeOK
  <1>4. Progress
    BY SeededRows DEF RingInit, Progress
  <1>5. CommittedRowsWritten
    BY <1>1, SeededRows DEF RingInit, CommittedRowsWritten, View
  <1> QED BY <1>1, <1>3, <1>4, <1>5 DEF RingInv, RingInit

\* Starting an append changes no row.
LEMMA BeginInv ==
  ASSUME RingInv, NEW u \in Updates, NEW n \in 1 .. Len(u), Begin(u, n)
  PROVE  RingInv'
  <1>1. u \in Seq(Values) /\ n \in 1 .. Len(u)
    BY RingAssumption DEF RingAssumption
  <1>2. SubSeq(u, 1, n) \in Seq(Values) /\ Len(SubSeq(u, 1, n)) = n
    BY <1>1, SubSeqProperties, LenProperties
  <1>3. /\ append' = [rows |-> SubSeq(u, 1, n), done |-> 0]
        /\ phase' = "low" /\ phase = "idle" /\ history + n <= Rows
        /\ UNCHANGED <<storage, start, history, prompt>>
    BY DEF Begin, BeginAppend
  <1>4. RingTypeOK'
    BY <1>2, <1>3 DEF RingInv, RingTypeOK
  <1>5. Pending' = n /\ FromUpdate(append.rows)'
    BY <1>2, <1>3 DEF Pending, FromUpdate
  <1>6. Progress'
    BY <1>1, <1>3, <1>5 DEF RingInv, Progress
  <1> QED BY <1>3, <1>4, <1>6 DEF RingInv, CommittedRowsWritten, View

\* The low copy has the new rows, the high copy does not yet.
LEMMA WriteLowInv == ASSUME RingInv, WriteLow PROVE RingInv'
  <1>1. /\ phase = "low" /\ phase' = "high" /\ storage' = WithChunkAt(start)
        /\ UNCHANGED <<start, history, prompt, append>>
    BY OneChunk DEF WriteLow
  <1>2. Pending \in Nat \ {0} /\ start + Pending < Rows /\ Pending' = Pending
    BY <1>1, OneChunk DEF Pending
  <1>3. Rows \in Nat \ {0} /\ start \in 0 .. Rows - 1
    BY RingAssumption DEF RingAssumption, RingInv, RingTypeOK
  <1>4. RingTypeOK'
    BY <1>1, ChunkWritten DEF RingInv, RingTypeOK
  <1>5. ASSUME NEW i \in 0 .. Rows - 1, i \notin start .. start + Pending - 1
        PROVE  storage'[i] = storage'[i + Rows]
    <2>1. i + Rows \in 0 .. 2 * Rows - 1 /\ i + Rows \notin start .. start + Pending - 1
      BY <1>2, <1>3
    <2>2. storage[i] = storage[i + Rows]
      BY <1>1 DEF RingInv, Progress
    <2> QED BY <1>1, <1>3, <1>5, <2>1, <2>2, ChunkWritten
  <1>6. \A i \in start .. start + Pending - 1 : storage'[i] = append.rows[i - start + 1]
    BY <1>1, <1>2, <1>3, ChunkWritten
  <1>7. Progress'
    BY <1>1, <1>2, <1>5, <1>6 DEF RingInv, Progress
  <1>8. CommittedRowsWritten'
    BY <1>1, CommittedUntouched DEF RingInv, CommittedRowsWritten, View
  <1> QED BY <1>1, <1>4, <1>7, <1>8 DEF RingInv

\* The second write makes the copies agree again.
LEMMA WriteHighInv == ASSUME RingInv, WriteHigh PROVE RingInv'
  <1>1. /\ phase = "high" /\ phase' = "written" /\ storage' = WithChunkAt(Rows + start)
        /\ append' = [append EXCEPT !.done = @ + ChunkRows]
        /\ UNCHANGED <<start, history, prompt>>
    BY OneChunk DEF WriteHigh
  <1>2. Pending \in Nat \ {0} /\ start + Pending < Rows /\ ChunkRows = Pending
    BY <1>1, OneChunk
  <1>3. Rows \in Nat \ {0} /\ start \in 0 .. Rows - 1
    BY RingAssumption DEF RingAssumption, RingInv, RingTypeOK
  <1>4. append' \in [rows : Seq(Values), done : Nat] /\ append'.rows = append.rows
    <2>1. append \in [rows : Seq(Values), done : Nat]
      BY DEF RingInv, RingTypeOK
    <2>2. append.done + ChunkRows \in Nat
      BY <1>2, <2>1
    <2>3. append' = [append EXCEPT !.done = append.done + ChunkRows]
      BY <1>1
    <2> QED BY <2>1, <2>2, <2>3
  <1>5. RingTypeOK'
    BY <1>1, <1>4, ChunkWritten DEF RingInv, RingTypeOK
  <1>6. \A i \in start .. start + Pending - 1 : storage'[i] = append.rows[i - start + 1]
    <2> SUFFICES ASSUME NEW i \in start .. start + Pending - 1
                 PROVE  storage'[i] = append.rows[i - start + 1]
      OBVIOUS
    <2>1. i \in 0 .. 2 * Rows - 1 /\ i \notin Rows + start .. Rows + start + Pending - 1
      BY <1>2, <1>3
    <2>2. storage[i] = append.rows[i - start + 1]
      BY <1>1 DEF RingInv, Progress
    <2> QED BY <1>1, <2>1, <2>2, ChunkWritten
  <1>7. ASSUME NEW i \in 0 .. Rows - 1
        PROVE  storage'[i] = storage'[i + Rows]
    <2>1. i + Rows \in 0 .. 2 * Rows - 1 /\ i \in 0 .. 2 * Rows - 1
      BY <1>3
    <2>2. CASE i \in start .. start + Pending - 1
      <3>1. i + Rows \in Rows + start .. Rows + start + Pending - 1
        BY <1>2, <1>3, <2>2
      <3>2. storage'[i + Rows] = append.rows[(i + Rows) - (Rows + start) + 1]
        BY <1>1, <2>1, <3>1, ChunkWritten
      <3>3. (i + Rows) - (Rows + start) + 1 = i - start + 1
        BY <1>3
      <3> QED BY <1>6, <2>2, <3>2, <3>3
    <2>3. CASE i \notin start .. start + Pending - 1
      <3>1. /\ i + Rows \notin Rows + start .. Rows + start + Pending - 1
            /\ i \notin Rows + start .. Rows + start + Pending - 1
        BY <1>2, <1>3, <2>3
      <3>2. storage[i] = storage[i + Rows]
        BY <1>1, <2>3 DEF RingInv, Progress
      <3> QED BY <1>1, <2>1, <3>1, <3>2, ChunkWritten
    <2> QED BY <2>2, <2>3
  <1>8. Progress'
    <2>1. Pending' = Pending /\ FromUpdate(append.rows)' /\ history + Pending <= Rows
      BY <1>1, <1>4 DEF RingInv, Progress, Pending, FromUpdate
    <2> QED BY <1>1, <1>2, <1>4, <1>6, <1>7, <2>1 DEF Progress
  <1>9. CommittedRowsWritten'
    BY <1>1, CommittedUntouched DEF RingInv, CommittedRowsWritten, View
  <1> QED BY <1>1, <1>5, <1>8, <1>9 DEF RingInv

\* A failed append leaves the committed rows in place.
LEMMA WriteFailsInv == ASSUME RingInv, WriteFails PROVE RingInv'
  <1>1. \E base \in {start, Rows + start} :
          storage' = WithChunkAt(base) \/ storage' = storage
    <2>1. Destination = start /\ Rows \in Nat /\ start \in 0 .. Rows - 1
      BY OneChunk, RingAssumption DEF WriteFails, RingAssumption, RingInv, RingTypeOK
    <2> QED BY <2>1 DEF WriteFails
  <1>2. /\ phase \in {"low", "high"} /\ phase' = "failed"
        /\ UNCHANGED <<start, history, prompt, append>>
    BY DEF WriteFails
  <1>3. RingTypeOK'
    BY <1>1, <1>2, ChunkWritten DEF RingInv, RingTypeOK
  <1>4. CommittedRowsWritten'
    BY <1>1, <1>2, CommittedUntouched DEF RingInv, CommittedRowsWritten, View
  <1> QED BY <1>2, <1>3, <1>4 DEF RingInv, Progress

\* The view after the start has moved: the old view without its first rows,
\* then the rows of the append.
LEMMA FinishedView ==
  ASSUME RingInv, Finish
  PROVE  /\ start' = start + Pending /\ history' = history + Pending
         /\ UNCHANGED <<storage, prompt>>
         /\ \A r \in 0 .. Rows - 1 :
              /\ r < Rows - Pending => View(r)' = View(r + Pending)
              /\ r >= Rows - Pending => View(r)' = append.rows[r - (Rows - Pending) + 1]
  <1>1. /\ phase = "written" /\ history' = history + Pending
        /\ start' = start + Pending
        /\ UNCHANGED <<storage, prompt>>
    BY OneChunk DEF Finish, FinishAppend, Pending
  <1>2. Pending \in Nat \ {0} /\ start + Pending < Rows
    BY <1>1, OneChunk
  <1>3. Rows \in Nat \ {0} /\ start \in 0 .. Rows - 1
    BY RingAssumption DEF RingAssumption, RingInv, RingTypeOK
  <1>4. ASSUME NEW r \in 0 .. Rows - 1, r < Rows - Pending
        PROVE  View(r)' = View(r + Pending)
    <2>1. start' + r = start + (r + Pending)
      BY <1>1, <1>2, <1>3
    <2> QED BY <1>1, <2>1 DEF View
  <1>5. ASSUME NEW r \in 0 .. Rows - 1, r >= Rows - Pending
        PROVE  View(r)' = append.rows[r - (Rows - Pending) + 1]
    <2> DEFINE i == start + (r - (Rows - Pending))
    <2>1. i \in start .. start + Pending - 1 /\ i \in 0 .. Rows - 1
      BY <1>2, <1>3, <1>5
    <2>2. start' + r = i + Rows /\ i - start + 1 = r - (Rows - Pending) + 1
      BY <1>1, <1>2, <1>3
    <2> HIDE DEF i
    <2>3. storage[i] = append.rows[i - start + 1] /\ storage[i] = storage[i + Rows]
      BY <1>1, <2>1 DEF RingInv, Progress
    <2> QED BY <1>1, <2>2, <2>3 DEF View
  <1> QED BY <1>1, <1>4, <1>5

\* The new rows are part of the view when the start moves.
LEMMA FinishInv == ASSUME RingInv, Finish PROVE RingInv'
  <1>0. start' = start + Pending /\ history' = history + Pending /\ UNCHANGED <<storage, prompt>>
    BY FinishedView
  <1>1. /\ phase = "written" /\ phase' = "idle" /\ append' = NoAppend
    BY DEF Finish, FinishAppend
  <1>2. /\ Pending \in Nat \ {0} /\ start + Pending < Rows /\ history + Pending <= Rows
        /\ append.rows \in Seq(Values)
    BY <1>1, OneChunk DEF RingInv, Progress, RingTypeOK
  <1>3. Rows \in Nat \ {0} /\ start \in 0 .. Rows - 1 /\ history \in 1 .. Rows
    BY RingAssumption DEF RingAssumption, RingInv, RingTypeOK
  <1>4. NoAppend \in [rows : Seq(Values), done : Nat]
    BY DEF NoAppend
  <1>5. RingTypeOK'
    <2>1. start' \in 0 .. Rows - 1 /\ history' \in 1 .. Rows
      BY <1>2, <1>3, <1>0
    <2> QED BY <1>0, <1>1, <1>4, <2>1 DEF RingInv, RingTypeOK
  <1>6. (start = history - Len(prompt))'
    <2>1. Len(prompt) \in Nat
      BY RingAssumption DEF RingAssumption, RingInv, RingTypeOK
    <2>2. start = history - Len(prompt) /\ Len(prompt') = Len(prompt)
      BY <1>0 DEF RingInv
    <2> QED BY <1>0, <1>2, <1>3, <2>1, <2>2
  <1>7. Progress'
    BY <1>0, <1>1 DEF RingInv, Progress
  <1>8. CommittedRowsWritten'
    <2> SUFFICES ASSUME NEW r \in (Rows - history .. Rows - 1)' PROVE View(r)' \in Values
      BY DEF CommittedRowsWritten
    <2>1. r \in 0 .. Rows - 1 /\ r >= Rows - history - Pending
      BY <1>2, <1>3, FinishedView
    <2>2. CASE r < Rows - Pending
      <3>1. r + Pending \in Rows - history .. Rows - 1
        BY <1>2, <1>3, <2>1, <2>2
      <3> QED BY <2>1, <2>2, <3>1, FinishedView DEF RingInv, CommittedRowsWritten
    <2>3. CASE r >= Rows - Pending
      <3>1. r - (Rows - Pending) + 1 \in 1 .. Len(append.rows)
        BY <1>2, <1>3, <2>1, <2>3 DEF Pending
      <3>2. append.rows[r - (Rows - Pending) + 1] \in Values
        BY <1>2, <3>1, ElementOfSeq
      <3> QED BY <2>1, <2>3, <3>2, FinishedView
    <2> QED BY <1>2, <1>3, <2>1, <2>2, <2>3
  <1> QED BY <1>5, <1>6, <1>7, <1>8 DEF RingInv

\* New buffers hold the prompt rows again.
LEMMA ReseedInv == ASSUME RingInv, Reseed PROVE RingInv'
  <1>1. /\ storage' = Seeded(prompt) /\ start' = 0 /\ history' = Len(prompt)
        /\ append' = NoAppend /\ phase' = "idle" /\ prompt' = prompt
        /\ prompt \in Prompts
    BY DEF Reseed, RingInv, RingTypeOK
  <1>2. Rows \in Nat \ {0} /\ Len(prompt) \in 1 .. Rows
    BY <1>1, SeededRows, RingAssumption DEF RingAssumption
  <1>3. NoAppend \in [rows : Seq(Values), done : Nat]
    BY DEF NoAppend
  <1>4. RingTypeOK'
    BY <1>1, <1>2, <1>3, SeededRows DEF RingTypeOK
  <1>5. Progress'
    BY <1>1, SeededRows DEF Progress
  <1>6. CommittedRowsWritten'
    BY <1>1, <1>2, SeededRows DEF CommittedRowsWritten, View
  <1> QED BY <1>1, <1>2, <1>4, <1>5, <1>6 DEF RingInv

\* Every reachable state satisfies the inductive invariant.
LEMMA RingInvariant == RingSpec => []RingInv
  <1>1. RingInv /\ [RingNext]_ringVars => RingInv'
    <2> SUFFICES ASSUME RingInv, [RingNext]_ringVars PROVE RingInv'
      OBVIOUS
    <2>1. ASSUME NEW u \in Updates, NEW n \in 1 .. Len(u), Begin(u, n) PROVE RingInv'
      BY <2>1, BeginInv
    <2>2. CASE WriteLow
      BY <2>2, WriteLowInv
    <2>3. CASE WriteHigh
      BY <2>3, WriteHighInv
    <2>4. CASE WriteFails
      BY <2>4, WriteFailsInv
    <2>5. CASE Finish
      BY <2>5, FinishInv
    <2>6. CASE Reseed
      BY <2>6, ReseedInv
    <2>7. CASE UNCHANGED ringVars
      BY <2>7 DEF ringVars, RingInv, RingTypeOK, Progress, Pending, FromUpdate,
                  CommittedRowsWritten, View
    <2> QED BY <2>1, <2>2, <2>3, <2>4, <2>5, <2>6, <2>7 DEF RingNext
  <1> QED BY <1>1, InitInv, PTL DEF RingSpec

\* The state of the ring always has the shape RingTypeOK describes: the start is a
\* row of the ring and the history never outgrows it.
THEOREM RingTypeCorrect == RingSpec => []RingTypeOK
<1>1. RingInv => RingTypeOK
  BY DEF RingInv
<1> QED BY <1>1, RingInvariant, PTL

\* Both copies agree whenever no append is under way, the cache was rebuilt or
\* grew to any length before.
THEOREM RingMirrorCoherent == RingSpec => []MirrorCoherent
<1>1. RingInv => MirrorCoherent
  BY DEF RingInv, Progress, MirrorCoherent
<1> QED BY <1>1, RingInvariant, PTL

-----------------------------------------------------------------------------
\* The committed rows are a sequence of history rows.
LEMMA LogIsSequence ==
  ASSUME RingInv
  PROVE  CommittedLog \in Seq(Values) /\ Len(CommittedLog) = history
  <1>1. Rows \in Nat \ {0} /\ history \in 1 .. Rows
    BY RingAssumption DEF RingAssumption, RingInv, RingTypeOK
  <1>2. \A k \in 1 .. history : View(Rows - history + k - 1) \in Values
    BY <1>1 DEF RingInv, CommittedRowsWritten
  <1>3. CommittedLog \in [1 .. history -> Values]
    BY <1>2 DEF CommittedLog
  <1> QED BY <1>1, <1>3

\* The log stays when the committed rows do.
LEMMA LogKept ==
  ASSUME RingInv, UNCHANGED <<start, history>>,
         \A r \in Rows - history .. Rows - 1 : storage'[start + r] = storage[start + r]
  PROVE  CommittedLog' = CommittedLog
  <1>1. Rows \in Nat \ {0} /\ history \in 1 .. Rows
    BY RingAssumption DEF RingAssumption, RingInv, RingTypeOK
  <1>2. \A k \in 1 .. history : Rows - history + k - 1 \in Rows - history .. Rows - 1
    BY <1>1
  <1>3. \A k \in 1 .. history : View(Rows - history + k - 1)' = View(Rows - history + k - 1)
    BY <1>2 DEF View
  <1> QED BY <1>3 DEF CommittedLog

\* The newest rows of a seeded ring are the prompt.
LEMMA SeededLog ==
  ASSUME NEW p \in Prompts
  PROVE  [k \in 1 .. Len(p) |-> Seeded(p)[0 + (Rows - Len(p) + k - 1)]] = p
  <1>1. Rows \in Nat \ {0} /\ p \in Seq(Values) /\ Len(p) \in 1 .. Rows
    BY SeededRows, RingAssumption DEF RingAssumption
  <1>2. ASSUME NEW k \in 1 .. Len(p)
        PROVE  Seeded(p)[0 + (Rows - Len(p) + k - 1)] = p[k]
    <2> DEFINE r == 0 + (Rows - Len(p) + k - 1)
    <2>1. r \in Rows - Len(p) .. Rows - 1 /\ r - (Rows - Len(p)) + 1 = k
      BY <1>1
    <2> HIDE DEF r
    <2>2. Seeded(p)[r] = p[k]
      BY <2>1, SeededRows
    <2> QED BY <2>2 DEF r
  <1>3. p = [k \in 1 .. Len(p) |-> p[k]]
    BY <1>1
  <1> QED BY <1>2, <1>3

\* Moving the start adds the rows of the append to the log.
LEMMA FinishedLog ==
  ASSUME RingInv, Finish
  PROVE  CommittedLog' = CommittedLog \o append.rows
  <1>1. /\ Rows \in Nat \ {0} /\ history \in 1 .. Rows
        /\ append.rows \in Seq(Values) /\ Len(append.rows) = Pending
    BY RingAssumption DEF RingAssumption, RingInv, RingTypeOK, Pending
  <1>2. Pending \in Nat \ {0} /\ history + Pending <= Rows
    BY OneChunk DEF Finish, FinishAppend, RingInv, Progress
  <1>3. history' = history + Pending
    BY FinishedView
  <1>4. ASSUME NEW k \in 1 .. history + Pending, NEW r \in Int,
               r = Rows - (history + Pending) + k - 1
        PROVE  View(r)' = IF k <= history THEN CommittedLog[k] ELSE append.rows[k - history]
    <2>1. r \in 0 .. Rows - 1 /\ (k <= history <=> r < Rows - Pending)
      BY <1>1, <1>2, <1>4
    <2>2. CASE k <= history
      <3>1. View(r)' = View(r + Pending)
        BY <2>1, <2>2, FinishedView
      <3>2. k \in 1 .. history /\ r + Pending = Rows - history + k - 1
        BY <1>1, <1>2, <1>4, <2>2
      <3>3. CommittedLog[k] = View(r + Pending)
        BY <3>2 DEF CommittedLog
      <3> QED BY <2>2, <3>1, <3>3
    <2>3. CASE ~(k <= history)
      <3>1. r - (Rows - Pending) + 1 = k - history /\ r >= Rows - Pending
        BY <1>1, <1>2, <1>4, <2>3
      <3>2. View(r)' = append.rows[r - (Rows - Pending) + 1]
        BY <2>1, <3>1, FinishedView
      <3> QED BY <2>3, <3>1, <3>2
    <2> QED BY <2>2, <2>3
  <1>5. CommittedLog' = [k \in 1 .. history + Pending |->
                           IF k <= history THEN CommittedLog[k] ELSE append.rows[k - history]]
    <2>1. ASSUME NEW k \in 1 .. history + Pending
          PROVE  View(Rows - history + k - 1)'
                   = IF k <= history THEN CommittedLog[k] ELSE append.rows[k - history]
      <3>1. /\ Rows - (history + Pending) + k - 1 \in Int
            /\ Rows - history' + k - 1 = Rows - (history + Pending) + k - 1
        BY <1>1, <1>2, <1>3
      <3> QED BY <1>4, <3>1 DEF View
    <2> QED BY <1>3, <2>1 DEF CommittedLog
  <1>6. CommittedLog \in Seq(Values) /\ Len(CommittedLog) = history
    BY LogIsSequence
  <1> HIDE DEF CommittedLog
  <1>7. CommittedLog \o append.rows
          = [k \in 1 .. history + Pending |->
               IF k <= history THEN CommittedLog[k] ELSE append.rows[k - history]]
    BY <1>1, <1>2, <1>6
  <1> QED BY <1>5, <1>7

\* A ring of any capacity implements the log of KVLog, every step of an append
\* and every failure included: a graph reads the committed rows in order, the
\* rows of an append that has not finished or has failed are never among them,
\* and the rebuilt cache holds the prompt again.
THEOREM RingImplementsLog == RingSpec => ImplementsLog
<1>1. RingInit => Abstract!Init
  BY SeededLog DEF RingInit, Abstract!Init, CommittedLog, View
<1>2. RingInv /\ [RingNext]_ringVars => [Abstract!Next]_(Abstract!vars)
  <2> SUFFICES ASSUME RingInv, [RingNext]_ringVars PROVE [Abstract!Next]_(Abstract!vars)
    OBVIOUS
  <2>1. ASSUME NEW u \in Updates, NEW n \in 1 .. Len(u), Begin(u, n)
        PROVE  UNCHANGED Abstract!vars
    <3>1. /\ UNCHANGED <<storage, start, history, prompt>>
          /\ phase = "idle" /\ phase' = "low"
      BY <2>1 DEF Begin, BeginAppend
    <3> QED BY <3>1, LogKept DEF Abstract!vars
  <2>2. CASE WriteLow
    <3>1. /\ phase = "low" /\ phase' = "high" /\ storage' = WithChunkAt(start)
          /\ UNCHANGED <<start, history, prompt>>
      BY <2>2, OneChunk DEF WriteLow
    <3> QED BY <3>1, LogKept, CommittedUntouched DEF Abstract!vars
  <2>3. CASE WriteHigh
    <3>1. /\ phase = "high" /\ phase' # "failed" /\ storage' = WithChunkAt(Rows + start)
          /\ UNCHANGED <<start, history, prompt>>
      BY <2>3, OneChunk DEF WriteHigh
    <3> QED BY <3>1, LogKept, CommittedUntouched DEF Abstract!vars
  <2>4. CASE WriteFails
    <3>1. /\ phase \in {"low", "high"} /\ phase' = "failed"
          /\ UNCHANGED <<start, history, prompt>>
      BY <2>4 DEF WriteFails
    <3>2. \E base \in {start, Rows + start} :
            storage' = WithChunkAt(base) \/ storage' = storage
      <4>1. Destination = start /\ Rows \in Nat /\ start \in 0 .. Rows - 1
        BY <3>1, OneChunk, RingAssumption DEF RingAssumption, RingInv, RingTypeOK
      <4> QED BY <2>4, <4>1 DEF WriteFails
    <3>3. CommittedLog' = CommittedLog
      BY <3>1, <3>2, LogKept, CommittedUntouched
    <3> QED BY <3>1, <3>3 DEF Abstract!Next, Abstract!Break
  <2>5. CASE Finish
    <3>1. /\ phase = "written" /\ phase' = "idle" /\ UNCHANGED prompt
      BY <2>5 DEF Finish, FinishAppend
    <3>2. PICK u \in Updates : \E n \in 1 .. Len(u) : append.rows = SubSeq(u, 1, n)
      BY <3>1 DEF RingInv, Progress, FromUpdate
    <3>3. PICK n \in 1 .. Len(u) : append.rows = SubSeq(u, 1, n)
      BY <3>2
    <3>4. Len(append.rows) = n
      <4>1. u \in Seq(Values)
        BY RingAssumption DEF RingAssumption
      <4> QED BY <3>3, <4>1, SubSeqProperties, LenProperties
    <3>5. Len(CommittedLog) + n <= Rows
      BY <3>1, <3>4, LogIsSequence DEF RingInv, Progress, Pending
    <3> QED BY <2>5, <3>1, <3>3, <3>5, FinishedLog DEF Abstract!Next, Abstract!Commit
  <2>6. CASE Reseed
    <3>1. /\ storage' = Seeded(prompt') /\ start' = 0 /\ history' = Len(prompt')
          /\ prompt' \in Prompts /\ prompt' = prompt /\ phase' = "idle"
      BY <2>6 DEF Reseed, RingInv, RingTypeOK
    <3>2. CommittedLog' = prompt'
      BY <3>1, SeededLog DEF CommittedLog, View
    <3> QED BY <3>1, <3>2 DEF Abstract!Next, Abstract!Rebuild
  <2>7. CASE UNCHANGED ringVars
    BY <2>7 DEF ringVars, Abstract!vars, CommittedLog, View
  <2> QED BY <2>1, <2>2, <2>3, <2>4, <2>5, <2>6, <2>7 DEF RingNext
<1> QED BY <1>1, <1>2, RingInvariant, PTL DEF RingSpec, ImplementsLog, Abstract!Spec

-----------------------------------------------------------------------------
(* Any caller: an append of up to a whole ring, in two chunks when it crosses *)
(* the end.  Rows are told apart by their distance from the start.            *)
Distance(i) == IF i >= start THEN i - start ELSE i + Rows - start

\* Rows of the append that the low copy holds; the high copy holds append.done.
LowDone == IF phase = "high" THEN append.done + ChunkRows ELSE append.done

SlideType ==
  /\ start \in 0 .. Rows - 1
  /\ prompt \in Prompts
  /\ append \in [rows : Seq(Values), done : Nat]
  /\ phase \in {"idle", "low", "high", "written", "failed"}

\* What is still to be written begins at the start or, after the first chunk,
\* at row zero.
Chunks ==
  /\ phase \in {"low", "high", "written"} => Pending \in 1 .. Rows
  /\ phase \in {"low", "high"} =>
       append.done = 0 \/ (append.done = Rows - start /\ Rows - start < Pending)
  /\ phase = "written" => append.done = Pending

\* Either copy has the rows written to it; elsewhere the copies agree.
Landed ==
  /\ phase = "idle" => \A i \in 0 .. Rows - 1 : storage[i] = storage[i + Rows]
  /\ phase \in {"low", "high", "written"} =>
       \A i \in 0 .. Rows - 1 :
         /\ Distance(i) < LowDone => storage[i] = append.rows[Distance(i) + 1]
         /\ Distance(i) < append.done => storage[i + Rows] = append.rows[Distance(i) + 1]
         /\ Distance(i) >= LowDone => storage[i] = storage[i + Rows]

SlideInv == SlideType /\ Chunks /\ Landed

\* An append of up to a whole ring always begins to write at the start.
LEMMA WritesFromStart ==
  ASSUME start \in 0 .. Rows - 1, NEW n \in 1 .. Rows
  PROVE  /\ FirstDestination(n) = start
         /\ NewStart(n) = IF start + n < Rows THEN start + n ELSE start + n - Rows
  <1>1. Rows \in Nat \ {0}
    BY RingAssumption DEF RingAssumption
  <1>2. start + n \in Nat /\ start + n < 2 * Rows
    BY <1>1
  <1>3. NewStart(n) = IF start + n < Rows THEN start + n ELSE start + n - Rows
    BY <1>1, <1>2, Remainder DEF NewStart
  <1>4. CASE start + n < Rows
    <2>1. NewStart(n) + Rows - n = start + Rows
      BY <1>1, <1>3, <1>4
    <2>2. start + Rows \in Nat /\ start + Rows < 2 * Rows /\ start + Rows >= Rows
      BY <1>1
    <2>3. (start + Rows) % Rows = (start + Rows) - Rows
      BY <2>2, Remainder
    <2>4. (start + Rows) - Rows = start
      BY <1>1
    <2> QED BY <1>3, <2>1, <2>3, <2>4 DEF FirstDestination
  <1>5. CASE start + n >= Rows
    <2>1. NewStart(n) + Rows - n = start
      BY <1>1, <1>3, <1>5
    <2>2. start \in Nat /\ start < 2 * Rows /\ start < Rows
      BY <1>1
    <2> QED BY <1>3, <2>1, <2>2, Remainder DEF FirstDestination
  <1> QED BY <1>1, <1>2, <1>3, <1>4, <1>5

\* The chunk to write next, in distances from the start.
LEMMA NextChunk ==
  ASSUME SlideInv, phase \in {"low", "high"}
  PROVE  /\ Destination \in 0 .. Rows - 1 /\ Destination + ChunkRows <= Rows
         /\ ChunkRows \in Nat \ {0} /\ Pending \in 1 .. Rows
         /\ append.done + ChunkRows <= Pending
         /\ ChunkRows = Remaining <=> append.done + ChunkRows = Pending
         /\ ChunkRows # Remaining =>
              append.done + ChunkRows = Rows - start /\ Rows - start < Pending
         /\ \A i \in 0 .. Rows - 1 :
              /\ Destination <= i /\ i < Destination + ChunkRows
                   <=> append.done <= Distance(i) /\ Distance(i) < append.done + ChunkRows
              /\ Destination <= i /\ i < Destination + ChunkRows =>
                   append.done + (i - Destination) + 1 = Distance(i) + 1
  <1>1. /\ Rows \in Nat \ {0} /\ start \in 0 .. Rows - 1 /\ Pending \in 1 .. Rows
        /\ append.done \in Nat
    BY RingAssumption DEF RingAssumption, SlideInv, SlideType, Chunks
  <1>2. FirstDestination(Pending) = start
    BY <1>1, WritesFromStart
  <1>3. Remaining = Pending - append.done
    BY DEF Remaining, Pending
  <1>4. Destination = IF append.done = 0 THEN start ELSE 0
    BY <1>2 DEF Destination, Pending
  <1>5. ChunkRows = IF Remaining <= Rows - Destination THEN Remaining ELSE Rows - Destination
    BY DEF ChunkRows
  <1>6. append.done = 0 \/ (append.done = Rows - start /\ Rows - start < Pending)
    BY DEF SlideInv, Chunks
  <1>7. CASE append.done = 0
    BY <1>1, <1>3, <1>4, <1>5, <1>7 DEF Distance
  <1>8. CASE append.done # 0
    <2>1. /\ append.done = Rows - start /\ Destination = 0
          /\ Remaining = Pending - (Rows - start) /\ ChunkRows = Remaining
          /\ Remaining \in 1 .. start
      BY <1>1, <1>3, <1>4, <1>5, <1>6, <1>8
    <2> QED BY <1>1, <2>1 DEF Distance
  <1> QED BY <1>7, <1>8

\* A write reaches the rows of its chunk in one copy, the other copy stays.
LEMMA ChunkPlaced ==
  ASSUME SlideInv, phase \in {"low", "high"}, NEW i \in 0 .. Rows - 1
  PROVE  /\ WithChunkAt(Destination)[i] =
              IF append.done <= Distance(i) /\ Distance(i) < append.done + ChunkRows
              THEN append.rows[Distance(i) + 1] ELSE storage[i]
         /\ WithChunkAt(Destination)[i + Rows] = storage[i + Rows]
         /\ WithChunkAt(Rows + Destination)[i + Rows] =
              IF append.done <= Distance(i) /\ Distance(i) < append.done + ChunkRows
              THEN append.rows[Distance(i) + 1] ELSE storage[i + Rows]
         /\ WithChunkAt(Rows + Destination)[i] = storage[i]
  <1>1. Rows \in Nat \ {0}
    BY RingAssumption DEF RingAssumption
  <1>2. /\ Destination \in 0 .. Rows - 1 /\ Destination + ChunkRows <= Rows
        /\ ChunkRows \in Nat \ {0}
    BY NextChunk
  <1>3. /\ Destination <= i /\ i < Destination + ChunkRows
             <=> append.done <= Distance(i) /\ Distance(i) < append.done + ChunkRows
        /\ Destination <= i /\ i < Destination + ChunkRows =>
             append.done + (i - Destination) + 1 = Distance(i) + 1
    BY NextChunk
  <1>4. i \in 0 .. 2 * Rows - 1 /\ i + Rows \in 0 .. 2 * Rows - 1
    BY <1>1
  <1>5. ASSUME NEW base, NEW j \in 0 .. 2 * Rows - 1
        PROVE  WithChunkAt(base)[j] = IF base <= j /\ j < base + ChunkRows
                                      THEN append.rows[append.done + (j - base) + 1]
                                      ELSE storage[j]
    BY DEF WithChunkAt
  <1>6. /\ ~(i + Rows < Destination + ChunkRows)
        /\ ~(Rows + Destination <= i)
        /\ Rows + Destination <= i + Rows <=> Destination <= i
        /\ i + Rows < Rows + Destination + ChunkRows <=> i < Destination + ChunkRows
        /\ (i + Rows) - (Rows + Destination) = i - Destination
    BY <1>1, <1>2
  <1> HIDE DEF Destination, ChunkRows, Distance
  <1>7. WithChunkAt(Destination)[i + Rows] = storage[i + Rows]
    BY <1>4, <1>5, <1>6
  <1>8. WithChunkAt(Rows + Destination)[i] = storage[i]
    BY <1>4, <1>5, <1>6
  <1>9. WithChunkAt(Destination)[i] =
          IF append.done <= Distance(i) /\ Distance(i) < append.done + ChunkRows
          THEN append.rows[Distance(i) + 1] ELSE storage[i]
    BY <1>3, <1>4, <1>5, Zenon
  <1>10. WithChunkAt(Rows + Destination)[i + Rows] =
           IF append.done <= Distance(i) /\ Distance(i) < append.done + ChunkRows
           THEN append.rows[Distance(i) + 1] ELSE storage[i + Rows]
    <2>1. WithChunkAt(Rows + Destination)[i + Rows] =
            IF Destination <= i /\ i < Destination + ChunkRows
            THEN append.rows[append.done + (i - Destination) + 1] ELSE storage[i + Rows]
      BY <1>4, <1>5, <1>6, Zenon
    <2> QED BY <1>3, <2>1, Zenon
  <1> QED BY <1>7, <1>8, <1>9, <1>10

\* A seeded ring, at first and after a rebuild.
LEMMA SeededSlides ==
  ASSUME prompt \in Prompts, storage = Seeded(prompt), start = 0, append = NoAppend,
         phase = "idle"
  PROVE  SlideInv
  <1>1. Rows \in Nat \ {0} /\ NoAppend \in [rows : Seq(Values), done : Nat]
    BY RingAssumption DEF RingAssumption, NoAppend
  <1>2. \A i \in 0 .. Rows - 1 : storage[i] = storage[i + Rows]
    BY SeededRows
  <1> QED BY <1>1, <1>2 DEF SlideInv, SlideType, Chunks, Landed

\* Nothing has landed when an append begins.
LEMMA BeginSlides ==
  ASSUME SlideInv, NEW u \in Updates, NEW n \in 1 .. Len(u), BeginAppend(u, n)
  PROVE  SlideInv'
  <1>1. Rows \in Nat \ {0} /\ u \in Seq(Values) /\ n \in 1 .. Len(u) /\ n <= Rows
    BY RingAssumption DEF RingAssumption, BeginAppend
  <1>2. SubSeq(u, 1, n) \in Seq(Values) /\ Len(SubSeq(u, 1, n)) = n
    BY <1>1, SubSeqProperties, LenProperties
  <1>3. /\ append' = [rows |-> SubSeq(u, 1, n), done |-> 0]
        /\ phase' = "low" /\ phase = "idle"
        /\ UNCHANGED <<storage, start, history, prompt>>
    BY DEF BeginAppend
  <1>4. Pending' = n /\ append'.done = 0 /\ LowDone' = 0
    BY <1>2, <1>3 DEF Pending, LowDone
  <1>5. SlideType'
    BY <1>2, <1>3 DEF SlideInv, SlideType
  <1>6. Chunks'
    BY <1>1, <1>3, <1>4 DEF Chunks
  <1>7. \A i \in 0 .. Rows - 1 : Distance(i)' = Distance(i) /\ ~(Distance(i) < 0)
    BY <1>1, <1>3 DEF Distance, SlideInv, SlideType
  <1>8. Landed'
    BY <1>3, <1>4, <1>7 DEF SlideInv, Landed
  <1> QED BY <1>5, <1>6, <1>8 DEF SlideInv

\* A chunk has landed in the low copy.
LEMMA WriteLowSlides == ASSUME SlideInv, WriteLow PROVE SlideInv'
  <1>1. /\ phase = "low" /\ phase' = "high" /\ storage' = WithChunkAt(Destination)
        /\ UNCHANGED <<start, history, prompt, append>>
    BY DEF WriteLow
  <1>2. /\ Rows \in Nat \ {0} /\ start \in 0 .. Rows - 1 /\ append.done \in Nat
        /\ ChunkRows \in Nat \ {0}
    BY <1>1, NextChunk, RingAssumption DEF RingAssumption, SlideInv, SlideType
  <1>3. /\ LowDone = append.done /\ LowDone' = append.done + ChunkRows
        /\ append'.done = append.done /\ Pending' = Pending
    BY <1>1 DEF LowDone, ChunkRows, Remaining, Destination, FirstDestination, NewStart, Pending
  <1>4. SlideType' /\ Chunks'
    BY <1>1, <1>3 DEF SlideInv, SlideType, Chunks
  <1>5. ASSUME NEW i \in 0 .. Rows - 1
        PROVE  /\ Distance(i)' < LowDone' => storage'[i] = append'.rows[Distance(i)' + 1]
               /\ Distance(i)' < append'.done =>
                    storage'[i + Rows] = append'.rows[Distance(i)' + 1]
               /\ Distance(i)' >= LowDone' => storage'[i] = storage'[i + Rows]
    <2>1. Distance(i)' = Distance(i) /\ Distance(i) \in Nat
      BY <1>1, <1>2 DEF Distance
    <2>2. /\ storage'[i] = IF append.done <= Distance(i) /\ Distance(i) < append.done + ChunkRows
                           THEN append.rows[Distance(i) + 1] ELSE storage[i]
          /\ storage'[i + Rows] = storage[i + Rows]
      BY <1>1, ChunkPlaced
    <2>3. /\ Distance(i) < append.done => storage[i] = append.rows[Distance(i) + 1]
          /\ Distance(i) < append.done => storage[i + Rows] = append.rows[Distance(i) + 1]
          /\ Distance(i) >= append.done => storage[i] = storage[i + Rows]
      BY <1>1, <1>3 DEF SlideInv, Landed
    <2> HIDE DEF Distance, ChunkRows
    <2> QED BY <1>1, <1>2, <1>3, <2>1, <2>2, <2>3
  <1>6. Landed'
    BY <1>1, <1>5 DEF Landed
  <1> QED BY <1>4, <1>6 DEF SlideInv

\* A chunk has landed in both copies.
LEMMA WriteHighSlides == ASSUME SlideInv, WriteHigh PROVE SlideInv'
  <1>1. /\ phase = "high" /\ storage' = WithChunkAt(Rows + Destination)
        /\ phase' = IF ChunkRows = Remaining THEN "written" ELSE "low"
        /\ UNCHANGED <<start, history, prompt>>
    BY DEF WriteHigh
  <1>2. /\ Rows \in Nat \ {0} /\ start \in 0 .. Rows - 1 /\ append.done \in Nat
        /\ ChunkRows \in Nat \ {0} /\ Pending \in 1 .. Rows
    BY <1>1, NextChunk, RingAssumption DEF RingAssumption, SlideInv, SlideType
  <1>3. /\ append' \in [rows : Seq(Values), done : Nat]
        /\ append'.rows = append.rows /\ append'.done = append.done + ChunkRows
    <2>1. append \in [rows : Seq(Values), done : Nat]
      BY DEF SlideInv, SlideType
    <2>2. append' = [append EXCEPT !.done = append.done + ChunkRows]
      BY DEF WriteHigh
    <2>3. append.done + ChunkRows \in Nat
      BY <1>2
    <2> QED BY <2>1, <2>2, <2>3
  <1>4. /\ LowDone = append.done + ChunkRows /\ LowDone' = append.done + ChunkRows
        /\ Pending' = Pending
    BY <1>1, <1>3 DEF LowDone, Pending
  <1>5. SlideType'
    BY <1>1, <1>3 DEF SlideInv, SlideType
  <1>6. Chunks'
    <2>1. /\ ChunkRows = Remaining <=> append.done + ChunkRows = Pending
          /\ ChunkRows # Remaining =>
               append.done + ChunkRows = Rows - start /\ Rows - start < Pending
      BY <1>1, NextChunk
    <2> QED BY <1>1, <1>2, <1>3, <1>4, <2>1 DEF Chunks
  <1>7. ASSUME NEW i \in 0 .. Rows - 1
        PROVE  /\ Distance(i)' < LowDone' => storage'[i] = append'.rows[Distance(i)' + 1]
               /\ Distance(i)' < append'.done =>
                    storage'[i + Rows] = append'.rows[Distance(i)' + 1]
               /\ Distance(i)' >= LowDone' => storage'[i] = storage'[i + Rows]
    <2>1. Distance(i)' = Distance(i) /\ Distance(i) \in Nat
      BY <1>1, <1>2 DEF Distance
    <2>2. /\ storage'[i + Rows] =
               IF append.done <= Distance(i) /\ Distance(i) < append.done + ChunkRows
               THEN append.rows[Distance(i) + 1] ELSE storage[i + Rows]
          /\ storage'[i] = storage[i]
      BY <1>1, ChunkPlaced
    <2>3. /\ Distance(i) < append.done + ChunkRows => storage[i] = append.rows[Distance(i) + 1]
          /\ Distance(i) < append.done => storage[i + Rows] = append.rows[Distance(i) + 1]
          /\ Distance(i) >= append.done + ChunkRows => storage[i] = storage[i + Rows]
      BY <1>1, <1>4 DEF SlideInv, Landed
    <2> HIDE DEF Distance, ChunkRows
    <2> QED BY <1>2, <1>3, <1>4, <2>1, <2>2, <2>3
  <1>8. Landed'
    BY <1>1, <1>7 DEF Landed
  <1> QED BY <1>5, <1>6, <1>8 DEF SlideInv

\* All rows of the append are in both copies when the start moves.
LEMMA FinishSlides == ASSUME SlideInv, FinishAppend PROVE SlideInv'
  <1>1. /\ phase = "written" /\ phase' = "idle" /\ append' = NoAppend
        /\ start' = NewStart(Pending) /\ UNCHANGED <<storage, prompt>>
    BY DEF FinishAppend, Pending
  <1>2. /\ Rows \in Nat \ {0} /\ start \in 0 .. Rows - 1 /\ Pending \in 1 .. Rows
        /\ append.done = Pending /\ LowDone = append.done
    BY <1>1, RingAssumption DEF RingAssumption, SlideInv, SlideType, Chunks, LowDone
  <1>3. start' \in 0 .. Rows - 1
    BY <1>1, <1>2, WritesFromStart
  <1>4. NoAppend \in [rows : Seq(Values), done : Nat]
    BY DEF NoAppend
  <1>5. SlideType' /\ Chunks'
    BY <1>1, <1>3, <1>4 DEF SlideInv, SlideType, Chunks
  <1>6. \A i \in 0 .. Rows - 1 : storage[i] = storage[i + Rows]
    <2> SUFFICES ASSUME NEW i \in 0 .. Rows - 1 PROVE storage[i] = storage[i + Rows]
      OBVIOUS
    <2>1. Distance(i) \in Nat
      BY <1>2 DEF Distance
    <2>2. /\ Distance(i) < Pending => storage[i] = append.rows[Distance(i) + 1]
          /\ Distance(i) < Pending => storage[i + Rows] = append.rows[Distance(i) + 1]
          /\ Distance(i) >= Pending => storage[i] = storage[i + Rows]
      BY <1>1, <1>2 DEF SlideInv, Landed
    <2> QED BY <1>2, <2>1, <2>2
  <1>7. Landed'
    BY <1>1, <1>6 DEF Landed
  <1> QED BY <1>5, <1>7 DEF SlideInv

\* Whoever appends, and whatever fails, the invariant is kept.
LEMMA SlideInvKept ==
  ASSUME SlideInv, [RingNext \/ ContractNext]_ringVars
  PROVE  SlideInv'
  <1>1. ASSUME NEW u \in Updates, NEW n \in 1 .. Len(u), BeginAppend(u, n) PROVE SlideInv'
    BY <1>1, BeginSlides
  <1>2. CASE WriteLow
    BY <1>2, WriteLowSlides
  <1>3. CASE WriteHigh
    BY <1>3, WriteHighSlides
  <1>4. CASE WriteFails
    <2>1. phase' = "failed" /\ UNCHANGED <<start, prompt, append>>
      BY <1>4 DEF WriteFails
    <2> QED BY <2>1 DEF SlideInv, SlideType, Chunks, Landed
  <1>5. CASE FinishAppend
    BY <1>5, FinishSlides
  <1>6. CASE Reseed
    <2>1. /\ prompt' \in Prompts /\ storage' = Seeded(prompt') /\ start' = 0
          /\ append' = NoAppend /\ phase' = "idle"
      BY <1>6 DEF Reseed, SlideInv, SlideType
    <2>2. Rows \in Nat \ {0} /\ NoAppend \in [rows : Seq(Values), done : Nat]
      BY RingAssumption DEF RingAssumption, NoAppend
    <2>3. \A i \in 0 .. Rows - 1 : storage'[i] = storage'[i + Rows]
      BY <2>1, SeededRows
    <2> QED BY <2>1, <2>2, <2>3 DEF SlideInv, SlideType, Chunks, Landed
  <1>7. CASE UNCHANGED ringVars
    BY <1>7 DEF ringVars, SlideInv, SlideType, Chunks, Landed, Pending, LowDone, Distance,
                ChunkRows, Remaining, Destination, FirstDestination, NewStart
  <1> QED BY <1>1, <1>2, <1>3, <1>4, <1>5, <1>6, <1>7 DEF RingNext, ContractNext, Begin, Finish

\* A write leaves the rows that stay in the view alone.
LEMMA KeptRowsUntouched ==
  ASSUME SlideInv, phase \in {"low", "high"}, NEW r \in Pending .. Rows - 1
  PROVE  /\ WithChunkAt(Destination)[start + r] = storage[start + r]
         /\ WithChunkAt(Rows + Destination)[start + r] = storage[start + r]
  <1>1. /\ Rows \in Nat \ {0} /\ start \in 0 .. Rows - 1 /\ Pending \in 1 .. Rows
        /\ append.done + ChunkRows <= Pending /\ append.done \in Nat /\ ChunkRows \in Nat
    BY NextChunk, RingAssumption DEF RingAssumption, SlideInv, SlideType
  <1>2. CASE start + r < Rows
    <2>1. /\ start + r \in 0 .. Rows - 1
          /\ ~(Distance(start + r) < append.done + ChunkRows)
      BY <1>1, <1>2 DEF Distance
    <2> QED BY <2>1, ChunkPlaced
  <1>3. CASE start + r >= Rows
    <2> DEFINE i == start + r - Rows
    <2>1. /\ i \in 0 .. Rows - 1 /\ i + Rows = start + r
          /\ ~(Distance(i) < append.done + ChunkRows)
      BY <1>1, <1>3 DEF Distance
    <2> HIDE DEF i
    <2> QED BY <2>1, ChunkPlaced
  <1> QED BY <1>1, <1>2, <1>3

\* The view after the start has moved, wherever in the ring it now is.
LEMMA SlidView ==
  ASSUME SlideInv, FinishAppend, NEW r \in 0 .. Rows - 1
  PROVE  View(r)' = IF r < Rows - Pending THEN View(r + Pending)
                    ELSE append.rows[r - (Rows - Pending) + 1]
  <1>1. /\ phase = "written" /\ start' = NewStart(Pending) /\ UNCHANGED storage
    BY DEF FinishAppend, Pending
  <1>2. /\ Rows \in Nat \ {0} /\ start \in 0 .. Rows - 1 /\ Pending \in 1 .. Rows
        /\ append.done = Pending /\ LowDone = Pending
    BY <1>1, RingAssumption DEF RingAssumption, SlideInv, SlideType, Chunks, LowDone
  <1>3. start' = IF start + Pending < Rows THEN start + Pending ELSE start + Pending - Rows
    BY <1>1, <1>2, WritesFromStart
  <1>4. View(r)' = storage[start' + r]
    BY <1>1 DEF View
  <1>5. \A i \in 0 .. Rows - 1 :
          /\ Distance(i) < Pending => storage[i] = append.rows[Distance(i) + 1]
          /\ Distance(i) < Pending => storage[i + Rows] = append.rows[Distance(i) + 1]
          /\ Distance(i) >= Pending => storage[i] = storage[i + Rows]
    BY <1>1, <1>2 DEF SlideInv, Landed
  <1>6. ASSUME r < Rows - Pending PROVE View(r)' = View(r + Pending)
    <2>1. View(r + Pending) = storage[start + (r + Pending)]
      BY DEF View
    <2>2. CASE start + Pending < Rows
      <3>1. start' + r = start + (r + Pending)
        BY <1>2, <1>3, <2>2
      <3> QED BY <1>4, <2>1, <3>1
    <2>3. CASE start + Pending >= Rows
      <3> DEFINE i == start + Pending - Rows + r
      <3>1. /\ i \in 0 .. Rows - 1 /\ start' + r = i /\ start + (r + Pending) = i + Rows
            /\ Distance(i) >= Pending
        BY <1>2, <1>3, <1>6, <2>3 DEF Distance
      <3> HIDE DEF i
      <3> QED BY <1>4, <1>5, <2>1, <3>1
    <2> QED BY <1>2, <2>2, <2>3
  <1>7. ASSUME ~(r < Rows - Pending)
        PROVE  View(r)' = append.rows[r - (Rows - Pending) + 1]
    <2> DEFINE k == r - (Rows - Pending)
    <2>1. k \in 0 .. Pending - 1
      BY <1>2, <1>7
    <2>2. CASE start + k < Rows
      <3> DEFINE i == start + k
      <3>1. /\ i \in 0 .. Rows - 1 /\ start' + r \in {i, i + Rows} /\ Distance(i) = k
        BY <1>2, <1>3, <1>7, <2>1, <2>2 DEF Distance
      <3>2. Distance(i) < Pending
        BY <2>1, <3>1, <1>2
      <3> HIDE DEF i
      <3> QED BY <1>4, <1>5, <3>1, <3>2
    <2>3. CASE start + k >= Rows
      <3> DEFINE i == start + k - Rows
      <3>1. /\ i \in 0 .. Rows - 1 /\ start' + r = i + Rows /\ Distance(i) = k
        BY <1>2, <1>3, <1>7, <2>1, <2>3 DEF Distance
      <3>2. Distance(i) < Pending
        BY <2>1, <3>1, <1>2
      <3> HIDE DEF i
      <3> QED BY <1>4, <1>5, <3>1, <3>2
    <2> QED BY <1>2, <2>1, <2>2, <2>3
  <1> QED BY <1>6, <1>7

\* An append of any length up to a whole ring, by the engine or by any other
\* caller, slides the view by its rows also when it crosses the end of the ring;
\* no write on the way, not even one that fails, touches a row that stays.
THEOREM AppendSlidesWindow == (RingSpec => WindowSlides) /\ (ContractSpec => WindowSlides)
<1> DEFINE Slides ==
      LET n == Len(append.rows)
      IN /\ phase \in {"low", "high"} =>
              \A r \in n .. Rows - 1 : View(r)' = View(r)
         /\ phase = "written" /\ phase' = "idle" =>
              \A r \in 0 .. Rows - 1 :
                View(r)' = IF r < Rows - n THEN View(r + n)
                           ELSE append.rows[r - (Rows - n) + 1]
<1>1. RingInit => SlideInv
  BY SeededSlides DEF RingInit
<1>2. SlideInv /\ [RingNext \/ ContractNext]_ringVars => SlideInv'
  BY SlideInvKept
<1>3. SlideInv /\ (RingNext \/ ContractNext) => Slides
  <2> SUFFICES ASSUME SlideInv, RingNext \/ ContractNext PROVE Slides
    OBVIOUS
  <2>1. ASSUME NEW u \in Updates, NEW n \in 1 .. Len(u), BeginAppend(u, n) PROVE Slides
    BY <2>1 DEF BeginAppend
  <2>2. CASE WriteLow
    BY <2>2, KeptRowsUntouched DEF WriteLow, View, Pending
  <2>3. CASE WriteHigh
    BY <2>3, KeptRowsUntouched DEF WriteHigh, View, Pending
  <2>4. CASE WriteFails
    <3>1. /\ start' = start /\ phase' = "failed" /\ phase \in {"low", "high"}
          /\ \/ storage' = WithChunkAt(Destination)
             \/ storage' = WithChunkAt(Rows + Destination)
             \/ storage' = storage
      <4>1. Destination + 0 = Destination /\ Destination + Rows = Rows + Destination
        BY <2>4, NextChunk, RingAssumption DEF WriteFails, RingAssumption
      <4> QED BY <2>4, <4>1 DEF WriteFails
    <3> QED BY <3>1, KeptRowsUntouched DEF View, Pending
  <2>5. CASE FinishAppend
    BY <2>5, SlidView DEF FinishAppend, Pending
  <2>6. CASE Reseed
    BY <2>6 DEF Reseed
  <2> QED BY <2>1, <2>2, <2>3, <2>4, <2>5, <2>6 DEF RingNext, ContractNext, Begin, Finish
<1>4. SlideInv /\ [RingNext]_ringVars => [Slides]_ringVars /\ SlideInv'
  BY <1>2, <1>3
<1>5. SlideInv /\ [ContractNext]_ringVars => [Slides]_ringVars /\ SlideInv'
  BY <1>2, <1>3
<1>6. RingSpec => [][Slides]_ringVars
  BY <1>1, <1>4, PTL DEF RingSpec
<1>7. ContractSpec => [][Slides]_ringVars
  BY <1>1, <1>5, PTL DEF ContractSpec
<1> QED BY <1>6, <1>7 DEF WindowSlides

-----------------------------------------------------------------------------
(* The ranks of a row                                                        *)

IsRow(row) ==
  /\ IsFiniteSet(DOMAIN row) /\ DOMAIN row \subseteq Tokens
  /\ \A token \in DOMAIN row : row[token] \in 1 .. 100

Ahead(row, token) == {other \in Pool(row) : Before(row, other, token)}

\* A set of numbers has a least one.
LEMMA LeastNatural ==
  ASSUME NEW T \in SUBSET Nat, T # {}
  PROVE  \E x \in T : \A y \in T : x <= y
  <1> DEFINE R == OpToRel(<, Nat)
  <1>1. \A x, y \in Nat : <<y, x>> \in R <=> y < x
    BY DEF OpToRel
  <1>2. IsWellFoundedOn(R, Nat)
    BY NatLessThanWellFounded
  <1> HIDE DEF R
  <1>3. PICK x \in T : \A y \in T : ~ (<<y, x>> \in R)
    BY <1>2, WFMin
  <1>4. \A y \in T : ~(y < x)
    BY <1>1, <1>3
  <1>5. \A y \in T : x <= y
    BY <1>4, SMT
  <1> QED BY <1>5

\* The five lowest ids are five.
LEMMA LowestTokens ==
  IsFiniteSet(0 .. 4) /\ Cardinality(0 .. 4) = 5
  <1>1. 0 \in Int /\ 4 \in Int
    OBVIOUS
  <1>2. IsFiniteSet(0 .. 4) /\ Cardinality(0 .. 4) = IF 0 > 4 THEN 0 ELSE 4 - 0 + 1
    BY <1>1, FS_Interval, Zenon
  <1> QED BY <1>2

\* The tokens that rank are finitely many, five or more.
LEMMA PoolTokens ==
  ASSUME NEW row, IsRow(row)
  PROVE  /\ Pool(row) \subseteq Tokens /\ IsFiniteSet(Pool(row))
         /\ 0 .. 4 \subseteq Pool(row) /\ Pool(row) \subseteq Nat
         /\ DOMAIN row \subseteq Pool(row)
  <1>1. 0 .. 4 \subseteq Tokens /\ Tokens \subseteq Nat
    BY DEF Tokens, kVocab
  <1>2. IsFiniteSet(0 .. 4)
    BY LowestTokens
  <1>3. IsFiniteSet(DOMAIN row \cup 0 .. 4)
    BY <1>2, FS_Union DEF IsRow
  <1> QED BY <1>1, <1>3 DEF Pool, IsRow

\* A probability is a percentage, and at least one where the nucleus kept the token.
LEMMA ProbRange ==
  ASSUME NEW row, IsRow(row), NEW token
  PROVE  Prob(row, token) \in 0 .. 100 /\ (token \in DOMAIN row => Prob(row, token) >= 1)
  BY DEF IsRow, Prob

\* The order of a row is a strict order of all tokens.
LEMMA OrderOfRow ==
  ASSUME NEW row, IsRow(row), NEW l \in Nat, NEW m \in Nat, NEW r \in Nat
  PROVE  /\ ~Before(row, l, l)
         /\ l # r => Before(row, l, r) \/ Before(row, r, l)
         /\ ~(Before(row, l, r) /\ Before(row, r, l))
         /\ Before(row, l, m) /\ Before(row, m, r) => Before(row, l, r)
  <1>1. Prob(row, l) \in Nat /\ Prob(row, m) \in Nat /\ Prob(row, r) \in Nat
    BY ProbRange
  <1> QED BY <1>1, SMT DEF Before

\* Of some tokens one comes first: of the likeliest ones the least.
LEMMA Leader ==
  ASSUME NEW row, IsRow(row), NEW T \in SUBSET Nat, T # {}
  PROVE  \E token \in T : \A other \in T : other # token => Before(row, token, other)
  <1> DEFINE Doubt(token) == 100 - Prob(row, token)
             Doubts == {Doubt(token) : token \in T}
  <1>0. \A token \in T : Doubt(token) \in Nat
    BY ProbRange
  <1>1. Doubts \in SUBSET Nat /\ Doubts # {}
    <2> HIDE DEF Doubt
    <2> QED BY <1>0
  <1>2. PICK least \in Doubts : \A d \in Doubts : least <= d
    BY <1>1, LeastNatural
  <1> DEFINE Best == {token \in T : Doubt(token) = least}
  <1>3. Best \in SUBSET Nat /\ Best # {}
    BY <1>2
  <1>4. PICK token \in Best : \A other \in Best : token <= other
    BY <1>3, LeastNatural
  <1>5. ASSUME NEW other \in T, other # token PROVE Before(row, token, other)
    <2>1. Prob(row, token) \in 0 .. 100 /\ Prob(row, other) \in 0 .. 100
      BY ProbRange
    <2>2. 100 - Prob(row, token) <= 100 - Prob(row, other)
      <3>1. Doubt(token) = least /\ Doubt(other) \in Doubts
        BY <1>4, <1>5
      <3> QED BY <1>2, <3>1
    <2>3. Prob(row, token) = Prob(row, other) => other \in Best
      BY <1>4, <1>5
    <2>4. Prob(row, token) = Prob(row, other) => token < other
      <3>1. token \in Nat /\ other \in Nat
        BY <1>3, <1>5
      <3>2. Prob(row, token) = Prob(row, other) => token <= other
        BY <1>4, <2>3
      <3> QED BY <1>5, <3>1, <3>2
    <2> QED BY <2>1, <2>2, <2>4 DEF Before
  <1> QED BY <1>4, <1>5

\* The n tokens that come before all others.
Leads(row, B, n) ==
  /\ B \subseteq Pool(row) /\ IsFiniteSet(B) /\ Cardinality(B) = n
  /\ \A b \in B, other \in Pool(row) \ B : Before(row, b, other)

\* Of the tokens not yet ranked there is a best one: the next rank is taken.
LEMMA NextLeader ==
  ASSUME NEW row, IsRow(row), NEW n \in 0 .. 4, NEW B, Leads(row, B, n)
  PROVE  \E token \in Pool(row) : Ahead(row, token) = B /\ Leads(row, B \cup {token}, n + 1)
  <1>1. B \subseteq Pool(row) /\ IsFiniteSet(B) /\ Cardinality(B) = n
    BY DEF Leads
  <1>2. Pool(row) \ B # {}
    <2>1. SUFFICES ASSUME Pool(row) \subseteq B PROVE FALSE
      OBVIOUS
    <2>2. 0 .. 4 \in SUBSET B
      BY <2>1, PoolTokens
    <2>3. Cardinality(0 .. 4) = 5
      BY LowestTokens
    <2>4. Cardinality(0 .. 4) <= Cardinality(B)
      BY <1>1, <2>2, FS_Subset
    <2> QED BY <1>1, <2>3, <2>4
  <1>3. Pool(row) \ B \in SUBSET Nat
    BY PoolTokens
  <1>4. PICK token \in Pool(row) \ B :
          \A other \in Pool(row) \ B : other # token => Before(row, token, other)
    BY <1>2, <1>3, Leader
  <1>5. Ahead(row, token) = B
    <2>1. ASSUME NEW other \in Pool(row) PROVE Before(row, other, token) <=> other \in B
      <3>1. other \in Nat /\ token \in Nat
        BY <2>1, PoolTokens
      <3>2. CASE other \in B
        BY <1>4, <3>2 DEF Leads
      <3>3. CASE other \notin B /\ other # token
        BY <1>4, <2>1, <3>1, <3>3, OrderOfRow
      <3>4. CASE other = token
        BY <1>4, <3>1, <3>4, OrderOfRow
      <3> QED BY <3>2, <3>3, <3>4
    <2> QED BY <1>1, <2>1 DEF Ahead
  <1>6. Leads(row, B \cup {token}, n + 1)
    <2>1. IsFiniteSet(B \cup {token}) /\ Cardinality(B \cup {token}) = n + 1
      BY <1>1, <1>4, FS_AddElement
    <2>2. \A b \in B \cup {token}, other \in Pool(row) \ (B \cup {token}) : Before(row, b, other)
      BY <1>4 DEF Leads
    <2> QED BY <1>1, <1>4, <2>1, <2>2 DEF Leads
  <1> QED BY <1>4, <1>5, <1>6

\* A row has a token of every rank.
LEMMA RankTaken ==
  ASSUME NEW row, IsRow(row), NEW k \in 1 .. 5
  PROVE  Ranked(row, k) \in Pool(row) /\ Cardinality(Ahead(row, Ranked(row, k))) = k - 1
  <1>0. Leads(row, {}, 0)
    BY FS_EmptySet DEF Leads
  <1>1. PICK a \in Pool(row) : Ahead(row, a) = {} /\ Leads(row, {} \cup {a}, 0 + 1)
    BY <1>0, NextLeader
  <1> DEFINE A == {} \cup {a}
  <1>2. Leads(row, A, 1)
    BY <1>1
  <1> HIDE DEF A
  <1>3. PICK b \in Pool(row) : Ahead(row, b) = A /\ Leads(row, A \cup {b}, 1 + 1)
    <2>1. 1 \in 0 .. 4
      OBVIOUS
    <2> QED BY <1>2, <2>1, NextLeader
  <1> DEFINE B == A \cup {b}
  <1>4. Leads(row, B, 2)
    BY <1>3
  <1> HIDE DEF B
  <1>5. PICK c \in Pool(row) : Ahead(row, c) = B /\ Leads(row, B \cup {c}, 2 + 1)
    BY <1>4, NextLeader
  <1> DEFINE C == B \cup {c}
  <1>6. Leads(row, C, 3)
    BY <1>5
  <1> HIDE DEF C
  <1>7. PICK d \in Pool(row) : Ahead(row, d) = C /\ Leads(row, C \cup {d}, 3 + 1)
    BY <1>6, NextLeader
  <1> DEFINE D == C \cup {d}
  <1>8. Leads(row, D, 4)
    BY <1>7
  <1> HIDE DEF D
  <1>9. PICK e \in Pool(row) : Ahead(row, e) = D /\ Leads(row, D \cup {e}, 4 + 1)
    BY <1>8, NextLeader
  <1>10. \E token \in Pool(row) : Cardinality(Ahead(row, token)) = k - 1
    <2>1. CASE k = 1
      BY <1>0, <1>1, <2>1 DEF Leads
    <2>2. CASE k = 2
      BY <1>2, <1>3, <2>2 DEF Leads
    <2>3. CASE k = 3
      BY <1>4, <1>5, <2>3 DEF Leads
    <2>4. CASE k = 4
      BY <1>6, <1>7, <2>4 DEF Leads
    <2>5. CASE k = 5
      BY <1>8, <1>9, <2>5 DEF Leads
    <2> QED BY <2>1, <2>2, <2>3, <2>4, <2>5
  <1>11. Ranked(row, k) = CHOOSE token \in Pool(row) : Cardinality(Ahead(row, token)) = k - 1
    BY DEF Ranked, Ahead
  <1> QED BY <1>10, <1>11

\* What a rank holds is a token: of the row, or one of the lowest ids.
LEMMA RankIsToken ==
  ASSUME NEW row, IsRow(row), NEW k \in 1 .. 5
  PROVE  Ranked(row, k) \in Tokens /\ (Ranked(row, k) \in DOMAIN row \/ Ranked(row, k) \in 0 .. 4)
  BY RankTaken, PoolTokens DEF Pool

\* A token that comes before another has fewer tokens ahead.
LEMMA AheadGrows ==
  ASSUME NEW row, IsRow(row), NEW l \in Pool(row), NEW r \in Pool(row), Before(row, l, r)
  PROVE  /\ Cardinality(Ahead(row, l)) \in Nat /\ Cardinality(Ahead(row, r)) \in Nat
         /\ Cardinality(Ahead(row, l)) < Cardinality(Ahead(row, r))
  <1>1. \A token \in Pool(row) : token \in Nat
    BY PoolTokens
  <1>2. IsFiniteSet(Ahead(row, r)) /\ IsFiniteSet(Ahead(row, l))
    BY PoolTokens, FS_Subset DEF Ahead
  <1>3. Ahead(row, l) \in SUBSET Ahead(row, r)
    BY <1>1, OrderOfRow DEF Ahead
  <1>4. l \in Ahead(row, r) /\ l \notin Ahead(row, l)
    BY <1>1, OrderOfRow DEF Ahead
  <1>5. Cardinality(Ahead(row, l)) \in Nat /\ Cardinality(Ahead(row, r)) \in Nat
    BY <1>2, FS_CardinalityType
  <1>6. /\ Cardinality(Ahead(row, l)) <= Cardinality(Ahead(row, r))
        /\ Cardinality(Ahead(row, r)) = Cardinality(Ahead(row, l)) => Ahead(row, r) = Ahead(row, l)
    BY <1>2, <1>3, FS_Subset
  <1> QED BY <1>4, <1>5, <1>6

\* Where the nucleus kept fewer tokens than there are ranks, each has one, before
\* every token it did not keep.
LEMMA KeptRankFirst ==
  ASSUME NEW row, IsRow(row), NEW k \in 1 .. 5, Ranked(row, k) \notin DOMAIN row,
         NEW token \in DOMAIN row
  PROVE  \E j \in 1 .. 5 : j < k /\ Ranked(row, j) = token
  <1> DEFINE r == Ranked(row, k)
             n == Cardinality(Ahead(row, token))
  <1>1. r \in Pool(row) /\ Cardinality(Ahead(row, r)) = k - 1 /\ token \in Pool(row)
    BY RankTaken, PoolTokens
  <1>2. Before(row, token, r)
    <2>1. Prob(row, r) = 0
      BY DEF Prob
    <2>2. Prob(row, token) \in 0 .. 100 /\ Prob(row, token) >= 1
      BY ProbRange
    <2> QED BY <2>1, <2>2 DEF Before
  <1>3. n \in Nat /\ n < k - 1
    BY <1>1, <1>2, AheadGrows
  <1>4. n + 1 \in 1 .. 5 /\ n + 1 < k
    BY <1>3
  <1> DEFINE u == Ranked(row, n + 1)
  <1> HIDE DEF r
  <1>5. u \in Pool(row) /\ Cardinality(Ahead(row, u)) = n
    <2> HIDE DEF n
    <2>1. \A j \in 1 .. 5 :
            Ranked(row, j) \in Pool(row) /\ Cardinality(Ahead(row, Ranked(row, j))) = j - 1
      BY RankTaken
    <2>2. u \in Pool(row) /\ Cardinality(Ahead(row, u)) = (n + 1) - 1
      BY <1>4, <2>1
    <2> QED BY <1>3, <2>2
  <1> HIDE DEF u
  <1>6. ~Before(row, u, token) /\ ~Before(row, token, u)
    BY <1>1, <1>5, AheadGrows
  <1>7. u \in Nat /\ token \in Nat
    BY <1>1, <1>5, PoolTokens
  <1>8. u = token
    BY <1>6, <1>7, OrderOfRow
  <1> QED BY <1>4, <1>8 DEF u

-----------------------------------------------------------------------------
(* Six tokens and the decision they become                                   *)

\* The detection tokens are different tokens of the vocabulary; zero, which
\* stands for an unsure coordinate, is none of them.
LEMMA TokenValues ==
  /\ {kImEnd, kBoxStart, kBoxEnd, kRefStart, kNone, kNull, 0} \subseteq Tokens
  /\ kBoxStart \notin {kNull, kImEnd} /\ kRefStart \notin {kNull, kImEnd, kBoxStart}
  /\ kNull \notin {kNone, kBoxEnd, kImEnd} /\ kImEnd # kBoxStart
  /\ kBoxEnd # kNone /\ 0 # kNone
  /\ ~IsCoordinateToken(0) /\ ~IsCoordinateToken(kNull) /\ ~IsCoordinateToken(kBoxEnd)
  /\ ~IsCoordinateToken(kNone)
  BY DEF kImEnd, kBoxStart, kBoxEnd, kRefStart, kNone, kNull, Tokens, kVocab,
         IsCoordinateToken, kCoordStart, kCoordEnd

Good(s, i) == IsCoordinateToken(s[i])

\* The longest run of coordinates after the first of six tokens.
LEMMA CoordinateRun ==
  ASSUME NEW s \in Seq(Tokens), Len(s) = 6, NEW n, n = LeadingRun(Tail(s), 4, IsCoordinateToken)
  PROVE  /\ n \in 0 .. 4 /\ \A i \in 2 .. n + 1 : IsCoordinateToken(s[i])
         /\ n = 4 \/ ~IsCoordinateToken(s[n + 2])
  <1> DEFINE t == Tail(s)
             Run(m) == /\ m <= Len(t) /\ \A i \in 1 .. m : Good(t, i)
                       /\ m = 4 \/ m = Len(t) \/ ~Good(t, m + 1)
  <1>1. t \in Seq(Tokens) /\ Len(t) = 5 /\ \A i \in 1 .. 5 : t[i] = s[i + 1]
    <2>1. s # <<>>
      OBVIOUS
    <2>2. t \in Seq(Tokens) /\ Len(t) = Len(s) - 1 /\ \A i \in 1 .. Len(t) : t[i] = s[i + 1]
      BY <2>1, HeadTailProperties
    <2> HIDE DEF t
    <2> QED BY <2>2
  <1>2. n = CHOOSE m \in 0 .. 4 : Run(m)
    BY DEF LeadingRun, Good
  <1> HIDE DEF t
  <1>3. \E m \in 0 .. 4 : Run(m)
    <2>1. CASE ~Good(t, 1)
      BY <1>1, <2>1
    <2>2. CASE Good(t, 1) /\ ~Good(t, 2)
      BY <1>1, <2>2
    <2>3. CASE Good(t, 1) /\ Good(t, 2) /\ ~Good(t, 3)
      BY <1>1, <2>3
    <2>4. CASE Good(t, 1) /\ Good(t, 2) /\ Good(t, 3) /\ ~Good(t, 4)
      BY <1>1, <2>4
    <2>5. CASE Good(t, 1) /\ Good(t, 2) /\ Good(t, 3) /\ Good(t, 4)
      BY <1>1, <2>5
    <2> QED BY <2>1, <2>2, <2>3, <2>4, <2>5
  <1>4. n \in 0 .. 4 /\ Run(n)
    BY <1>2, <1>3
  <1>5. ASSUME NEW i \in 2 .. n + 1 PROVE IsCoordinateToken(s[i])
    <2>1. i - 1 \in 1 .. n /\ i - 1 \in 1 .. 5 /\ (i - 1) + 1 = i
      BY <1>4
    <2>2. Good(t, i - 1) /\ t[i - 1] = s[i]
      BY <1>1, <1>4, <2>1
    <2> QED BY <2>2 DEF Good
  <1>6. n = 4 \/ ~IsCoordinateToken(s[n + 2])
    <2>1. CASE n # 4
      <3>1. ~Good(t, n + 1)
        BY <1>1, <1>4, <2>1
      <3>2. n + 1 \in 1 .. 5 /\ (n + 1) + 1 = n + 2
        BY <1>4
      <3>3. t[n + 1] = s[n + 2]
        BY <1>1, <3>2
      <3> QED BY <3>1, <3>3 DEF Good
    <2> QED BY <2>1
  <1> QED BY <1>4, <1>5, <1>6

\* The longest run without a null of six tokens that do not begin with one.
LEMMA TextRun ==
  ASSUME NEW s \in Seq(Tokens), Len(s) = 6, s[1] # kNull,
         NEW n, n = LeadingRun(s, Len(s), LAMBDA token : token # kNull)
  PROVE  n \in 1 .. 6 /\ \A i \in 1 .. n : s[i] # kNull
  <1> DEFINE Text(i) == s[i] # kNull
             Run(m) == /\ m <= Len(s) /\ \A i \in 1 .. m : Text(i)
                       /\ m = Len(s) \/ m = Len(s) \/ ~Text(m + 1)
  <1>1. n = CHOOSE m \in 0 .. Len(s) : Run(m)
    BY DEF LeadingRun
  <1>2. Text(1)
    OBVIOUS
  <1>3. \A i : Text(i) <=> s[i] # kNull
    OBVIOUS
  <1> HIDE DEF Text
  <1>4. \E m \in 0 .. 6 : Run(m)
    <2>1. CASE ~Text(2)
      BY <1>2, <2>1
    <2>2. CASE Text(2) /\ ~Text(3)
      BY <1>2, <2>2
    <2>3. CASE Text(2) /\ Text(3) /\ ~Text(4)
      BY <1>2, <2>3
    <2>4. CASE Text(2) /\ Text(3) /\ Text(4) /\ ~Text(5)
      BY <1>2, <2>4
    <2>5. CASE Text(2) /\ Text(3) /\ Text(4) /\ Text(5) /\ ~Text(6)
      BY <1>2, <2>5
    <2>6. CASE Text(2) /\ Text(3) /\ Text(4) /\ Text(5) /\ Text(6)
      BY <1>2, <2>6
    <2> QED BY <2>1, <2>2, <2>3, <2>4, <2>5, <2>6
  <1>5. n \in 0 .. 6 /\ Run(n)
    BY <1>1, <1>4
  <1>6. n \in 1 .. 6
    BY <1>2, <1>5
  <1> QED BY <1>3, <1>5, <1>6

\* The start of a token sequence holds its first tokens.
LEMMA TokenPrefix ==
  ASSUME NEW s \in Seq(Tokens), NEW n \in 0 .. Len(s)
  PROVE  /\ SubSeq(s, 1, n) \in Seq(Tokens) /\ Len(SubSeq(s, 1, n)) = n
         /\ \A i \in 1 .. n : SubSeq(s, 1, n)[i] = s[i]
  OBVIOUS

\* What the generation loop needs of a decision.
Taken(tokens, switch, terminal) ==
  /\ tokens \in Seq(Tokens) /\ Len(tokens) \in 1 .. 6
  /\ \A i \in 1 .. Len(tokens) : tokens[i] # kNull
  /\ switch \in BOOLEAN /\ terminal \in BOOLEAN
  /\ terminal => tokens = <<kImEnd>>
  /\ tokens[1] = kBoxStart =>
       IF switch
       THEN Len(tokens) <= 5 /\ \A i \in 2 .. Len(tokens) : IsCoordinateToken(tokens[i])
       ELSE IsCompleteDetectionBox(tokens)
  /\ switch => tokens[1] = kBoxStart

Usable(d) == Taken(d.tokens, d.switch_to_ar, d.terminal)

\* A text decision is usable, ends nothing and is a reference.
LEMMA TextDecided ==
  ASSUME NEW s \in Seq(Tokens), Len(s) = 6, s[1] \notin {kNull, kBoxStart}
  PROVE  /\ Usable(TextDecision(s)) /\ TextDecision(s).terminal = FALSE
         /\ TextDecision(s).type = "ref_object"
  <1> DEFINE n == LeadingRun(s, Len(s), LAMBDA token : token # kNull)
             doubled == n >= 2 /\ s[n] = kRefEnd /\ s[n - 1] = kRefEnd
             m == IF doubled THEN n - 1 ELSE n
  <1>1. TextDecision(s) = Decision("ref_object", SubSeq(s, 1, m), FALSE, FALSE)
    BY DEF TextDecision
  <1>2. n \in 1 .. 6 /\ \A i \in 1 .. n : s[i] # kNull
    BY TextRun
  <1> HIDE DEF n
  <1>3. m \in 1 .. 6 /\ \A i \in 1 .. m : s[i] # kNull
    BY <1>2
  <1> HIDE DEF m
  <1> DEFINE u == SubSeq(s, 1, m)
  <1>4. u \in Seq(Tokens) /\ Len(u) = m /\ \A i \in 1 .. m : u[i] = s[i]
    <2>1. m \in 0 .. Len(s)
      BY <1>3
    <2> QED BY <2>1, TokenPrefix
  <1>5. TextDecision(s) = [type |-> "ref_object", tokens |-> u, switch_to_ar |-> FALSE,
                           terminal |-> FALSE]
    BY <1>1 DEF Decision
  <1> HIDE DEF u
  <1>6. u[1] = s[1]
    BY <1>3, <1>4
  <1>7. Taken(u, FALSE, FALSE)
    BY <1>3, <1>4, <1>6 DEF Taken
  <1> HIDE DEF u
  <1>8. /\ TextDecision(s).tokens = u /\ TextDecision(s).switch_to_ar = FALSE
        /\ TextDecision(s).terminal = FALSE /\ TextDecision(s).type = "ref_object"
    BY <1>5
  <1> QED BY <1>7, <1>8 DEF Usable

\* A box start, its coordinates, and the end of a box or a break.
LEMMA BoxDecided ==
  ASSUME NEW s \in Seq(Tokens), Len(s) = 6, s[1] = kBoxStart
  PROVE  LET d == BoxDecision(s)
         IN /\ Usable(d) /\ d.terminal = FALSE
            /\ d.type \in {"coord_box", "point_box", "error_box"}
            /\ d.tokens = SubSeq(s, 1, Len(d.tokens))
            /\ d.switch_to_ar <=> d.type = "error_box"
            /\ (\A i \in 2 .. 5 : s[i] = 0 \/ IsCoordinateToken(s[i])) =>
                 \A i \in 2 .. 5 : s[i] = 0 => d.switch_to_ar /\ Len(d.tokens) <= i - 1
            /\ ~d.switch_to_ar => s[Len(d.tokens)] = kBoxEnd
  <1> DEFINE n == LeadingRun(Tail(s), 4, IsCoordinateToken)
             P(m) == SubSeq(s, 1, m)
             d == BoxDecision(s)
             Claim(e) ==
               /\ Usable(e) /\ e.terminal = FALSE
               /\ e.type \in {"coord_box", "point_box", "error_box"}
               /\ e.tokens = SubSeq(s, 1, Len(e.tokens))
               /\ e.switch_to_ar <=> e.type = "error_box"
               /\ (\A i \in 2 .. 5 : s[i] = 0 \/ IsCoordinateToken(s[i])) =>
                    \A i \in 2 .. 5 : s[i] = 0 => e.switch_to_ar /\ Len(e.tokens) <= i - 1
               /\ ~e.switch_to_ar => s[Len(e.tokens)] = kBoxEnd
  <1> SUFFICES Claim(d)
    OBVIOUS
  <1>1. /\ n \in 0 .. 4 /\ \A i \in 2 .. n + 1 : IsCoordinateToken(s[i])
        /\ n = 4 \/ ~IsCoordinateToken(s[n + 2])
    BY CoordinateRun
  <1>2. \/ 1 + n = 5 /\ s[6] = kBoxEnd /\ d = Decision("coord_box", P(6), FALSE, FALSE)
        \/ 1 + n = 3 /\ s[4] = kBoxEnd /\ d = Decision("point_box", P(4), FALSE, FALSE)
        \/ d = Decision("error_box", P(1 + n), TRUE, FALSE)
    BY DEF BoxDecision
  <1>3. \A m \in 1 .. 6 : P(m) \in Seq(Tokens) /\ Len(P(m)) = m /\ \A i \in 1 .. m : P(m)[i] = s[i]
    <2>1. \A m \in 1 .. 6 : m \in 0 .. Len(s)
      OBVIOUS
    <2> QED BY <2>1, TokenPrefix
  <1>4. 1 + n \in 1 .. 5
    BY <1>1
  <1>5. /\ ~IsCoordinateToken(0) /\ ~IsCoordinateToken(kNull)
        /\ ~IsCoordinateToken(kBoxEnd)
        /\ kBoxStart # kNull /\ kBoxEnd # kNull /\ kBoxEnd # 0
    BY TokenValues DEF kBoxEnd
  <1>6. \A i \in 2 .. 5 : s[i] = 0 => 1 + n <= i - 1
    <2>1. ASSUME NEW i \in 2 .. 5, s[i] = 0, ~(1 + n <= i - 1) PROVE FALSE
      <3>1. i \in 2 .. n + 1
        BY <1>1, <2>1
      <3> QED BY <1>1, <1>5, <2>1, <3>1
    <2> QED BY <2>1
  <1> HIDE DEF n, d
  <1>7. CASE 1 + n = 5 /\ s[6] = kBoxEnd /\ d = Decision("coord_box", P(6), FALSE, FALSE)
    <2> DEFINE u == P(6)
    <2>1. u \in Seq(Tokens) /\ Len(u) = 6 /\ \A i \in 1 .. 6 : u[i] = s[i]
      BY <1>3
    <2>2. d = [type |-> "coord_box", tokens |-> u, switch_to_ar |-> FALSE, terminal |-> FALSE]
      BY <1>7 DEF Decision
    <2>3. n = 4 /\ \A i \in 2 .. 5 : IsCoordinateToken(s[i])
      BY <1>1, <1>7
    <2> HIDE DEF u
    <2>4. IsCompleteDetectionBox(u)
      BY <1>7, <2>1, <2>3 DEF IsCompleteDetectionBox, Last
    <2>5. \A i \in 1 .. 6 : u[i] # kNull
      <3>1. \A i \in 1 .. 6 : i = 1 \/ i = 6 \/ i \in 2 .. 5
        OBVIOUS
      <3> QED BY <1>5, <1>7, <2>1, <2>3, <3>1
    <2>6. Usable(d)
      <3>1. Taken(u, FALSE, FALSE)
        BY <2>1, <2>4, <2>5 DEF Taken
      <3> QED BY <2>2, <3>1 DEF Usable
    <2>7. d.tokens = P(Len(d.tokens))
      BY <2>1, <2>2 DEF u
    <2>8. \A i \in 2 .. 5 : s[i] # 0
      BY <1>5, <2>3
    <2>9. d.tokens = u /\ d.type = "coord_box" /\ d.switch_to_ar = FALSE /\ d.terminal = FALSE
      BY <2>2
    <2>10. s[Len(d.tokens)] = kBoxEnd
      BY <1>7, <2>1, <2>9
    <2> QED BY <2>6, <2>7, <2>8, <2>9, <2>10
  <1>8. CASE 1 + n = 3 /\ s[4] = kBoxEnd /\ d = Decision("point_box", P(4), FALSE, FALSE)
    <2> DEFINE u == P(4)
    <2>1. u \in Seq(Tokens) /\ Len(u) = 4 /\ \A i \in 1 .. 4 : u[i] = s[i]
      BY <1>3
    <2>2. d = [type |-> "point_box", tokens |-> u, switch_to_ar |-> FALSE, terminal |-> FALSE]
      BY <1>8 DEF Decision
    <2>3. n = 2 /\ IsCoordinateToken(s[2]) /\ IsCoordinateToken(s[3])
      BY <1>1, <1>8
    <2> HIDE DEF u
    <2>4. IsCompleteDetectionBox(u)
      BY <1>8, <2>1, <2>3 DEF IsCompleteDetectionBox, Last
    <2>5. \A i \in 1 .. 4 : u[i] # kNull
      BY <1>5, <1>8, <2>1, <2>3
    <2>6. Usable(d)
      <3>1. Taken(u, FALSE, FALSE)
        BY <2>1, <2>4, <2>5 DEF Taken
      <3> QED BY <2>2, <3>1 DEF Usable
    <2>7. d.tokens = P(Len(d.tokens))
      BY <2>1, <2>2 DEF u
    <2>8. ~(s[4] = 0 \/ IsCoordinateToken(s[4])) /\ 4 \in 2 .. 5
      BY <1>5, <1>8
    <2>9. d.tokens = u /\ d.type = "point_box" /\ d.switch_to_ar = FALSE /\ d.terminal = FALSE
      BY <2>2
    <2>10. s[Len(d.tokens)] = kBoxEnd
      BY <1>8, <2>1, <2>9
    <2> QED BY <2>6, <2>7, <2>8, <2>9, <2>10
  <1>9. CASE d = Decision("error_box", P(1 + n), TRUE, FALSE)
    <2> DEFINE u == P(1 + n)
    <2>1. u \in Seq(Tokens) /\ Len(u) = 1 + n /\ \A i \in 1 .. 1 + n : u[i] = s[i]
      BY <1>3, <1>4
    <2>2. d = [type |-> "error_box", tokens |-> u, switch_to_ar |-> TRUE, terminal |-> FALSE]
      BY <1>9 DEF Decision
    <2> HIDE DEF u
    <2>3. u[1] = kBoxStart /\ \A i \in 2 .. 1 + n : IsCoordinateToken(u[i])
      BY <1>1, <1>4, <2>1
    <2>4. \A i \in 1 .. 1 + n : u[i] # kNull
      BY <1>4, <1>5, <2>3
    <2>5. Usable(d)
      <3>1. Taken(u, TRUE, FALSE)
        BY <1>4, <2>1, <2>3, <2>4 DEF Taken
      <3> QED BY <2>2, <3>1 DEF Usable
    <2>6. d.tokens = P(Len(d.tokens))
      BY <2>1, <2>2 DEF u
    <2> QED BY <1>6, <2>1, <2>2, <2>5, <2>6
  <1> QED BY <1>2, <1>7, <1>8, <1>9

\* Whatever six tokens a window becomes, the generation loop can use the decision.
LEMMA PatternDecided ==
  ASSUME NEW s \in Seq(Tokens), Len(s) = 6
  PROVE  LET d == HandlePattern(s)
         IN /\ Usable(d)
            /\ d.type \in {"im_end", "empty_box", "coord_box", "point_box", "error_box",
                           "ref_object"}
            /\ d.terminal => s[1] \in {kNull, kImEnd}
            /\ d.switch_to_ar => s[1] = kBoxStart /\ d.tokens = SubSeq(s, 1, Len(d.tokens))
            /\ s[1] = kBoxStart =>
                 \/ s[2] = kNone /\ d.tokens = <<kBoxStart, kNone, kBoxEnd>>
                 \/ d.tokens = SubSeq(s, 1, Len(d.tokens))
            /\ s[1] = kBoxStart /\ (\A i \in 2 .. 5 : s[i] = 0 \/ IsCoordinateToken(s[i])) =>
                 \A i \in 2 .. 5 : s[i] = 0 => d.switch_to_ar /\ Len(d.tokens) <= i - 1
  <1> DEFINE d == HandlePattern(s)
             Types == {"im_end", "empty_box", "coord_box", "point_box", "error_box", "ref_object"}
             Claim ==
               /\ Usable(d) /\ d.type \in Types
               /\ d.terminal => s[1] \in {kNull, kImEnd}
               /\ d.switch_to_ar => s[1] = kBoxStart /\ d.tokens = SubSeq(s, 1, Len(d.tokens))
               /\ s[1] = kBoxStart =>
                    \/ s[2] = kNone /\ d.tokens = <<kBoxStart, kNone, kBoxEnd>>
                    \/ d.tokens = SubSeq(s, 1, Len(d.tokens))
               /\ s[1] = kBoxStart /\ (\A i \in 2 .. 5 : s[i] = 0 \/ IsCoordinateToken(s[i])) =>
                    \A i \in 2 .. 5 : s[i] = 0 => d.switch_to_ar /\ Len(d.tokens) <= i - 1
  <1> SUFFICES Claim
    OBVIOUS
  <1>1. s # <<>> /\ Len(s) >= 2
    OBVIOUS
  <1>2. \/ s[1] \in {kNull, kImEnd} /\ d = ImEndDecision
        \/ s[1] \notin {kNull, kImEnd, kBoxStart} /\ d = TextDecision(s)
        \/ /\ s[1] = kBoxStart /\ s[2] = kNone
           /\ d = Decision("empty_box", <<kBoxStart, kNone, kBoxEnd>>, FALSE, FALSE)
        \/ s[1] = kBoxStart /\ s[2] # kNone /\ d = BoxDecision(s)
    BY <1>1 DEF HandlePattern
  <1>3. /\ kImEnd \in Tokens /\ kBoxStart \in Tokens /\ kBoxEnd \in Tokens /\ kNone \in Tokens
        /\ kImEnd # kNull /\ kBoxStart # kNull /\ kBoxEnd # kNull /\ kNone # kNull
        /\ kImEnd # kBoxStart /\ kNone # 0 /\ ~IsCoordinateToken(kNone)
        /\ kBoxStart \notin {kNull, kImEnd}
    BY TokenValues
  <1> HIDE DEF d
  <1>4. CASE s[1] \in {kNull, kImEnd} /\ d = ImEndDecision
    <2> DEFINE u == <<kImEnd>>
    <2>1. u \in Seq(Tokens) /\ Len(u) = 1 /\ u[1] = kImEnd
      BY <1>3
    <2>2. d.tokens = u /\ d.type = "im_end" /\ d.switch_to_ar = FALSE /\ d.terminal = TRUE
      BY <1>4 DEF ImEndDecision, Decision
    <2> HIDE DEF u
    <2>3. Taken(u, FALSE, TRUE)
      BY <1>3, <2>1 DEF Taken, u
    <2> QED BY <1>3, <1>4, <2>2, <2>3 DEF Usable
  <1>5. CASE s[1] \notin {kNull, kImEnd, kBoxStart} /\ d = TextDecision(s)
    <2>1. Usable(d) /\ d.terminal = FALSE /\ d.type = "ref_object"
      BY <1>5, TextDecided
    <2>2. d.switch_to_ar = FALSE
      BY <1>5 DEF TextDecision, Decision
    <2> QED BY <1>5, <2>1, <2>2
  <1>6. CASE /\ s[1] = kBoxStart /\ s[2] = kNone
             /\ d = Decision("empty_box", <<kBoxStart, kNone, kBoxEnd>>, FALSE, FALSE)
    <2> DEFINE u == <<kBoxStart, kNone, kBoxEnd>>
    <2>1. u \in Seq(Tokens) /\ Len(u) = 3 /\ u[1] = kBoxStart /\ u[2] = kNone /\ u[3] = kBoxEnd
      BY <1>3
    <2>2. d.tokens = u /\ d.type = "empty_box" /\ d.switch_to_ar = FALSE /\ d.terminal = FALSE
      BY <1>6 DEF Decision
    <2> HIDE DEF u
    <2>3. Taken(u, FALSE, FALSE)
      <3>1. IsCompleteDetectionBox(u)
        BY <2>1 DEF IsCompleteDetectionBox, Last
      <3>2. \A i \in 1 .. 3 : u[i] # kNull
        BY <1>3, <2>1
      <3> QED BY <2>1, <3>1, <3>2 DEF Taken
    <2>4. ~(s[2] = 0 \/ IsCoordinateToken(s[2])) /\ 2 \in 2 .. 5
      BY <1>3, <1>6
    <2>5. s[2] = kNone /\ d.tokens = <<kBoxStart, kNone, kBoxEnd>>
      BY <1>6, <2>2 DEF u
    <2> QED BY <2>2, <2>3, <2>4, <2>5 DEF Usable
  <1>7. CASE s[1] = kBoxStart /\ s[2] # kNone /\ d = BoxDecision(s)
    BY <1>7, BoxDecided
  <1> QED BY <1>2, <1>4, <1>5, <1>6, <1>7

-----------------------------------------------------------------------------
(* The tokens a window becomes                                               *)

\* First is the least of some ranks.
LEMMA FirstRank ==
  ASSUME NEW ranks \in SUBSET (1 .. 5), ranks # {}
  PROVE  First(ranks) \in ranks /\ First(ranks) \in 1 .. 5 /\ \A k \in ranks : First(ranks) <= k
  <1>1. ranks \in SUBSET Nat
    OBVIOUS
  <1>2. \E k \in ranks : \A other \in ranks : k <= other
    BY <1>1, LeastNatural
  <1> QED BY <1>2 DEF First

\* The best of some ranks is a token.
LEMMA BestRanked ==
  ASSUME NEW row, IsRow(row), NEW ranks \in SUBSET (1 .. 5), ranks # {}
  PROVE  BestOf(row, ranks) \in Tokens
  BY FirstRank, RankIsToken DEF BestOf

\* What stands for a row of a box is one of its coordinates or zero.
LEMMA CoordinateOfRow ==
  ASSUME NEW row, IsRow(row), Valid(row) # {}
  PROVE  /\ Coordinate(row) \in Tokens
         /\ Coordinate(row) = 0 \/ IsCoordinateToken(Coordinate(row))
         /\ Abnormal(row) => Coordinate(row) = 0
  <1>1. Valid(row) \in SUBSET (1 .. 5)
    BY DEF Valid
  <1>2. First(Valid(row)) \in Valid(row)
    BY <1>1, FirstRank
  <1>3. IsCoordinateToken(BestOf(row, Valid(row)))
    BY <1>2 DEF Valid, BestOf
  <1>4. BestOf(row, Valid(row)) \in Tokens /\ 0 \in Tokens
    BY <1>1, BestRanked, TokenValues
  <1> QED BY <1>3, <1>4 DEF Coordinate

\* Tokens numbered from one are a sequence of tokens.
LEMMA FunctionIsSequence ==
  ASSUME NEW n \in Nat, NEW f \in [1 .. n -> Tokens]
  PROVE  f \in Seq(Tokens) /\ Len(f) = n
  <1>1. f = [k \in 1 .. n |-> f[k]] /\ \A k \in 1 .. n : f[k] \in Tokens
    OBVIOUS
  <1>2. [k \in 1 .. n |-> f[k]] \in Seq(Tokens) /\ Len([k \in 1 .. n |-> f[k]]) = n
    BY <1>1
  <1> QED BY <1>1, <1>2, Zenon

\* Two token sequences, one behind the other.
LEMMA JoinedTokens ==
  ASSUME NEW s \in Seq(Tokens), NEW t \in Seq(Tokens)
  PROVE  /\ s \o t \in Seq(Tokens) /\ Len(s \o t) = Len(s) + Len(t)
         /\ \A i \in 1 .. Len(s) : (s \o t)[i] = s[i]
         /\ \A i \in 1 .. Len(t) : (s \o t)[Len(s) + i] = t[i]
  <1> DEFINE u == s \o t
  <1>1. /\ u \in Seq(Tokens) /\ Len(u) = Len(s) + Len(t)
        /\ \A i \in 1 .. Len(s) + Len(t) :
             u[i] = IF i <= Len(s) THEN s[i] ELSE t[i - Len(s)]
    BY ConcatProperties
  <1> HIDE DEF u
  <1>0. Len(s) \in Nat /\ Len(t) \in Nat
    OBVIOUS
  <1>2. \A i \in 1 .. Len(s) : u[i] = s[i]
    BY <1>0, <1>1
  <1>3. ASSUME NEW i \in 1 .. Len(t) PROVE u[Len(s) + i] = t[i]
    <2>1. Len(s) + i \in 1 .. Len(s) + Len(t) /\ ~(Len(s) + i <= Len(s))
          /\ (Len(s) + i) - Len(s) = i
      BY <1>0
    <2> QED BY <1>1, <2>1
  <1> QED BY <1>1, <1>2, <1>3 DEF u

\* A token, four of them, and a token.
LEMMA SixTokens ==
  ASSUME NEW a \in Tokens, NEW f \in [1 .. 4 -> Tokens], NEW e \in Tokens
  PROVE  /\ <<a>> \o f \o <<e>> \in Seq(Tokens) /\ Len(<<a>> \o f \o <<e>>) = 6
         /\ (<<a>> \o f \o <<e>>)[1] = a
         /\ \A k \in 1 .. 4 : (<<a>> \o f \o <<e>>)[k + 1] = f[k]
  <1> DEFINE h == <<a>>
             l == <<e>>
             u == h \o f
             v == u \o l
  <1>1. f \in Seq(Tokens) /\ Len(f) = 4
    BY FunctionIsSequence
  <1>2. h \in Seq(Tokens) /\ Len(h) = 1 /\ h[1] = a /\ l \in Seq(Tokens) /\ Len(l) = 1
    OBVIOUS
  <1> HIDE DEF h, l
  <1>3. /\ u \in Seq(Tokens) /\ Len(u) = Len(h) + Len(f)
        /\ \A i \in 1 .. Len(h) : u[i] = h[i]
        /\ \A i \in 1 .. Len(f) : u[Len(h) + i] = f[i]
    BY <1>1, <1>2, JoinedTokens
  <1> HIDE DEF u
  <1>4. Len(u) = 5 /\ u[1] = a /\ \A k \in 1 .. 4 : u[k + 1] = f[k]
    BY <1>1, <1>2, <1>3
  <1>5. v \in Seq(Tokens) /\ Len(v) = Len(u) + Len(l) /\ \A i \in 1 .. Len(u) : v[i] = u[i]
    BY <1>2, <1>3, JoinedTokens
  <1> HIDE DEF v
  <1>6. \A k \in 1 .. 4 : k + 1 \in 1 .. 5
    OBVIOUS
  <1>7. Len(v) = 6 /\ v[1] = a /\ \A k \in 1 .. 4 : v[k + 1] = f[k]
    BY <1>2, <1>4, <1>5, <1>6
  <1> QED BY <1>5, <1>7 DEF h, l, u, v

\* A token and five more make six.
LEMMA TokenAndFive ==
  ASSUME NEW a \in Tokens, NEW f \in [1 .. 5 -> Tokens]
  PROVE  <<a>> \o f \in Seq(Tokens) /\ Len(<<a>> \o f) = 6 /\ (<<a>> \o f)[1] = a
  <1> DEFINE h == <<a>>
             u == h \o f
  <1>1. f \in Seq(Tokens) /\ Len(f) = 5
    BY FunctionIsSequence
  <1>2. h \in Seq(Tokens) /\ Len(h) = 1 /\ h[1] = a
    OBVIOUS
  <1> HIDE DEF h
  <1>3. /\ u \in Seq(Tokens) /\ Len(u) = Len(h) + Len(f)
        /\ \A i \in 1 .. Len(h) : u[i] = h[i]
    BY <1>1, <1>2, JoinedTokens
  <1> HIDE DEF u
  <1>4. Len(u) = 6 /\ u[1] = a
    BY <1>1, <1>2, <1>3
  <1> QED BY <1>3, <1>4 DEF h, u

IsWindow(w) == \A row \in 0 .. 5 : IsRow(w[row])

\* A window read as a box is a start, the four coordinates and an end.
LEMMA BoxTokens ==
  ASSUME NEW w, IsWindow(w), IsBox(w), ~IsEmptyBox(w)
  PROVE  /\ DecodeBox(w) \in Seq(Tokens) /\ Len(DecodeBox(w)) = 6 /\ DecodeBox(w)[1] = kBoxStart
         /\ \A row \in 1 .. 4 : DecodeBox(w)[row + 1] = Coordinate(w[row])
  <1> DEFINE f == [row \in 1 .. 4 |-> Coordinate(w[row])]
  <1>1. \A row \in 1 .. 4 : IsRow(w[row]) /\ Valid(w[row]) # {}
    BY DEF IsWindow, IsBox
  <1>2. \A row \in 1 .. 4 : Coordinate(w[row]) \in Tokens
    BY <1>1, CoordinateOfRow
  <1>3. f \in [1 .. 4 -> Tokens] /\ \A row \in 1 .. 4 : f[row] = Coordinate(w[row])
    BY <1>2
  <1>4. kBoxStart \in Tokens /\ kBoxEnd \in Tokens
    BY TokenValues
  <1>5. DecodeBox(w) = <<kBoxStart>> \o f \o <<kBoxEnd>>
    BY DEF DecodeBox
  <1> HIDE DEF f
  <1> QED BY <1>3, <1>4, <1>5, SixTokens

\* A window read as an empty box is six tokens that start a box.
LEMMA EmptyBoxTokens ==
  ASSUME NEW w, IsEmptyBox(w)
  PROVE  DecodeBox(w) \in Seq(Tokens) /\ Len(DecodeBox(w)) = 6 /\ DecodeBox(w)[1] = kBoxStart
  <1>1. kBoxStart \in Tokens /\ kNone \in Tokens /\ kBoxEnd \in Tokens /\ kNull \in Tokens
    BY TokenValues
  <1>2. DecodeBox(w) = <<kBoxStart, kNone, kBoxEnd, kNull, kNull, kNull>>
    BY DEF DecodeBox
  <1> QED BY <1>1, <1>2

\* A window read as a reference is six tokens that start one.
LEMMA RefTokens ==
  ASSUME NEW w, IsWindow(w), IsRef(w)
  PROVE  DecodeRef(w) \in Seq(Tokens) /\ Len(DecodeRef(w)) = 6 /\ DecodeRef(w)[1] = kRefStart
  <1> DEFINE f == [row \in 1 .. 5 |-> BestOf(w[row], TextCandidates(w[row]))]
  <1>1. \A row \in 1 .. 5 : /\ IsRow(w[row]) /\ TextCandidates(w[row]) # {}
                            /\ TextCandidates(w[row]) \in SUBSET (1 .. 5)
    BY DEF IsWindow, IsRef, TextCandidates
  <1>2. \A row \in 1 .. 5 : BestOf(w[row], TextCandidates(w[row])) \in Tokens
    BY <1>1, BestRanked
  <1>3. f \in [1 .. 5 -> Tokens] /\ kRefStart \in Tokens
    BY <1>2, TokenValues
  <1>4. DecodeRef(w) = <<kRefStart>> \o f
    BY DEF DecodeRef
  <1> HIDE DEF f
  <1> QED BY <1>3, <1>4, TokenAndFive

\* The greedy tokens are six, the first row's the first.
LEMMA GreedySix ==
  ASSUME NEW w, IsWindow(w)
  PROVE  /\ GreedyTokens(w) \in Seq(Tokens) /\ Len(GreedyTokens(w)) = 6
         /\ GreedyTokens(w)[1] = Greedy(w[0])
  <1>1. \A i \in 1 .. 6 : i - 1 \in 0 .. 5
    OBVIOUS
  <1>2. \A i \in 1 .. 6 : Greedy(w[i - 1]) \in Tokens
    BY <1>1, RankIsToken DEF IsWindow, Greedy
  <1>3. GreedyTokens(w) = [i \in 1 .. 6 |-> Greedy(w[i - 1])]
    BY DEF GreedyTokens
  <1> QED BY <1>2, <1>3

\* The loop of generation may rely on six tokens of the vocabulary.
LEMMA CandidatesOfWindow ==
  ASSUME NEW w, IsWindow(w)
  PROVE  /\ Candidates(w) \in Seq(Tokens) /\ Len(Candidates(w)) = 6
         /\ IsEmptyBox(w) \/ IsBox(w) => Candidates(w)[1] = kBoxStart
         /\ ~IsEmptyBox(w) /\ ~IsBox(w) /\ IsRef(w) => Candidates(w)[1] = kRefStart
         /\ ~IsEmptyBox(w) /\ ~IsBox(w) /\ ~IsRef(w) => Candidates(w)[1] = Greedy(w[0])
  <1>1. CASE IsEmptyBox(w)
    BY <1>1, EmptyBoxTokens DEF Candidates
  <1>2. CASE ~IsEmptyBox(w) /\ IsBox(w)
    BY <1>2, BoxTokens DEF Candidates
  <1>3. CASE ~IsEmptyBox(w) /\ ~IsBox(w) /\ IsRef(w)
    BY <1>3, RefTokens DEF Candidates
  <1>4. CASE ~IsEmptyBox(w) /\ ~IsBox(w) /\ ~IsRef(w)
    BY <1>4, GreedySix DEF Candidates
  <1> QED BY <1>1, <1>2, <1>3, <1>4

\* The windows of the constant are windows.
LEMMA WindowsAreWindows ==
  ASSUME NEW w \in Windows
  PROVE  IsWindow(w) /\ DOMAIN w = 0 .. 5
  BY WindowsAssumption DEF WindowsAssumption, IsWindow, IsRow

\* Every decision on a window has the properties of DecisionSound.
LEMMA DecisionOfWindow ==
  ASSUME window \in Windows, decision = <<DecodePbd(window)>>
  PROVE  DecisionSound
  <1> DEFINE s == Candidates(window)
             d == HandlePattern(s)
  <1>1. IsWindow(window) /\ DOMAIN window = 0 .. 5
    BY WindowsAreWindows
  <1>2. Result = d /\ Decided
    BY DEF Result, Decided, DecodePbd
  <1>3. s \in Seq(Tokens) /\ Len(s) = 6
    BY <1>1, CandidatesOfWindow
  <1>4. /\ Usable(d)
        /\ d.type \in {"im_end", "empty_box", "coord_box", "point_box", "error_box",
                       "ref_object"}
        /\ d.terminal => s[1] \in {kNull, kImEnd}
        /\ s[1] = kBoxStart /\ (\A i \in 2 .. 5 : s[i] = 0 \/ IsCoordinateToken(s[i])) =>
             \A i \in 2 .. 5 : s[i] = 0 => d.switch_to_ar /\ Len(d.tokens) <= i - 1
    BY <1>3, PatternDecided
  <1> HIDE DEF d
  <1>5. DecoderTypeOK
    BY <1>1, <1>2, <1>4 DEF DecoderTypeOK, Usable, Taken
  <1>6. DecisionUsable
    BY <1>2, <1>4 DEF DecisionUsable, Usable, Taken
  <1>7. EndsOnlyAtFirstRow
    <2>1. kBoxStart \notin {kNull, kImEnd} /\ kRefStart \notin {kNull, kImEnd}
      BY TokenValues
    <2> QED BY <1>1, <1>2, <1>4, <2>1, CandidatesOfWindow DEF EndsOnlyAtFirstRow
  <1>8. UnsureCoordinatesRedone
    <2>1. SUFFICES ASSUME IsBox(window), ~IsEmptyBox(window), NEW row \in 1 .. 4,
                          Abnormal(window[row])
                   PROVE  d.switch_to_ar /\ Len(d.tokens) <= row
      BY <1>2 DEF UnsureCoordinatesRedone
    <2>2. s = DecodeBox(window)
      BY <2>1 DEF Candidates
    <2>3. s[1] = kBoxStart /\ \A r \in 1 .. 4 : s[r + 1] = Coordinate(window[r])
      BY <1>1, <2>1, <2>2, BoxTokens
    <2>4. \A r \in 1 .. 4 : /\ Coordinate(window[r]) = 0 \/ IsCoordinateToken(Coordinate(window[r]))
                            /\ Abnormal(window[r]) => Coordinate(window[r]) = 0
      <3>1. \A r \in 1 .. 4 : IsRow(window[r]) /\ Valid(window[r]) # {}
        BY <1>1, <2>1 DEF IsWindow, IsBox
      <3> QED BY <3>1, CoordinateOfRow
    <2> HIDE DEF s
    <2>5. \A i \in 2 .. 5 : s[i] = 0 \/ IsCoordinateToken(s[i])
      <3>1. \A i \in 2 .. 5 : i - 1 \in 1 .. 4 /\ (i - 1) + 1 = i
        OBVIOUS
      <3>2. ASSUME NEW i \in 2 .. 5 PROVE s[i] = Coordinate(window[i - 1]) /\ i - 1 \in 1 .. 4
        BY <2>3, <3>1
      <3> QED BY <2>4, <3>2
    <2>6. row + 1 \in 2 .. 5 /\ s[row + 1] = 0
      BY <2>1, <2>3, <2>4
    <2>7. d.switch_to_ar /\ Len(d.tokens) <= (row + 1) - 1
      BY <1>4, <2>3, <2>5, <2>6
    <2>8. (row + 1) - 1 = row
      OBVIOUS
    <2> QED BY <2>7, <2>8
  <1> QED BY <1>5, <1>6, <1>7, <1>8 DEF DecisionSound

\* For every window the nucleus may leave, the runtime's decision is one its
\* generation loop can use, ends the answer only where the first row says so,
\* and accepts no coordinate it is unsure of.
THEOREM DecisionsAreSound == DecoderSpec => []DecisionSound
  <1> DEFINE Inv == /\ window \in Windows
                    /\ decision = <<>> \/ decision = <<DecodePbd(window)>>
  <1>1. DecoderInit => Inv
    BY DEF DecoderInit
  <1>2. Inv /\ [Decide]_decoderVars => Inv'
    BY DEF Decide, decoderVars
  <1>3. Inv => DecisionSound
    <2>1. CASE Inv /\ decision = <<>>
      BY <2>1, WindowsAreWindows
      DEF DecisionSound, DecoderTypeOK, DecisionUsable, EndsOnlyAtFirstRow,
          UnsureCoordinatesRedone, Decided
    <2>2. CASE Inv /\ decision = <<DecodePbd(window)>>
      BY <2>2, DecisionOfWindow
    <2> QED BY <2>1, <2>2
  <1> QED BY <1>1, <1>2, <1>3, PTL DEF DecoderSpec

-----------------------------------------------------------------------------
(* The audit of a window                                                     *)

\* Only what the nucleus kept can be a coordinate, so both see the same ones.
LEMMA SameCoordinates ==
  ASSUME NEW row, IsRow(row)
  PROVE  AuditValid(row) = Valid(row) /\ (AuditAbnormal(row) <=> Abnormal(row))
  <1>1. ASSUME NEW k \in 1 .. 4, IsCoordinateToken(Ranked(row, k))
        PROVE  Ranked(row, k) \in DOMAIN row
    <2>1. \A token \in 0 .. 4 : ~IsCoordinateToken(token)
      BY DEF IsCoordinateToken, kCoordStart
    <2>2. k \in 1 .. 5
      OBVIOUS
    <2> QED BY <1>1, <2>1, <2>2, RankIsToken
  <1>2. AuditValid(row) = Valid(row)
    BY <1>1 DEF AuditValid, Kept, Valid
  <1> QED BY <1>2 DEF AuditAbnormal, Abnormal

\* A rank of a set that none is below is its first.
LEMMA FirstIs ==
  ASSUME NEW ranks \in SUBSET (1 .. 5), NEW f \in ranks, \A k \in ranks : f <= k
  PROVE  First(ranks) = f
  <1>1. First(ranks) \in 1 .. 5 /\ First(ranks) <= f /\ f <= First(ranks)
    BY FirstRank
  <1>2. f \in 1 .. 5
    OBVIOUS
  <1> QED BY <1>1, <1>2

\* Where the nucleus kept a token that is no coordinate, both take the same text.
LEMMA SameText ==
  ASSUME NEW row, IsRow(row), TextCandidates(row) # {},
         NEW token \in DOMAIN row, ~IsCoordinateToken(token)
  PROVE  /\ AuditText(row) # {}
         /\ BestOf(row, AuditText(row)) = BestOf(row, TextCandidates(row))
  <1> DEFINE f == First(TextCandidates(row))
  <1>1. TextCandidates(row) \in SUBSET (1 .. 5) /\ AuditText(row) \in SUBSET TextCandidates(row)
    BY DEF TextCandidates, AuditText, Kept
  <1>2. f \in TextCandidates(row) /\ f \in 1 .. 5 /\ \A k \in TextCandidates(row) : f <= k
    BY <1>1, FirstRank
  <1> HIDE DEF f
  <1>3. Ranked(row, f) \in DOMAIN row
    <2>1. SUFFICES ASSUME Ranked(row, f) \notin DOMAIN row PROVE FALSE
      OBVIOUS
    <2>2. PICK j \in 1 .. 5 : j < f /\ Ranked(row, j) = token
      BY <1>2, <2>1, KeptRankFirst
    <2>3. j \in TextCandidates(row)
      BY <2>2 DEF TextCandidates
    <2> QED BY <1>2, <2>2, <2>3
  <1>4. f \in AuditText(row)
    BY <1>2, <1>3 DEF TextCandidates, AuditText, Kept
  <1>5. First(AuditText(row)) = f
    BY <1>1, <1>2, <1>4, FirstIs
  <1> QED BY <1>4, <1>5 DEF BestOf, f

\* The best token of a row with any mass was kept.
LEMMA SameBest ==
  ASSUME NEW row, IsRow(row), DOMAIN row # {}
  PROVE  BestOf(row, Kept(row, 1)) = Greedy(row) /\ Greedy(row) \in Tokens
  <1>1. Ranked(row, 1) \in DOMAIN row
    <2>1. SUFFICES ASSUME Ranked(row, 1) \notin DOMAIN row PROVE FALSE
      OBVIOUS
    <2>2. PICK token \in DOMAIN row : TRUE
      OBVIOUS
    <2>3. \E j \in 1 .. 5 : j < 1 /\ Ranked(row, j) = token
      <3>1. 1 \in 1 .. 5
        OBVIOUS
      <3> QED BY <2>1, <3>1, KeptRankFirst
    <2> QED BY <2>3
  <1>2. Kept(row, 1) = {1}
    BY <1>1 DEF Kept
  <1>3. First({1}) = 1
    BY DEF First
  <1>4. DOMAIN row \subseteq Tokens
    BY DEF IsRow
  <1> QED BY <1>1, <1>2, <1>3, <1>4 DEF BestOf, Greedy

\* Audit and runtime see the same boxes, and the same empty boxes unless
\* the start lies between the two thresholds.
LEMMA SameBox ==
  ASSUME NEW w, IsWindow(w)
  PROVE  /\ AuditEmptyBox(w) => IsEmptyBox(w)
         /\ IsEmptyBox(w) /\ Prob(w[0], kBoxStart) \notin 60 .. 69 => AuditEmptyBox(w)
         /\ AuditLegalBox(w) <=> IsBox(w)
  <1>1. 0 \in 0 .. 5 /\ \A row \in 1 .. 4 : row \in 0 .. 5
    OBVIOUS
  <1>2. Prob(w[0], kBoxStart) \in 0 .. 100
    BY <1>1, ProbRange DEF IsWindow
  <1>3. \A row \in 1 .. 4 : AuditValid(w[row]) = Valid(w[row])
    BY <1>1, SameCoordinates DEF IsWindow
  <1>4. AuditLegalBox(w) <=> IsBox(w)
    BY <1>3 DEF AuditLegalBox, IsBox
  <1>5. /\ AuditEmptyBox(w) => IsEmptyBox(w)
        /\ IsEmptyBox(w) /\ Prob(w[0], kBoxStart) \notin 60 .. 69 => AuditEmptyBox(w)
    <2> DEFINE p == Prob(w[0], kBoxStart)
    <2>1. p >= 70 => p >= 60
      BY <1>2
    <2>2. p >= 60 /\ p \notin 60 .. 69 => p >= 70
      BY <1>2
    <2> QED BY <2>1, <2>2 DEF AuditEmptyBox, IsEmptyBox
  <1> QED BY <1>4, <1>5

BoxOfAudit(w) ==
  <<kBoxStart>>
  \o [row \in 1 .. 4 |-> IF AuditAbnormal(w[row]) THEN 0 ELSE BestOf(w[row], AuditValid(w[row]))]
  \o <<kBoxEnd>>

\* A box has the same tokens for the audit and for the runtime.
LEMMA SameBoxTokens ==
  ASSUME NEW w, IsWindow(w), ~IsEmptyBox(w)
  PROVE  BoxOfAudit(w) = DecodeBox(w)
  <1> DEFINE f == [row \in 1 .. 4 |-> IF AuditAbnormal(w[row]) THEN 0
                                      ELSE BestOf(w[row], AuditValid(w[row]))]
             g == [row \in 1 .. 4 |-> Coordinate(w[row])]
  <1>1. \A row \in 1 .. 4 : IsRow(w[row])
    BY DEF IsWindow
  <1>2. ASSUME NEW row \in 1 .. 4
        PROVE  (IF AuditAbnormal(w[row]) THEN 0 ELSE BestOf(w[row], AuditValid(w[row])))
                 = Coordinate(w[row])
    BY <1>1, <1>2, SameCoordinates DEF Coordinate
  <1>3. f = g
    BY <1>2
  <1>4. DecodeBox(w) = <<kBoxStart>> \o g \o <<kBoxEnd>> /\ BoxOfAudit(w) = <<kBoxStart>> \o f \o <<kBoxEnd>>
    BY DEF DecodeBox, BoxOfAudit
  <1> HIDE DEF f, g
  <1> QED BY <1>3, <1>4

\* The two reasons for which the audit may decide otherwise.
UnsureStart(w) == Prob(w[0], kBoxStart) \in 60 .. 69 /\ IsEmptyBox(w)
RowOfCoordinates(w) ==
  IsRef(w) /\ \E row \in 1 .. 5 : \A token \in DOMAIN w[row] : IsCoordinateToken(token)

RefOfAudit(w) == <<kRefStart>> \o [row \in 1 .. 5 |-> BestOf(w[row], AuditText(w[row]))]

\* Where the nucleus kept text in every row, both see the same references
\* with the same tokens.
LEMMA SameRef ==
  ASSUME NEW w, IsWindow(w), ~RowOfCoordinates(w)
  PROVE  (AuditRef(w) <=> IsRef(w)) /\ (IsRef(w) => RefOfAudit(w) = DecodeRef(w))
  <1>1. AuditRef(w) => IsRef(w)
    <2>1. \A row : AuditText(row) \subseteq TextCandidates(row)
      BY DEF AuditText, TextCandidates, Kept
    <2> QED BY <2>1 DEF AuditRef, IsRef
  <1>2. ASSUME IsRef(w), NEW row \in 1 .. 5
        PROVE  /\ AuditText(w[row]) # {}
               /\ BestOf(w[row], AuditText(w[row])) = BestOf(w[row], TextCandidates(w[row]))
    <2>1. PICK token \in DOMAIN w[row] : ~IsCoordinateToken(token)
      BY <1>2 DEF RowOfCoordinates
    <2>2. IsRow(w[row]) /\ TextCandidates(w[row]) # {}
      BY <1>2 DEF IsWindow, IsRef
    <2> QED BY <2>1, <2>2, SameText
  <1>3. IsRef(w) => AuditRef(w)
    BY <1>2 DEF AuditRef, IsRef
  <1>4. ASSUME IsRef(w) PROVE RefOfAudit(w) = DecodeRef(w)
    <2> DEFINE f == [row \in 1 .. 5 |-> BestOf(w[row], AuditText(w[row]))]
               g == [row \in 1 .. 5 |-> BestOf(w[row], TextCandidates(w[row]))]
    <2>1. f = g
      BY <1>2, <1>4
    <2>2. RefOfAudit(w) = <<kRefStart>> \o f /\ DecodeRef(w) = <<kRefStart>> \o g
      BY DEF RefOfAudit, DecodeRef
    <2> HIDE DEF f, g
    <2> QED BY <2>1, <2>2
  <1> QED BY <1>1, <1>3, <1>4

\* Decoded alone, the rows give the audit and the runtime the same tokens.
LEMMA SameGreedy ==
  ASSUME NEW w, IsWindow(w), Summarised(w)
  PROVE  [i \in 1 .. 6 |-> BestOf(w[i - 1], Kept(w[i - 1], 1))] = GreedyTokens(w)
  <1>1. \A i \in 1 .. 6 : i - 1 \in 0 .. 5
    OBVIOUS
  <1>2. \A i \in 1 .. 6 : BestOf(w[i - 1], Kept(w[i - 1], 1)) = Greedy(w[i - 1])
    BY <1>1, SameBest DEF IsWindow, Summarised
  <1> QED BY <1>2 DEF GreedyTokens

\* But for those reasons the audit decides from the same six tokens.
LEMMA SameTokens ==
  ASSUME NEW w, IsWindow(w), Summarised(w), ~UnsureStart(w), ~RowOfCoordinates(w)
  PROVE  AuditTokens(w) = Candidates(w)
  <1>1. (AuditEmptyBox(w) <=> IsEmptyBox(w)) /\ (AuditLegalBox(w) <=> IsBox(w))
    BY SameBox DEF UnsureStart
  <1>2. AuditRef(w) <=> IsRef(w)
    BY SameRef
  <1>3. AuditTokens(w) =
          IF AuditEmptyBox(w) THEN <<kBoxStart, kNone, kBoxEnd, kNull, kNull, kNull>>
          ELSE IF AuditLegalBox(w) THEN BoxOfAudit(w)
          ELSE IF AuditRef(w) THEN RefOfAudit(w)
          ELSE [i \in 1 .. 6 |-> BestOf(w[i - 1], Kept(w[i - 1], 1))]
    BY DEF AuditTokens, BoxOfAudit, RefOfAudit
  <1>4. CASE IsEmptyBox(w)
    BY <1>1, <1>3, <1>4 DEF Candidates, DecodeBox
  <1>5. CASE ~IsEmptyBox(w) /\ IsBox(w)
    BY <1>1, <1>3, <1>5, SameBoxTokens DEF Candidates
  <1>6. CASE ~IsEmptyBox(w) /\ ~IsBox(w) /\ IsRef(w)
    BY <1>1, <1>2, <1>3, <1>6, SameRef DEF Candidates
  <1>7. CASE ~IsEmptyBox(w) /\ ~IsBox(w) /\ ~IsRef(w)
    BY <1>1, <1>2, <1>3, <1>7, SameGreedy DEF Candidates
  <1> QED BY <1>4, <1>5, <1>6, <1>7

\* The audit, too, decides from six tokens of the vocabulary.
LEMMA AuditedTokens ==
  ASSUME NEW w, IsWindow(w), Summarised(w)
  PROVE  AuditTokens(w) \in Seq(Tokens) /\ Len(AuditTokens(w)) = 6
  <1>1. AuditTokens(w) =
          IF AuditEmptyBox(w) THEN <<kBoxStart, kNone, kBoxEnd, kNull, kNull, kNull>>
          ELSE IF AuditLegalBox(w) THEN BoxOfAudit(w)
          ELSE IF AuditRef(w) THEN RefOfAudit(w)
          ELSE [i \in 1 .. 6 |-> BestOf(w[i - 1], Kept(w[i - 1], 1))]
    BY DEF AuditTokens, BoxOfAudit, RefOfAudit
  <1>2. CASE AuditEmptyBox(w)
    <2>1. IsEmptyBox(w)
      BY <1>2, SameBox
    <2>2. AuditTokens(w) = DecodeBox(w)
      BY <1>1, <1>2, <2>1 DEF DecodeBox
    <2> QED BY <2>1, <2>2, EmptyBoxTokens
  <1>3. CASE ~AuditEmptyBox(w) /\ AuditLegalBox(w)
    <2> DEFINE f == [row \in 1 .. 4 |-> IF AuditAbnormal(w[row]) THEN 0
                                        ELSE BestOf(w[row], AuditValid(w[row]))]
    <2>1. \A row \in 1 .. 4 : IsRow(w[row]) /\ AuditValid(w[row]) # {}
                              /\ AuditValid(w[row]) \in SUBSET (1 .. 5)
      BY <1>3 DEF IsWindow, AuditLegalBox, AuditValid, Kept
    <2>2. kBoxStart \in Tokens /\ kBoxEnd \in Tokens /\ 0 \in Tokens
      BY TokenValues
    <2>3. f \in [1 .. 4 -> Tokens]
      BY <2>1, <2>2, BestRanked
    <2>4. AuditTokens(w) = <<kBoxStart>> \o f \o <<kBoxEnd>>
      BY <1>1, <1>3 DEF BoxOfAudit
    <2> HIDE DEF f
    <2> QED BY <2>2, <2>3, <2>4, SixTokens
  <1>4. CASE ~AuditEmptyBox(w) /\ ~AuditLegalBox(w) /\ AuditRef(w)
    <2> DEFINE f == [row \in 1 .. 5 |-> BestOf(w[row], AuditText(w[row]))]
    <2>1. \A row \in 1 .. 5 : IsRow(w[row]) /\ AuditText(w[row]) # {}
                              /\ AuditText(w[row]) \in SUBSET (1 .. 5)
      BY <1>4 DEF IsWindow, AuditRef, AuditText, Kept
    <2>2. f \in [1 .. 5 -> Tokens] /\ kRefStart \in Tokens
      BY <2>1, BestRanked, TokenValues
    <2>3. AuditTokens(w) = <<kRefStart>> \o f
      BY <1>1, <1>4 DEF RefOfAudit
    <2> HIDE DEF f
    <2> QED BY <2>2, <2>3, TokenAndFive
  <1>5. CASE ~AuditEmptyBox(w) /\ ~AuditLegalBox(w) /\ ~AuditRef(w)
    <2>1. AuditTokens(w) = [i \in 1 .. 6 |-> BestOf(w[i - 1], Kept(w[i - 1], 1))]
      BY <1>1, <1>5
    <2>2. AuditTokens(w) = GreedyTokens(w)
      BY <2>1, SameGreedy
    <2> QED BY <2>2, GreedySix
  <1> QED BY <1>2, <1>3, <1>4, <1>5

-----------------------------------------------------------------------------
(* The fallback                                                              *)

Falling == {"replay", "select", "feed", "resolve"}
DecidedAt == Falling \cup {"resolved", "done"}

\* What the audit decided, as far as the fallback and the comparison need it.
Audited ==
  /\ window \in Windows
  /\ decision = <<>> \/ decision = <<DecodePbd(window)>>
  /\ pc \in DecidedAt => /\ Summarised(window) /\ audit = AuditDecision(window)
                         /\ decision = <<DecodePbd(window)>>
  /\ pc \in Falling \cup {"resolved"} => audit.switch_to_ar
  /\ pc \notin Falling \cup {"resolved"} => fed = <<>>

\* What was run so far.
History ==
  /\ fed \in Seq([token : Tokens, position : Nat]) /\ resolved \in Seq(Tokens)
  /\ cached = Past + Len(fed)
  /\ pc \in Falling =>
       /\ Len(Prefix) <= Len(resolved)
       /\ \A i \in 1 .. Len(Prefix) : resolved[i] = Prefix[i]
       /\ \A i \in 1 .. Len(fed) : fed[i].token = resolved[i] /\ fed[i].position = Past + i - 1
  /\ pc = "replay" => resolved = Prefix /\ Len(fed) < Len(Prefix)
  /\ pc = "select" => Len(fed) = Len(resolved)
  /\ pc = "feed" => Len(fed) + 1 = Len(resolved)

\* A box end is the last token there can be.
EndStops ==
  /\ pc \in {"replay", "select", "feed"} =>
       \A i \in 1 .. Len(resolved) : resolved[i] # kBoxEnd
  /\ pc = "resolve" =>
       \A i \in 1 .. Len(resolved) : resolved[i] = kBoxEnd => termination = "box_end"

Terminations == {"", "box_end", "non_coordinate", "max_new_tokens"}

FallbackInv ==
  /\ pc \in DecidedAt \cup {"decode", "raised"} /\ termination \in Terminations
  /\ Audited /\ History /\ EndStops /\ ResolvedBoxClosed

\* What the audit decides, from a window every row of which has some mass.
LEMMA AuditOfWindow ==
  ASSUME NEW w \in Windows, Summarised(w)
  PROVE  LET d == AuditDecision(w)
         IN /\ Usable(d)
            /\ d.switch_to_ar =>
                 /\ Len(d.tokens) \in 1 .. 5 /\ d.tokens[1] = kBoxStart
                 /\ \A i \in 2 .. Len(d.tokens) : IsCoordinateToken(d.tokens[i])
                 /\ d.tokens = SubSeq(AuditTokens(w), 1, Len(d.tokens))
                 /\ \A i \in 1 .. Len(d.tokens) : d.tokens[i] # kBoxEnd
  <1> DEFINE s == AuditTokens(w)
             d == HandlePattern(s)
  <1>1. s \in Seq(Tokens) /\ Len(s) = 6
    BY WindowsAreWindows, AuditedTokens
  <1>2. Usable(d) /\ (d.switch_to_ar => d.tokens = SubSeq(s, 1, Len(d.tokens)))
    BY <1>1, PatternDecided
  <1>3. AuditDecision(w) = d
    BY DEF AuditDecision, AuditPattern
  <1> HIDE DEF d, s
  <1>4. ASSUME d.switch_to_ar
        PROVE  /\ Len(d.tokens) \in 1 .. 5 /\ d.tokens[1] = kBoxStart
               /\ \A i \in 2 .. Len(d.tokens) : IsCoordinateToken(d.tokens[i])
               /\ \A i \in 1 .. Len(d.tokens) : d.tokens[i] # kBoxEnd
    <2> DEFINE u == d.tokens
    <2>1. Taken(u, d.switch_to_ar, d.terminal)
      BY <1>2 DEF Usable
    <2> HIDE DEF u
    <2>2. Len(u) \in 1 .. 6 /\ u[1] = kBoxStart
      BY <1>4, <2>1 DEF Taken
    <2>3. Len(u) <= 5 /\ \A i \in 2 .. Len(u) : IsCoordinateToken(u[i])
      BY <1>4, <2>1, <2>2, Zenon DEF Taken
    <2>4. kBoxStart # kBoxEnd /\ ~IsCoordinateToken(kBoxEnd)
      BY DEF kBoxStart, kBoxEnd, IsCoordinateToken, kCoordStart
    <2>5. \A i \in 1 .. Len(u) : u[i] # kBoxEnd
      <3>1. \A i \in 1 .. Len(u) : i = 1 \/ i \in 2 .. Len(u)
        BY <2>2
      <3> QED BY <2>2, <2>3, <2>4, <3>1
    <2>6. Len(u) \in 1 .. 5
      BY <2>2, <2>3
    <2> QED BY <2>2, <2>3, <2>5, <2>6 DEF u
  <1> QED BY <1>2, <1>3, <1>4 DEF s

\* The prefix of a fallback.
LEMMA PrefixOfFallback ==
  ASSUME Audited, pc \in Falling \cup {"resolved"}
  PROVE  /\ Prefix \in Seq(Tokens) /\ Len(Prefix) \in 1 .. 5 /\ Prefix[1] = kBoxStart
         /\ \A i \in 2 .. Len(Prefix) : IsCoordinateToken(Prefix[i])
         /\ Prefix = SubSeq(AuditTokens(window), 1, Len(Prefix))
         /\ \A i \in 1 .. Len(Prefix) : Prefix[i] # kBoxEnd
  <1>1. /\ window \in Windows /\ Summarised(window) /\ audit = AuditDecision(window)
        /\ audit.switch_to_ar
    BY DEF Audited, DecidedAt
  <1>2. /\ Usable(audit) /\ Len(audit.tokens) \in 1 .. 5 /\ audit.tokens[1] = kBoxStart
        /\ \A i \in 2 .. Len(audit.tokens) : IsCoordinateToken(audit.tokens[i])
        /\ audit.tokens = SubSeq(AuditTokens(window), 1, Len(audit.tokens))
        /\ \A i \in 1 .. Len(audit.tokens) : audit.tokens[i] # kBoxEnd
    BY <1>1, AuditOfWindow
  <1>3. audit.tokens \in Seq(Tokens)
    BY <1>2 DEF Usable, Taken
  <1> QED BY <1>2, <1>3 DEF Prefix

\* The invariant holds before anything is decoded.
LEMMA FallbackStarts == AuditInit => FallbackInv
  <1> SUFFICES ASSUME AuditInit PROVE FallbackInv
    OBVIOUS
  <1>1. /\ window \in Windows /\ decision = <<>> /\ pc = "decode" /\ resolved = <<>>
        /\ fed = <<>> /\ cached = Past /\ termination = ""
    BY DEF AuditInit, DecoderInit
  <1>2. Past \in Nat
    BY AuditAssumption DEF AuditAssumption
  <1>3. Audited
    BY <1>1 DEF Audited, Falling, DecidedAt
  <1>4. History
    <2>1. <<>> \in Seq([token : Tokens, position : Nat]) /\ <<>> \in Seq(Tokens) /\ Len(<<>>) = 0
      OBVIOUS
    <2>2. Past + 0 = Past
      BY <1>2
    <2>3. cached = Past + Len(fed)
      BY <1>1, <2>1, <2>2, Zenon
    <2>4. pc \notin Falling
      BY <1>1 DEF Falling
    <2> QED BY <1>1, <2>1, <2>3, <2>4, Zenon DEF History, Falling
  <1>5. EndStops
    BY <1>1 DEF EndStops
  <1> QED BY <1>1, <1>3, <1>4, <1>5 DEF FallbackInv, ResolvedBoxClosed, Terminations

\* Decoding the window leaves a box to finish as a start and coordinates.
LEMMA WindowDecoded ==
  ASSUME FallbackInv, DecodeWindow
  PROVE  FallbackInv'
  <1>1. /\ window \in Windows /\ pc = "decode" /\ fed = <<>> /\ resolved \in Seq(Tokens)
        /\ cached = Past + Len(fed) /\ termination \in Terminations
    BY DEF FallbackInv, Audited, History, DecodeWindow, Falling
  <1>2. /\ decision' = <<DecodePbd(window)>> /\ window' = window /\ fed' = fed
        /\ cached' = cached /\ termination' = termination
    BY DEF DecodeWindow
  <1>3. CASE ~Summarised(window)
    <2>1. pc' = "raised" /\ audit' = audit /\ resolved' = resolved
      BY <1>3 DEF DecodeWindow
    <2>2. Audited'
      BY <1>1, <1>2, <2>1 DEF Audited, Falling, DecidedAt
    <2>3. History' /\ EndStops' /\ ResolvedBoxClosed'
      BY <1>1, <1>2, <2>1 DEF History, EndStops, ResolvedBoxClosed, Falling
    <2> QED BY <1>1, <1>2, <2>1, <2>2, <2>3 DEF FallbackInv
  <1>4. CASE Summarised(window)
    <2>1. /\ audit' = AuditDecision(window) /\ resolved' = audit'.tokens
          /\ pc' = IF audit'.switch_to_ar THEN "replay" ELSE "done"
      BY <1>4 DEF DecodeWindow
    <2> DEFINE d == AuditDecision(window)
    <2>2. /\ Usable(d)
          /\ d.switch_to_ar =>
               Len(d.tokens) \in 1 .. 5 /\ \A i \in 1 .. Len(d.tokens) : d.tokens[i] # kBoxEnd
      BY <1>1, <1>4, AuditOfWindow
    <2> HIDE DEF d
    <2>3. d.tokens \in Seq(Tokens)
      BY <2>2 DEF Usable, Taken
    <2>4. audit' = d /\ Prefix' = d.tokens
      BY <2>1 DEF d, Prefix
    <2>5. Audited'
      <3>1. Summarised(window')
        BY <1>2, <1>4
      <3>2. audit' = AuditDecision(window') /\ decision' = <<DecodePbd(window')>>
        BY <1>2, <2>1
      <3>3. pc' \in Falling \cup {"resolved"} => audit'.switch_to_ar
        BY <2>1 DEF Falling
      <3> QED BY <1>1, <1>2, <3>1, <3>2, <3>3 DEF Audited
    <2>6. pc' = "replay" =>
            d.switch_to_ar /\ 0 < Len(d.tokens) /\ Len(d.tokens) \in 1 .. 5
      <3>1. SUFFICES ASSUME pc' = "replay"
                     PROVE  d.switch_to_ar /\ 0 < Len(d.tokens) /\ Len(d.tokens) \in 1 .. 5
        BY Zenon
      <3>2. d.switch_to_ar
        BY <2>1, <2>4, <3>1
      <3>3. Len(d.tokens) \in 1 .. 5
        BY <2>2, <3>2
      <3>4. \A n \in 1 .. 5 : 0 < n
        OBVIOUS
      <3> QED BY <3>2, <3>3, <3>4, Zenon
    <2>7. History'
      <3>1. fed' = <<>> /\ Len(fed') = 0 /\ fed' \in Seq([token : Tokens, position : Nat])
        BY <1>1, <1>2
      <3>2. resolved' = d.tokens
        BY <2>1, <2>4
      <3>3. pc' \in {"replay", "done"}
        BY <2>1
      <3> QED BY <1>1, <1>2, <2>3, <2>4, <2>6, <3>1, <3>2, <3>3 DEF History, Falling
    <2>8. EndStops'
      <3>1. CASE pc' = "replay"
        <4>1. \A i \in 1 .. Len(d.tokens) : d.tokens[i] # kBoxEnd
          BY <2>2, <2>6, <3>1
        <4>2. resolved' = d.tokens
          BY <2>1, <2>4
        <4> QED BY <3>1, <4>1, <4>2 DEF EndStops
      <3>2. CASE pc' = "done"
        BY <3>2 DEF EndStops
      <3> QED BY <2>1, <3>1, <3>2
    <2>9. ResolvedBoxClosed' /\ pc' \in DecidedAt
      BY <2>1 DEF ResolvedBoxClosed, DecidedAt, Falling
    <2> QED BY <1>1, <1>2, <2>5, <2>7, <2>8, <2>9 DEF FallbackInv
  <1> QED BY <1>3, <1>4

\* A sequence of fed tokens with one more.
LEMMA FedToken ==
  ASSUME NEW sent \in Seq([token : Tokens, position : Nat]), NEW token \in Tokens,
         NEW position \in Nat, NEW f,
         f = Append(sent, [token |-> token, position |-> position])
  PROVE  /\ f \in Seq([token : Tokens, position : Nat]) /\ Len(f) = Len(sent) + 1
         /\ f[Len(sent) + 1] = [token |-> token, position |-> position]
         /\ \A i \in 1 .. Len(sent) : f[i] = sent[i]
  <1> DEFINE r == [token |-> token, position |-> position]
  <1>1. r \in [token : Tokens, position : Nat]
    OBVIOUS
  <1> HIDE DEF r
  <1>2. /\ Append(sent, r) \in Seq([token : Tokens, position : Nat])
        /\ Len(Append(sent, r)) = Len(sent) + 1 /\ Append(sent, r)[Len(sent) + 1] = r
        /\ \A i \in 1 .. Len(sent) : Append(sent, r)[i] = sent[i]
    BY <1>1, AppendProperties
  <1> QED BY <1>2 DEF r

\* A token sequence with one more token.
LEMMA TokenAppended ==
  ASSUME NEW s \in Seq(Tokens), NEW token \in Tokens
  PROVE  /\ Append(s, token) \in Seq(Tokens) /\ Len(Append(s, token)) = Len(s) + 1
         /\ Append(s, token)[Len(s) + 1] = token
         /\ \A i \in 1 .. Len(s) : Append(s, token)[i] = s[i]
  BY AppendProperties

\* Running the next token of the text keeps what was run in step with it.
LEMMA NextTokenFed ==
  ASSUME Audited, History, pc \in Falling, Len(fed) < Len(resolved),
         NEW token, token = resolved[Len(fed) + 1], Feed(token)
  PROVE  /\ fed' \in Seq([token : Tokens, position : Nat]) /\ Len(fed') = Len(fed) + 1
         /\ cached' = Past + Len(fed')
         /\ \A i \in 1 .. Len(fed') :
              fed'[i].token = resolved[i] /\ fed'[i].position = Past + i - 1
  <1>1. /\ fed \in Seq([token : Tokens, position : Nat]) /\ resolved \in Seq(Tokens)
        /\ cached = Past + Len(fed)
        /\ \A i \in 1 .. Len(fed) : fed[i].token = resolved[i] /\ fed[i].position = Past + i - 1
    BY DEF History
  <1>2. Past \in Nat /\ Len(fed) \in Nat /\ Len(resolved) \in Nat
    BY <1>1, AuditAssumption DEF AuditAssumption
  <1>3. Len(fed) + 1 \in 1 .. Len(resolved)
    BY <1>2
  <1>4. token \in Tokens
    BY <1>1, <1>3, ElementOfSeq
  <1>5. cached \in Nat
    BY <1>1, <1>2
  <1>6. fed' = Append(fed, [token |-> token, position |-> cached]) /\ cached' = cached + 1
    BY DEF Feed
  <1>7. /\ fed' \in Seq([token : Tokens, position : Nat]) /\ Len(fed') = Len(fed) + 1
        /\ fed'[Len(fed) + 1] = [token |-> token, position |-> cached]
        /\ \A i \in 1 .. Len(fed) : fed'[i] = fed[i]
    BY <1>1, <1>4, <1>5, <1>6, FedToken
  <1>8. cached' = Past + Len(fed')
    BY <1>1, <1>2, <1>6, <1>7
  <1>9. ASSUME NEW i \in 1 .. Len(fed')
        PROVE  fed'[i].token = resolved[i] /\ fed'[i].position = Past + i - 1
    <2>1. i \in 1 .. Len(fed) \/ i = Len(fed) + 1
      BY <1>2, <1>7, <1>9
    <2>2. CASE i \in 1 .. Len(fed)
      BY <1>1, <1>7, <2>2
    <2>3. CASE i = Len(fed) + 1
      <3>1. fed'[i].token = token /\ fed'[i].position = cached
        BY <1>7, <2>3
      <3>2. cached = Past + i - 1
        BY <1>1, <1>2, <2>3
      <3> QED BY <2>3, <3>1, <3>2
    <2> QED BY <2>1, <2>2, <2>3
  <1> QED BY <1>7, <1>8, <1>9

\* The steps that leave the decision alone leave what the audit decided.
LEMMA AuditKept ==
  ASSUME Audited, UNCHANGED <<window, decision, audit>>,
         pc \in Falling, pc' \in Falling \cup {"resolved"}
  PROVE  Audited'
  BY DEF Audited, Falling, DecidedAt, Summarised, AuditDecision, AuditPattern

\* Replaying a token of the prefix keeps the invariant.
LEMMA PrefixReplayed ==
  ASSUME FallbackInv, ReplayPrefix
  PROVE  FallbackInv'
  <1>1. /\ pc = "replay" /\ Audited /\ History /\ EndStops /\ termination \in Terminations
        /\ pc \in Falling
    BY DEF FallbackInv, ReplayPrefix, Falling
  <1>2. /\ Feed(Prefix[Len(fed) + 1])
        /\ pc' = (IF Len(fed) + 1 = Len(Prefix) THEN "select" ELSE "replay")
        /\ window' = window /\ decision' = decision /\ audit' = audit
        /\ resolved' = resolved /\ termination' = termination
    BY DEF ReplayPrefix
  <1>3. resolved = Prefix /\ Len(fed) < Len(Prefix) /\ Prefix' = Prefix /\ resolved \in Seq(Tokens)
    BY <1>1, <1>2 DEF History, Prefix
  <1>4. /\ fed' \in Seq([token : Tokens, position : Nat]) /\ Len(fed') = Len(fed) + 1
        /\ cached' = Past + Len(fed')
        /\ \A i \in 1 .. Len(fed') :
             fed'[i].token = resolved[i] /\ fed'[i].position = Past + i - 1
    BY <1>1, <1>2, <1>3, NextTokenFed
  <1>5. pc' \in {"select", "replay"} /\ pc' \in Falling
    BY <1>2 DEF Falling
  <1>6. Audited'
    BY <1>1, <1>2, <1>5, AuditKept
  <1>7. History'
    <2>1. Len(fed) \in Nat /\ Len(Prefix) \in Nat
      BY <1>1, <1>3 DEF History
    <2>2. pc' = "replay" => Len(fed') < Len(Prefix)
      BY <1>2, <1>3, <1>4, <2>1
    <2>3. pc' = "select" => Len(fed') = Len(resolved)
      BY <1>2, <1>3, <1>4
    <2>4. /\ Len(Prefix) <= Len(resolved)
          /\ \A i \in 1 .. Len(Prefix) : resolved[i] = Prefix[i]
      BY <1>3, <2>1
    <2>5. pc' # "feed"
      BY <1>5
    <2> QED BY <1>2, <1>3, <1>4, <2>2, <2>3, <2>4, <2>5 DEF History
  <1>8. EndStops'
    BY <1>1, <1>2, <1>5 DEF EndStops
  <1>9. ResolvedBoxClosed' /\ pc' \in DecidedAt
    BY <1>5 DEF ResolvedBoxClosed, DecidedAt
  <1> QED BY <1>1, <1>2, <1>6, <1>7, <1>8, <1>9 DEF FallbackInv

\* Selecting the next token keeps the invariant: only an end closes a box.
LEMMA TokenSelected ==
  ASSUME FallbackInv, SelectToken
  PROVE  FallbackInv'
  <1>1. /\ pc = "select" /\ Audited /\ History /\ EndStops /\ pc \in Falling
    BY DEF FallbackInv, SelectToken, Falling
  <1>2. PICK token \in Choices : resolved' = Append(resolved, token) /\ termination' = Stops(token)
    BY DEF SelectToken
  <1>3. /\ pc' = (IF termination' = "" THEN "feed" ELSE "resolve")
        /\ window' = window /\ decision' = decision /\ audit' = audit
        /\ fed' = fed /\ cached' = cached
    BY DEF SelectToken
  <1>4. token \in Tokens
    BY <1>2, AuditAssumption DEF AuditAssumption
  <1>5. /\ fed \in Seq([token : Tokens, position : Nat]) /\ resolved \in Seq(Tokens)
        /\ cached = Past + Len(fed) /\ Len(fed) = Len(resolved)
        /\ Len(Prefix) <= Len(resolved)
        /\ \A i \in 1 .. Len(Prefix) : resolved[i] = Prefix[i]
        /\ \A i \in 1 .. Len(fed) : fed[i].token = resolved[i] /\ fed[i].position = Past + i - 1
    BY <1>1 DEF History
  <1>6. /\ resolved' \in Seq(Tokens) /\ Len(resolved') = Len(resolved) + 1
        /\ resolved'[Len(resolved) + 1] = token
        /\ \A i \in 1 .. Len(resolved) : resolved'[i] = resolved[i]
    BY <1>2, <1>4, <1>5, TokenAppended
  <1>7. pc' \in {"feed", "resolve"} /\ pc' \in Falling /\ termination' \in Terminations
    BY <1>2, <1>3 DEF Falling, Stops, Terminations
  <1>8. Audited'
    BY <1>1, <1>3, <1>7, AuditKept
  <1>9. Prefix' = Prefix /\ Len(Prefix) \in Nat /\ Len(resolved) \in Nat
    <2>1. Prefix \in Seq(Tokens)
      BY <1>1, PrefixOfFallback
    <2>2. Prefix' = Prefix
      BY <1>3, Zenon DEF Prefix
    <2> QED BY <1>5, <2>1, <2>2, LenProperties
  <1>10. History'
    <2>1. Len(Prefix) <= Len(resolved')
      BY <1>5, <1>6, <1>9
    <2>2. \A i \in 1 .. Len(Prefix) : resolved'[i] = Prefix[i]
      BY <1>5, <1>6, <1>9
    <2>3. \A i \in 1 .. Len(fed) : fed[i].token = resolved'[i] /\ fed[i].position = Past + i - 1
      BY <1>5, <1>6
    <2>4. Len(fed) + 1 = Len(resolved')
      BY <1>5, <1>6
    <2>5. pc' \notin {"replay", "select"}
      BY <1>7
    <2> QED BY <1>3, <1>5, <1>6, <1>9, <2>1, <2>2, <2>3, <2>4, <2>5 DEF History
  <1>11. EndStops'
    <2>1. \A i \in 1 .. Len(resolved) : resolved'[i] # kBoxEnd
      BY <1>1, <1>6 DEF EndStops
    <2>2. \A i \in 1 .. Len(resolved') : i \in 1 .. Len(resolved) \/ i = Len(resolved) + 1
      BY <1>6, <1>9
    <2>3. token = kBoxEnd => termination' = "box_end"
      BY <1>2 DEF Stops
    <2>4. pc' = "feed" => token # kBoxEnd
      BY <1>3, <2>3
    <2> QED BY <1>6, <1>7, <2>1, <2>2, <2>3, <2>4 DEF EndStops
  <1>12. ResolvedBoxClosed' /\ pc' \in DecidedAt
    BY <1>7 DEF ResolvedBoxClosed, DecidedAt
  <1> QED BY <1>7, <1>8, <1>10, <1>11, <1>12 DEF FallbackInv

\* Running the selected token keeps the invariant.
LEMMA SelectedFed ==
  ASSUME FallbackInv, FeedSelected
  PROVE  FallbackInv'
  <1>1. pc = "feed" /\ Audited /\ History /\ EndStops /\ pc \in Falling
    BY DEF FallbackInv, FeedSelected, Falling
  <1>2. /\ Feed(resolved[Len(resolved)])
        /\ \/ pc' = "select" /\ termination' = ""
           \/ pc' = "resolve" /\ termination' = "max_new_tokens"
        /\ window' = window /\ decision' = decision /\ audit' = audit /\ resolved' = resolved
    BY DEF FeedSelected
  <1>3. /\ resolved \in Seq(Tokens) /\ Len(fed) + 1 = Len(resolved)
        /\ Len(Prefix) <= Len(resolved)
        /\ \A i \in 1 .. Len(Prefix) : resolved[i] = Prefix[i]
        /\ Prefix' = Prefix /\ Len(fed) \in Nat
    <2>1. fed \in Seq([token : Tokens, position : Nat])
      BY <1>1 DEF History
    <2>2. Prefix' = Prefix
      BY <1>2, Zenon DEF Prefix
    <2> QED BY <1>1, <2>1, <2>2, LenProperties, Zenon DEF History, Falling
  <1>4. /\ fed' \in Seq([token : Tokens, position : Nat]) /\ Len(fed') = Len(fed) + 1
        /\ cached' = Past + Len(fed')
        /\ \A i \in 1 .. Len(fed') :
             fed'[i].token = resolved[i] /\ fed'[i].position = Past + i - 1
    <2>1. Feed(resolved[Len(fed) + 1])
      BY <1>2, <1>3, Zenon
    <2>2. Len(fed) < Len(resolved)
      <3>1. \A n \in Nat : n < n + 1
        OBVIOUS
      <3> QED BY <1>3, <3>1, Zenon
    <2> QED BY <1>1, <2>1, <2>2, NextTokenFed
  <1>5. /\ pc' \in {"select", "resolve"} /\ pc' \in Falling /\ pc' \in DecidedAt
        /\ termination' \in Terminations
    BY <1>2 DEF Falling, DecidedAt, Terminations
  <1>6. Audited'
    BY <1>1, <1>2, <1>5, AuditKept
  <1>7. History'
    <2>1. Len(fed') = Len(resolved)
      BY <1>3, <1>4
    <2>2. pc' \notin {"replay", "feed"}
      BY <1>5
    <2> QED BY <1>2, <1>3, <1>4, <2>1, <2>2 DEF History
  <1>8. EndStops'
    BY <1>1, <1>2, <1>5 DEF EndStops
  <1>9. ResolvedBoxClosed'
    BY <1>5 DEF ResolvedBoxClosed
  <1> QED BY <1>5, <1>6, <1>7, <1>8, <1>9 DEF FallbackInv

\* The text of a fallback, cut or padded to six tokens.
LEMMA PaddedTokens ==
  ASSUME resolved \in Seq(Tokens)
  PROVE  /\ Padded \in Seq(Tokens) /\ Len(Padded) = 6
         /\ \A i \in 1 .. 6 : Padded[i] = IF i <= Len(resolved) THEN resolved[i] ELSE kNull
  <1>1. Len(resolved) \in Nat /\ kNull \in Tokens
    BY TokenValues
  <1>2. \A i \in 1 .. 6 : (IF i <= Len(resolved) THEN resolved[i] ELSE kNull) \in Tokens
    <2>1. \A i \in 1 .. 6 : i <= Len(resolved) => i \in 1 .. Len(resolved)
      BY <1>1
    <2> QED BY <1>1, <2>1, ElementOfSeq
  <1>3. Padded = [i \in 1 .. 6 |-> IF i <= Len(resolved) THEN resolved[i] ELSE kNull]
    BY DEF Padded
  <1>4. Padded \in [1 .. 6 -> Tokens]
    BY <1>2, <1>3
  <1> QED BY <1>3, <1>4, FunctionIsSequence

\* A box that breaks off is neither a complete box nor a complete point.
LEMMA BrokenBox ==
  ASSUME NEW t \in Seq(Tokens), Len(t) \in 1 .. 5, t[1] = kBoxStart,
         \A i \in 2 .. Len(t) : IsCoordinateToken(t[i])
  PROVE  HandlePattern(t).type \notin {"coord_box", "point_box"}
  <1>1. ~IsCoordinateToken(kBoxEnd) /\ ~IsCoordinateToken(kNone) /\ kBoxStart \notin {kNull, kImEnd}
    BY TokenValues
  <1>2. t # <<>> /\ ~(Len(t) >= 6)
    OBVIOUS
  <1>3. Len(t) >= 4 => t[4] # kBoxEnd
    <2>1. Len(t) >= 4 => 4 \in 2 .. Len(t)
      OBVIOUS
    <2> QED BY <1>1, <2>1
  <1>4. ~(Len(t) >= 2 /\ t[2] = kNone)
    <2>1. Len(t) >= 2 => 2 \in 2 .. Len(t)
      OBVIOUS
    <2> QED BY <1>1, <2>1
  <1>5. HandlePattern(t) = BoxDecision(t)
    BY <1>1, <1>2, <1>4 DEF HandlePattern
  <1>6. BoxDecision(t) = Decision("error_box",
          SubSeq(t, 1, 1 + LeadingRun(Tail(t), 4, IsCoordinateToken)), TRUE, FALSE)
    BY <1>2, <1>3 DEF BoxDecision
  <1> QED BY <1>5, <1>6 DEF Decision

\* Resolving the text keeps the invariant: only a text the model closed is a
\* box or a point, and it starts with the window's prefix.
LEMMA BoxResolved ==
  ASSUME FallbackInv, ResolveBox
  PROVE  FallbackInv'
  <1> DEFINE p == Padded
             d == HandlePattern(p)
             t == d.tokens
  <1>1. pc = "resolve" /\ Audited /\ History /\ EndStops /\ pc \in Falling
        /\ termination \in Terminations
    BY DEF FallbackInv, ResolveBox, Falling
  <1>2. /\ resolved' = t /\ pc' = "resolved"
        /\ window' = window /\ decision' = decision /\ audit' = audit
        /\ fed' = fed /\ cached' = cached /\ termination' = termination
    BY DEF ResolveBox, AuditPattern
  <1>3. /\ Prefix \in Seq(Tokens) /\ Len(Prefix) \in 1 .. 5 /\ Prefix[1] = kBoxStart
        /\ \A i \in 2 .. Len(Prefix) : IsCoordinateToken(Prefix[i])
    BY <1>1, PrefixOfFallback
  <1>4. /\ fed \in Seq([token : Tokens, position : Nat]) /\ resolved \in Seq(Tokens)
        /\ cached = Past + Len(fed) /\ Len(Prefix) <= Len(resolved)
        /\ \A i \in 1 .. Len(Prefix) : resolved[i] = Prefix[i]
    BY <1>1 DEF History
  <1>5. /\ p \in Seq(Tokens) /\ Len(p) = 6
        /\ \A i \in 1 .. 6 : p[i] = IF i <= Len(resolved) THEN resolved[i] ELSE kNull
    BY <1>4, PaddedTokens
  <1> HIDE DEF p
  <1>6. \A i \in 1 .. Len(Prefix) : p[i] = Prefix[i]
    <2>1. ASSUME NEW i \in 1 .. Len(Prefix) PROVE i \in 1 .. 6 /\ i <= Len(resolved)
      <3>1. Len(resolved) \in Nat /\ Len(Prefix) \in 1 .. 5 /\ Len(Prefix) <= Len(resolved)
        BY <1>3, <1>4, LenProperties, Zenon
      <3>2. \A n \in 1 .. 5, m \in Nat : n <= m => \A j \in 1 .. n : j \in 1 .. 6 /\ j <= m
        OBVIOUS
      <3> QED BY <2>1, <3>1, <3>2, Zenon
    <2> QED BY <1>4, <1>5, <2>1
  <1>7. p[1] = kBoxStart
    <2>1. 1 \in 1 .. Len(Prefix)
      BY <1>3
    <2> QED BY <1>3, <1>6, <2>1
  <1>8. /\ Usable(d)
        /\ d.terminal => p[1] \in {kNull, kImEnd}
        /\ p[1] = kBoxStart => \/ p[2] = kNone /\ t = <<kBoxStart, kNone, kBoxEnd>>
                               \/ t = SubSeq(p, 1, Len(t))
    BY <1>5, PatternDecided
  <1>9. Taken(t, d.switch_to_ar, d.terminal)
    BY <1>8 DEF Usable
  <1> DEFINE switch == d.switch_to_ar
  <1>10. \/ p[2] = kNone /\ t = <<kBoxStart, kNone, kBoxEnd>>
         \/ t = SubSeq(p, 1, Len(t))
    BY <1>7, <1>8
  <1> HIDE DEF t, d, switch
  <1>11. t \in Seq(Tokens) /\ Len(t) \in 1 .. 6
    BY <1>9 DEF Taken
  <1>12. t[1] = kBoxStart
    <2>1. CASE t = <<kBoxStart, kNone, kBoxEnd>>
      BY <2>1
    <2>2. CASE t = SubSeq(p, 1, Len(t))
      <3>1. Len(t) \in 0 .. Len(p) /\ 1 \in 1 .. Len(t)
        <4>1. \A n \in 1 .. 6 : n \in 0 .. 6 /\ 1 \in 1 .. n
          OBVIOUS
        <4>2. Len(t) \in 1 .. 6 /\ Len(p) = 6
          BY <1>5, <1>11, Zenon
        <4> QED BY <4>1, <4>2, Zenon
      <3>2. \A i \in 1 .. Len(t) : SubSeq(p, 1, Len(t))[i] = p[i]
        BY <1>5, <3>1, TokenPrefix
      <3> QED BY <1>7, <2>2, <3>1, <3>2
    <2> QED BY <1>10, <2>1, <2>2
  <1>13. IF switch THEN Len(t) <= 5 /\ \A i \in 2 .. Len(t) : IsCoordinateToken(t[i])
                   ELSE IsCompleteDetectionBox(t)
    BY <1>9, <1>12, Zenon DEF Taken, switch
  <1>14. ASSUME NEW i \in 1 .. Len(t), t = SubSeq(p, 1, Len(t)) PROVE t[i] = p[i]
    <2>1. Len(t) \in 0 .. Len(p)
      BY <1>5, <1>11
    <2>2. SubSeq(p, 1, Len(t))[i] = p[i]
      BY <1>5, <2>1, TokenPrefix
    <2> QED BY <1>14, <2>2
  <1>15. ASSUME HandlePattern(t).type \in {"coord_box", "point_box"}, Len(t) > 3
         PROVE  termination = "box_end" /\ IsCompleteDetectionBox(t)
    <2>1. CASE switch
      <3>1. Len(t) \in 1 .. 5 /\ \A i \in 2 .. Len(t) : IsCoordinateToken(t[i])
        <4>1. \A n \in 1 .. 6 : n <= 5 => n \in 1 .. 5
          OBVIOUS
        <4>2. Len(t) \in 1 .. 6 /\ Len(t) <= 5 /\ \A i \in 2 .. Len(t) : IsCoordinateToken(t[i])
          BY <1>11, <1>13, <2>1, Zenon
        <4> QED BY <4>1, <4>2, Zenon
      <3>2. HandlePattern(t).type \notin {"coord_box", "point_box"}
        BY <1>11, <1>12, <3>1, BrokenBox
      <3> QED BY <1>15, <3>2
    <2>2. CASE ~switch
      <3>1. IsCompleteDetectionBox(t)
        BY <1>13, <2>2
      <3>2. t[Len(t)] = kBoxEnd
        BY <3>1 DEF IsCompleteDetectionBox, Last
      <3>3. t = SubSeq(p, 1, Len(t))
        <4>1. t # <<kBoxStart, kNone, kBoxEnd>>
          BY <1>15
        <4> QED BY <1>10, <4>1
      <3>4. Len(t) \in 1 .. Len(t) /\ Len(t) \in 1 .. 6
        BY <1>11
      <3>5. p[Len(t)] = kBoxEnd
        BY <1>14, <3>2, <3>3, <3>4
      <3>6. kBoxEnd # kNull
        BY TokenValues
      <3>7. Len(t) <= Len(resolved) /\ resolved[Len(t)] = kBoxEnd
        BY <1>5, <3>4, <3>5, <3>6
      <3>8. Len(t) \in 1 .. Len(resolved)
        <4>1. Len(resolved) \in Nat
          BY <1>4
        <4> QED BY <3>4, <3>7, <4>1
      <3>9. termination = "box_end"
        BY <1>1, <3>7, <3>8 DEF EndStops
      <3> QED BY <3>1, <3>9
    <2> QED BY <2>1, <2>2
  <1>16. ASSUME NEW i \in 1 .. Len(Prefix), i <= Len(t) PROVE t[i] = Prefix[i]
    <2>1. i \in 1 .. Len(t)
      BY <1>3, <1>11, <1>16
    <2>2. CASE t = SubSeq(p, 1, Len(t))
      BY <1>6, <1>14, <2>1, <2>2
    <2>3. CASE p[2] = kNone /\ t = <<kBoxStart, kNone, kBoxEnd>>
      <3>1. ~(Len(Prefix) >= 2)
        <4>1. SUFFICES ASSUME Len(Prefix) >= 2 PROVE FALSE
          OBVIOUS
        <4>2. 2 \in 1 .. Len(Prefix) /\ 2 \in 2 .. Len(Prefix)
          BY <1>3, <4>1
        <4>3. ~IsCoordinateToken(kNone)
          BY TokenValues
        <4> QED BY <1>3, <1>6, <2>3, <4>2, <4>3
      <3>2. i = 1
        BY <1>3, <1>16, <3>1
      <3> QED BY <1>3, <1>12, <3>2
    <2> QED BY <1>10, <2>2, <2>3
  <1>17. Prefix' = Prefix
    BY <1>2, Zenon DEF Prefix
  <1>18. DOMAIN Prefix = 1 .. Len(Prefix)
    BY <1>3, LenProperties
  <1>19. ResolvedBoxClosed'
    BY <1>2, <1>15, <1>16, <1>17, <1>18 DEF ResolvedBoxClosed
  <1>20. Audited'
    BY <1>1, <1>2, AuditKept
  <1>21. History'
    BY <1>2, <1>4, <1>11 DEF History, Falling
  <1>22. EndStops' /\ pc' \in DecidedAt
    BY <1>2 DEF EndStops, DecidedAt
  <1> QED BY <1>1, <1>2, <1>19, <1>20, <1>21, <1>22 DEF FallbackInv

\* Every step of the audit keeps the invariant.
LEMMA FallbackStep == FallbackInv /\ [AuditNext]_auditVars => FallbackInv'
  <1> SUFFICES ASSUME FallbackInv, [AuditNext]_auditVars PROVE FallbackInv'
    OBVIOUS
  <1>1. CASE DecodeWindow
    BY <1>1, WindowDecoded
  <1>2. CASE ReplayPrefix
    BY <1>2, PrefixReplayed
  <1>3. CASE SelectToken
    BY <1>3, TokenSelected
  <1>4. CASE FeedSelected
    BY <1>4, SelectedFed
  <1>5. CASE ResolveBox
    BY <1>5, BoxResolved
  <1>6. CASE UNCHANGED auditVars
    BY <1>6 DEF auditVars, FallbackInv, Audited, History, EndStops, ResolvedBoxClosed,
                Prefix, Summarised, AuditDecision, AuditPattern
  <1> QED BY <1>1, <1>2, <1>3, <1>4, <1>5, <1>6 DEF AuditNext

\* What the invariant says of a state makes it sound.
LEMMA FallbackInvSound == FallbackInv => FallbackSound
  <1> SUFFICES ASSUME FallbackInv PROVE FallbackSound
    OBVIOUS
  <1>1. Audited /\ History /\ ResolvedBoxClosed
    BY DEF FallbackInv
  <1>2. /\ fed \in Seq([token : Tokens, position : Nat]) /\ resolved \in Seq(Tokens)
        /\ DOMAIN fed = 1 .. Len(fed)
    <2>1. fed \in Seq([token : Tokens, position : Nat]) /\ resolved \in Seq(Tokens)
      BY <1>1 DEF History
    <2> QED BY <2>1, LenProperties
  <1>3. AuditTypeOK
    <2>1. pc \in {"decode", "replay", "select", "feed", "resolve", "resolved", "done", "raised"}
          /\ termination \in {"", "box_end", "non_coordinate", "max_new_tokens"}
      BY DEF FallbackInv, DecidedAt, Falling, Terminations
    <2>2. cached = Past + Len(fed)
      BY <1>1 DEF History
    <2>3. pc \in {"replay", "select", "feed", "resolve"} => audit.switch_to_ar
      BY <1>1 DEF Audited, Falling
    <2> QED BY <2>1, <2>2, <2>3 DEF AuditTypeOK
  <1>4. FallbackHasPrefix
    <2>1. SUFFICES ASSUME pc = "replay"
                   PROVE  /\ Len(Prefix) \in 1 .. 5 /\ Prefix[1] = kBoxStart
                          /\ \A i \in 2 .. Len(Prefix) : IsCoordinateToken(Prefix[i])
                          /\ Prefix = SubSeq(AuditTokens(window), 1, Len(Prefix))
      BY DEF FallbackHasPrefix
    <2>2. pc \in Falling
      BY <2>1 DEF Falling
    <2> QED BY <1>1, <2>2, PrefixOfFallback
  <1>5. HistoryIsText
    <2>1. pc # "resolved" =>
            \A i \in DOMAIN fed : fed[i].token = resolved[i] /\ fed[i].position = Past + i - 1
      <3>1. CASE pc \in Falling
        BY <1>1, <1>2, <3>1 DEF History
      <3>2. CASE pc \notin Falling \cup {"resolved"}
        <4>1. fed = <<>>
          BY <1>1, <3>2 DEF Audited
        <4>2. DOMAIN fed = {}
          BY <4>1
        <4> QED BY <4>2
      <3> QED BY <3>1, <3>2
    <2> QED BY <1>1, <2>1 DEF HistoryIsText, History
  <1>6. DiffersOnlyWhere
    <2>1. SUFFICES ASSUME pc \in {"replay", "done"}, audit # Result,
                          ~UnsureStart(window), ~RowOfCoordinates(window)
                   PROVE  FALSE
      BY DEF DiffersOnlyWhere, UnsureStart, RowOfCoordinates
    <2>2. /\ window \in Windows /\ Summarised(window) /\ audit = AuditDecision(window)
          /\ decision = <<DecodePbd(window)>>
      BY <1>1, <2>1 DEF Audited, DecidedAt, Falling
    <2>3. AuditTokens(window) = Candidates(window)
      BY <2>1, <2>2, WindowsAreWindows, SameTokens
    <2>4. audit = DecodePbd(window)
      BY <2>2, <2>3 DEF AuditDecision, AuditPattern, DecodePbd
    <2> QED BY <2>1, <2>2, <2>4 DEF Result
  <1> QED BY <1>1, <1>3, <1>4, <1>5, <1>6 DEF FallbackSound

\* For every window, whatever the model prefers in a fallback: the audit's
\* decoding of a box, in the window or token by token, is deployment's but for
\* two known differences.
THEOREM AuditDecodesAsDeployment == AuditSpec => []FallbackSound
  BY FallbackStarts, FallbackStep, FallbackInvSound, PTL DEF AuditSpec
=============================================================================
