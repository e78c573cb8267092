--------------------------- MODULE AttentionWindow ---------------------------
(***************************************************************************)
(* The attention mask and the position ids the Language runtime hands to a *)
(* fixed-shape graph, and what they mean together.  A graph call has       *)
(* query rows 0 .. query-1 and attends over kv columns 0 .. cacheLen-1:    *)
(* the graph drops the first query rows of the cache view it is given and  *)
(* appends the K/V of the query, so the committed history sits right       *)
(* before the right-aligned query window.                                  *)
(*                                                                         *)
(* A call is a record: which graph family runs (kind), the number of query *)
(* rows, the kv width, the committed rows before it (past), the accepted   *)
(* rows an extended PBD graph carries (prefix) and, for prefill, the       *)
(* number of prompt rows (active).  The state machine below builds one     *)
(* call's mask and positions row by row.                                   *)
(***************************************************************************)
EXTENDS Integers

CONSTANTS
  CacheLens,      \* kv widths a graph may declare
  PrefillQueries, \* query rows the prefill graph may declare
  Block           \* rows of a PBD block: 6 in the runtime

\* The fused decode graphs carry at most Block accepted rows before the block,
\* and every prefill graph is at least as wide as what it is given.
ASSUME WindowAssumption ==
  /\ CacheLens \subseteq Nat \ {0}
  /\ PrefillQueries \subseteq Nat \ {0}
  /\ Block \in Nat \ {0}

VARIABLES
  call,      \* the graph call whose inputs are being built
  mask,      \* rows built so far: query row -> kv columns it may attend to
  positions  \* rows built so far: query row -> position id

vars == <<call, mask, positions>>

-----------------------------------------------------------------------------
\* BuildAttentionMask: the conditions under which it builds a mask at all.
MaskFits(query, cacheLen, past) ==
  /\ query > 0
  /\ cacheLen > 0
  /\ past >= 0
  /\ past + query <= cacheLen

\* Mutant: a block row also attends to the token its first row repeats.
AllowedRepeat(query, cacheLen, past, block, i, j) ==
  LET currentStart == cacheLen - query
      blockRow == block > 0 /\ query >= block /\ i >= query - block
  IN \/ blockRow /\ j >= cacheLen - block
     \/ currentStart - past <= j /\ j < currentStart
     \/ currentStart <= j /\ j <= currentStart + i

\* BuildAttentionMask: may query row i attend to kv column j?
Allowed(query, cacheLen, past, block, i, j) ==
  LET currentStart == cacheLen - query
      historyStart == currentStart - past
      blockRow == block > 0 /\ query >= block /\ i >= query - block
  IN \/ blockRow /\ j >= cacheLen - block
     \/ /\ blockRow => j # cacheLen - block - 1
        /\ \/ historyStart <= j /\ j < currentStart
           \/ currentStart <= j /\ j <= currentStart + i

\* BuildMask for a prefill call: causal over the right-aligned prompt rows; a
\* padding row attends to itself only.
PrefillAllowed(query, cacheLen, active, i, j) ==
  LET currentStart == cacheLen - query
      rowOffset    == query - active
  IN IF i < rowOffset
     THEN j = currentStart + i
     ELSE currentStart + rowOffset <= j /\ j <= currentStart + i

\* Mutant: the block is shifted from its second row on.
DecodePositionLate(past, pbd, prefix, i) ==
  past + i - (IF pbd /\ i > prefix THEN 1 ELSE 0)

\* BuildPositions for a decode call: the rows after the accepted prefix of a
\* PBD graph are one position lower than their query index says.
DecodePosition(past, pbd, prefix, i) ==
  past + i - (IF pbd /\ i >= prefix THEN 1 ELSE 0)

\* BuildPositions for a prefill call.
PrefillPosition(query, active, i) ==
  IF i < query - active THEN 0 ELSE i - (query - active)

\* BuildPositionIds of position.cpp, the standalone builder.
BuildPositionIds(query, past, block, pbd) ==
  [i \in 0 .. query - 1 |->
     past + i - (IF pbd /\ block > 0 /\ query >= block /\ i >= query - block
                 THEN 1 ELSE 0)]

-----------------------------------------------------------------------------
\* The calls the runtime makes: prefill with an empty cache, AR graphs of one
\* to five rows, PBD graphs of a block after zero to six accepted rows.  A
\* decode call has at least one committed row, the prompt is never empty.
PrefillCalls ==
  {c \in [kind : {"prefill"}, query : PrefillQueries, cacheLen : CacheLens,
          past : {0}, prefix : {0}, active : UNION {1 .. q : q \in PrefillQueries}] :
     c.active <= c.query /\ c.query <= c.cacheLen}

DecodePasts == UNION {1 .. n : n \in CacheLens}

ArCalls ==
  {c \in [kind : {"ar"}, query : 1 .. 5, cacheLen : CacheLens,
          past : DecodePasts, prefix : {0}, active : {0}] :
     MaskFits(c.query, c.cacheLen, c.past)}

PbdCalls ==
  {c \in [kind : {"pbd"}, query : Block .. 2 * Block, cacheLen : CacheLens,
          past : DecodePasts, prefix : 0 .. Block, active : {0}] :
     c.query = c.prefix + Block /\ MaskFits(c.query, c.cacheLen, c.past)}

Calls == PrefillCalls \cup ArCalls \cup PbdCalls

\* BuildMask and BuildPositions choose between the prefill and decode forms.
RowAllowed(c, i, j) ==
  IF c.kind = "prefill"
  THEN PrefillAllowed(c.query, c.cacheLen, c.active, i, j)
  ELSE Allowed(c.query, c.cacheLen, c.past, IF c.kind = "pbd" THEN Block ELSE 0, i, j)

RowPosition(c, i) ==
  IF c.kind = "prefill"
  THEN PrefillPosition(c.query, c.active, i)
  ELSE DecodePosition(c.past, c.kind = "pbd", c.prefix, i)

RowsBuilt == DOMAIN mask

Init ==
  /\ call \in Calls
  /\ mask = [i \in {} |-> {}]
  /\ positions = [i \in {} |-> 0]

BuildRow ==
  \E i \in 0 .. call.query - 1 :
    /\ RowsBuilt = 0 .. i - 1
    /\ mask' = [r \in 0 .. i |-> {j \in 0 .. call.cacheLen - 1 : RowAllowed(call, r, j)}]
    /\ positions' = [r \in 0 .. i |-> RowPosition(call, r)]
    /\ UNCHANGED call

Built == RowsBuilt = 0 .. call.query - 1 /\ UNCHANGED vars

Next == BuildRow \/ Built

Spec == Init /\ [][Next]_vars

-----------------------------------------------------------------------------
\* What a kv column holds when the graph runs: the position of a committed row
\* or the position id of a query row.  Columns before the history are padding.
HistoryStart(c) == c.cacheLen - c.query - c.past

ColumnPosition(c, j) ==
  LET currentStart == c.cacheLen - c.query
  IN IF j < currentStart THEN j - HistoryStart(c) ELSE RowPosition(c, j - currentStart)

IsPadding(c, j) ==
  \/ j < HistoryStart(c)
  \/ c.kind = "prefill" /\ j < c.cacheLen - c.active

PaddingRow(c, i) == c.kind = "prefill" /\ i < c.query - c.active

\* The last position a query row has to take into account: its own, and for a
\* row of a PBD block the last position of the block.
LastSeen(c, i) ==
  IF c.kind = "pbd" /\ i >= c.prefix
  THEN RowPosition(c, c.query - 1)
  ELSE RowPosition(c, i)

\* Row i of call c sees no padding, sees no position through two columns, and
\* sees every position from 0 up to the last one it has to take into account.
SeesContextOnce(c, i) ==
  LET visible == {j \in 0 .. c.cacheLen - 1 : RowAllowed(c, i, j)}
  IN /\ \A j \in visible : ~IsPadding(c, j)
     /\ \A j, k \in visible : ColumnPosition(c, j) = ColumnPosition(c, k) => j = k
     /\ \A j \in visible : ColumnPosition(c, j) \in 0 .. LastSeen(c, i)
     /\ \A p \in 0 .. LastSeen(c, i) : \E j \in visible : ColumnPosition(c, j) = p

-----------------------------------------------------------------------------
\* The rows built so far are a function of the query index.
TypeOK ==
  /\ call \in Calls
  /\ mask \in [RowsBuilt -> SUBSET (0 .. call.cacheLen - 1)]
  /\ positions \in [RowsBuilt -> Nat]

\* Mask, positions and cache layout fit together: every active row attends to
\* the context position by position, each exactly once, although a PBD window
\* repeats the last committed token and although history, prefix and block
\* come from three different places (BuildMask, BuildPositions, the graph's
\* internal slice).
ContextSeenOnce ==
  \A i \in RowsBuilt :
    ~PaddingRow(call, i) =>
      LET seen == {ColumnPosition(call, j) : j \in mask[i]}
      IN /\ \A j \in mask[i] : ~IsPadding(call, j)
         /\ \A j, k \in mask[i] :
              ColumnPosition(call, j) = ColumnPosition(call, k) => j = k
         /\ seen = 0 .. LastSeen(call, i)

\* The runtime's BuildPositions and the standalone BuildPositionIds compute the
\* same ids for every decode graph, although one places the shift by prefix
\* length and the other by counting a block from the end.
PositionBuildersAgree ==
  call.kind # "prefill" =>
    LET standalone == BuildPositionIds(call.query, call.past, Block, call.kind = "pbd")
    IN \A i \in RowsBuilt : positions[i] = standalone[i]

=============================================================================
