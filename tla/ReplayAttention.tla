--------------------------- MODULE ReplayAttention ---------------------------
(***************************************************************************)
(* The graph calls activation calibration makes for one history, and what  *)
(* each row of them attends to.  A history is a prompt followed by a       *)
(* suffix of the answer; calibration prefills it left-aligned, moves its   *)
(* keys and values to the right end of an empty cache, and replays on that *)
(* cache every decode graph the runtime may choose: the plain block, a     *)
(* block behind one to Block accepted tokens, and one to Block - 1         *)
(* autoregressive tokens.  The scales of the compiled graphs come from     *)
(* these calls, so they have to be the calls the runtime makes             *)
(* (AttentionWindow), although they are built by other code.               *)
(*                                                                         *)
(* The text is abstracted to its positions: token p is the token at        *)
(* position p of prompt, suffix and pending tokens.  A key/value row is    *)
(* the token it was computed from, the position it was rotated to and the  *)
(* positions its query attended to.                                        *)
(***************************************************************************)
EXTENDS Integers

CONSTANTS
  ChunkSize, \* query rows of the prefill graph
  CacheLen,  \* kv width of every graph
  Block      \* rows of a PBD block: 6

\* calibrate.run accepts multiples of 64 with the cache longer than the chunk,
\* so the widest decode graph, of 12 rows, fits behind a full chunk.
ReplayAssumption ==
  /\ ChunkSize \in Nat \ {0}
  /\ CacheLen \in Nat
  /\ Block \in Nat \ {0, 1}
  /\ ChunkSize + 2 * Block <= CacheLen

VARIABLES
  context,   \* the lengths of the prompt and of the suffix replayed after it
  call,      \* the graph call made last
  tokens,    \* its query row -> the token embedded there
  positions, \* its query row -> position id
  mask,      \* its query row -> the kv columns it may attend to
  caches     \* cache column -> the key/value row stored there

vars == <<context, call, tokens, positions, mask, caches>>

\* The runtime's builders, for a cache and a chunk of the same size.
Runtime == INSTANCE AttentionWindow
             WITH CacheLens <- {CacheLen}, PrefillQueries <- {ChunkSize}

-----------------------------------------------------------------------------
TextMask == -1   \* the text mask token of a PBD block
NoToken == -2    \* a zero row: padding, or a cache column nothing was stored in

NoRow == [token |-> NoToken, position |-> 0, seen |-> {}]

Columns == 0 .. CacheLen - 1
RowsOf(c) == 0 .. c.query - 1
PastLen == context.prompt + context.suffix

\* build_prefill_inputs: the prompt stands at the left end of the chunk, a
\* padding row sees all of it and itself.
PrefillVisible(active, i, j) ==
  LET start == CacheLen - ChunkSize
      visible == IF i + 1 < active THEN i + 1 ELSE active
  IN \/ start <= j /\ j < start + visible
     \/ i >= active /\ j = start + i

\* Mutant: the repeated token is looked for in the history.
DecodeVisibleHistory(query, past, pbd, prefix, i, j) ==
  LET start == CacheLen - query
      blockRow == pbd /\ i >= prefix
  IN /\ \/ start - past <= j /\ j <= start + i
        \/ blockRow /\ start + prefix <= j
     /\ ~(blockRow /\ past > 0 /\ j = start - 1)

\* build_decode_inputs: the history and the rows up to its own; a block row
\* also the whole block, but not the row before it, whose token it repeats.
DecodeVisible(query, past, pbd, prefix, i, j) ==
  LET start == CacheLen - query
      blockRow == pbd /\ i >= prefix
  IN /\ \/ start - past <= j /\ j < start
        \/ start <= j /\ j <= start + i
        \/ blockRow /\ start + prefix <= j /\ j < start + query
     /\ ~(blockRow /\ past > 0 /\ j = start + prefix - 1)

\* build_decode_inputs: the positions of a decode call.
DecodePositions(c) ==
  [i \in RowsOf(c) |->
     c.past + i - (IF c.pbd /\ i >= c.prefix THEN 1 ELSE 0)]

\* build_pbd_decode_mask, the reference for a block over a plain cache of past
\* rows, by column of that cache and block.
ReferenceVisible(past, k) ==
  /\ k < past + Block
  /\ ~(past >= 1 /\ k = past - 1)

\* select_pbd_tokens, and the accepted tokens calibrate.run puts before them:
\* the block starts with the last token before it.
PbdTokens(prefix) ==
  [i \in 0 .. prefix + Block - 1 |->
     IF i < prefix THEN PastLen + i
     ELSE IF i > prefix THEN TextMask
     ELSE PastLen + prefix - 1]

-----------------------------------------------------------------------------

\* LocateAnythingTextAttention.forward: the kv columns of a call are the cache
\* without its first query rows, then the rows of the call itself.
KvView(cache, query, rows) ==
  [j \in Columns |->
     IF j < CacheLen - query THEN cache[j + query] ELSE rows[j - (CacheLen - query)]]

\* The rows of a call before they attend, rotated to their position ids.
QueryRows == [i \in RowsOf(call) |->
                [token |-> tokens[i], position |-> positions[i], seen |-> {}]]

\* The cache a call is given: empty caches for the prefill.
GivenCache == IF call.kind = "prefill" THEN [c \in Columns |-> NoRow] ELSE caches

Attended == KvView(GivenCache, call.query, QueryRows)

\* The key/value rows the call returns.
ReturnedRows ==
  [i \in RowsOf(call) |->
     [QueryRows[i] EXCEPT !.seen = {Attended[j].position : j \in mask[i]}]]

\* build_right_aligned_caches.
RightAligned(rows) ==
  [c \in Columns |->
     IF c < CacheLen - PastLen THEN NoRow ELSE rows[c - (CacheLen - PastLen)]]

-----------------------------------------------------------------------------
\* select_decode_replay_context keeps prompt and suffix within the chunk.
Contexts ==
  {c \in [prompt : 1 .. ChunkSize, suffix : 0 .. ChunkSize - 1] :
     c.prompt + c.suffix <= ChunkSize}

PrefillCall ==
  [kind |-> "prefill", query |-> ChunkSize, past |-> 0, pbd |-> FALSE, prefix |-> 0]

DecodeCall(query, pbd, prefix) ==
  [kind |-> "decode", query |-> query, past |-> PastLen, pbd |-> pbd, prefix |-> prefix]

\* calibrate.run starts a context with its prefill inputs, over empty caches.
Init ==
  /\ context \in Contexts
  /\ call = PrefillCall
  /\ tokens = [i \in 0 .. ChunkSize - 1 |-> IF i < PastLen THEN i ELSE NoToken]
  /\ positions = [i \in 0 .. ChunkSize - 1 |-> i]
  /\ mask = [i \in 0 .. ChunkSize - 1 |-> {j \in Columns : PrefillVisible(PastLen, i, j)}]
  /\ caches = [c \in Columns |-> NoRow]

\* A decode call over the caches of the context; it leaves them alone.
Decode(c, embedded) ==
  /\ call' = c
  /\ tokens' = embedded
  /\ positions' = DecodePositions(c)
  /\ mask' = [i \in RowsOf(c) |->
                {j \in Columns : DecodeVisible(c.query, c.past, c.pbd, c.prefix, i, j)}]
  /\ UNCHANGED context

\* The plain block, right after the prefill, whose rows become the caches.
Bootstrap ==
  /\ call.kind = "prefill"
  /\ caches' = RightAligned(ReturnedRows)
  /\ Decode(DecodeCall(Block, TRUE, 0), PbdTokens(0))

\* The block behind one accepted token more than in the call before.
Extended ==
  /\ call.pbd /\ call.prefix < Block
  /\ Decode(DecodeCall(call.prefix + 1 + Block, TRUE, call.prefix + 1),
            PbdTokens(call.prefix + 1))
  /\ UNCHANGED caches

\* One autoregressive token, then one more in each call.
Autoregressive ==
  \E query \in 1 .. Block - 1 :
    /\ call.kind = "decode"
    /\ IF query = 1 THEN call.pbd /\ call.prefix = Block
                    ELSE ~call.pbd /\ call.query = query - 1
    /\ Decode(DecodeCall(query, FALSE, 0), [i \in 0 .. query - 1 |-> PastLen + i])
    /\ UNCHANGED caches

Replayed ==
  /\ call.kind = "decode" /\ ~call.pbd /\ call.query = Block - 1
  /\ UNCHANGED vars

Next == Bootstrap \/ Extended \/ Autoregressive \/ Replayed

Spec == Init /\ [][Next]_vars

-----------------------------------------------------------------------------
PaddingQuery(i) == call.kind = "prefill" /\ i >= PastLen
BlockRow(i) == call.pbd /\ i >= call.prefix

\* The rows query row i has to take into account: the text up to its own
\* position, or for a block row the text before the block and the block.
Context(i) ==
  LET text == IF BlockRow(i) THEN call.past + call.prefix - 1 ELSE positions[i]
      masks == IF BlockRow(i) THEN text + 1 .. text + Block - 1 ELSE {}
  IN {<<p, p>> : p \in 0 .. text} \cup {<<TextMask, p>> : p \in masks}

-----------------------------------------------------------------------------
\* The inputs of a call cover its query rows, and past rows fit the cache.
TypeOK ==
  /\ context \in Contexts
  /\ call.query \in 1 .. CacheLen /\ call.past + call.query <= CacheLen
  /\ tokens \in [RowsOf(call) -> -2 .. CacheLen]
  /\ positions \in [RowsOf(call) -> Nat]
  /\ mask \in [RowsOf(call) -> SUBSET Columns]

\* Tokens, positions, mask and cache layout of every replayed call fit: each
\* row attends to every token of its context at that token's position, each
\* exactly once, and to nothing else.  build_prefill_inputs aligns left,
\* build_right_aligned_caches right, and the attention drops as many cache rows
\* as the call brings.
RowsSeeTheText ==
  \A i \in RowsOf(call) :
    ~PaddingQuery(i) =>
      LET kv == Attended
          entry(j) == <<kv[j].token, kv[j].position>>
      IN /\ {entry(j) : j \in mask[i]} = Context(i)
         /\ \A j, k \in mask[i] : entry(j) = entry(k) => j = k

\* After the prefill the caches hold the history at their right end and
\* nothing else, and every row of it was computed from the text up to its own
\* position: no padding, no block row.
CacheIsHistory ==
  call.kind = "decode" =>
    \A c \in Columns :
      LET p == c - (CacheLen - PastLen)
      IN caches[c] = IF p < 0 THEN NoRow
                     ELSE [token |-> p, position |-> p, seen |-> 0 .. p]

\* Calibration sees the inputs the graphs will see: masks and position ids of
\* the decode calls are the runtime's, and those of the prefill are the
\* runtime's but for the alignment of the prompt in the chunk.
ReplayMatchesRuntime ==
  \A i \in RowsOf(call) :
    IF call.kind = "decode"
    THEN /\ positions[i] = Runtime!DecodePosition(call.past, call.pbd, call.prefix, i)
         /\ mask[i] = {j \in Columns :
                         Runtime!Allowed(call.query, CacheLen, call.past,
                                         IF call.pbd THEN Block ELSE 0, i, j)}
    ELSE i < PastLen =>
           LET shift == ChunkSize - PastLen
           IN /\ positions[i] = Runtime!PrefillPosition(ChunkSize, PastLen, i + shift)
              /\ {j + shift : j \in mask[i]} =
                   {j \in Columns :
                      Runtime!PrefillAllowed(ChunkSize, CacheLen, PastLen, i + shift, j)}

\* A block behind accepted tokens attends, counted from the first row of the
\* history, as the reference block would after those tokens were committed.
FusedBlockIsReference ==
  call.pbd =>
    \A i \in RowsOf(call) :
      BlockRow(i) =>
        {j - (CacheLen - call.query - call.past) : j \in mask[i]} =
          {k \in Columns : ReferenceVisible(call.past + call.prefix, k)}
\* Every replayed call shows the model what the call of the runtime would.
ReplayFaithful ==
  /\ TypeOK /\ RowsSeeTheText /\ CacheIsHistory
  /\ ReplayMatchesRuntime /\ FusedBlockIsReference
=============================================================================
