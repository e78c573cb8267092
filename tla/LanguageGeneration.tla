------------------------- MODULE LanguageGeneration -------------------------
(***************************************************************************)
(* One LanguageEngine::Generate call: prefill, then hybrid decoding (PBD   *)
(* windows with an autoregressive excursion for incomplete boxes) or slow  *)
(* decoding, and for protected requests a restart in slow mode when hybrid *)
(* decoding did not end the answer itself.                                 *)
(*                                                                         *)
(* A cache tensor is the sequence of tokens whose key/value rows it holds, *)
(* as KVLog describes it; a commit goes through the tensors one by one and *)
(* may fail between two of them.  What a graph computes is free: the six   *)
(* candidate tokens of a window, or the next token.  What is tracked of    *)
(* its logits is the text they continue (context).                         *)
(*                                                                         *)
(* The control state pc is the point the code has reached:                 *)
(*   prefill        RunPayload, before the first graph                     *)
(*   pbd, ar        the hybrid loop head, with use_pbd true or false       *)
(*   decide         window logits are there, its KV prefix is committed    *)
(*   bridge         an incomplete box is about to be committed             *)
(*   ar_commit      a coordinate was sampled and is about to be committed  *)
(*   hybrid_done, hybrid_failed    RunHybridGeneration returned            *)
(*   slow, slow_commit             the same points of RunArGeneration      *)
(*   done, failed   Generate returned or threw                             *)
(***************************************************************************)
EXTENDS DetectionTokens, FiniteSets

CONSTANTS
  Prompts,      \* prompt_ids a request may carry
  MaxNewTokens, \* max_new_tokens a request may ask for
  CacheLen,     \* rows of every cache tensor
  TensorCount,  \* cache tensors: kCacheCount
  Windows,      \* candidate tokens a PBD window may yield
  ArTokens,     \* tokens greedy decoding may yield in a hybrid excursion
  SlowTokens,   \* tokens greedy decoding may yield in slow mode
  Layouts       \* logits rows graphs return: "every" query row or the "last" ones

\* Prompts are neither empty nor longer than the prefill graph, which is no
\* longer than a cache tensor (Generate, BuildFullCaches).
ASSUME GenerationAssumption ==
  /\ CacheLen \in Nat \ {0}
  /\ TensorCount \in Nat \ {0}
  /\ Prompts \subseteq {p \in Seq(Tokens) : 1 <= Len(p) /\ Len(p) <= CacheLen}
  /\ MaxNewTokens \subseteq Nat \ {0}
  /\ Windows \subseteq {w \in Seq(Tokens) : Len(w) = 6}
  /\ ArTokens \subseteq Tokens /\ SlowTokens \subseteq Tokens
  /\ Layouts \subseteq {"every", "last"}

VARIABLES
  request,   \* what Generate was called with, and the graphs' logits layout
  pc,        \* the point reached
  generated, \* prompt and response, the repetition penalty's history
  response,  \* token_ids
  pending,   \* pending_pbd: accepted tokens whose KV rows are not committed
  decision,  \* the incomplete box a bridge commits
  cache,     \* tokens whose rows each tensor holds
  history,   \* history_len / active_len
  context,   \* the text that the logits about to be used continue
  call,      \* the last graph call
  stop,      \* stop_reason
  metrics,   \* pbd_accepted_tokens and ar_tokens
  outcome,   \* executed mode, fallback reason, tokens dropped at a fallback
  boxes      \* complete boxes of the response in order (auxiliary)

vars == <<request, pc, generated, response, pending, decision, cache, history,
          context, call, stop, metrics, outcome, boxes>>

Tensors == 1 .. TensorCount

-----------------------------------------------------------------------------
(* Graph calls: names, inputs and the logits rows read from them.          *)

\* LanguageGraphNames: the graphs an initialised engine has, with the query
\* rows each takes.
PbdGraph(prefix) == <<IF prefix = 0 THEN "decode" ELSE "decode_pbd", 6 + prefix>>
ArGraph(rows) == <<"decode_ar", rows>>
Graphs == {<<"decode", 6>>} \cup {<<"decode_pbd", q>> : q \in 7 .. 12}
            \cup {<<"decode_ar", q>> : q \in 1 .. 5}

Masks(n) == [i \in 1 .. n |-> kTextMask]

\* The window repeats the newest token in its first row.
PbdTokens ==
  IF pending = <<>> THEN <<Last(generated)>> \o Masks(5)
  ELSE pending \o <<Last(pending)>> \o Masks(5)

GraphCall(graph, tokens) == [graph |-> graph, past |-> history, tokens |-> tokens]

\* Rows of logits a graph with query rows and rows worth deciding returns.
LogitRows(query, deciding) == IF request.layout = "every" THEN query ELSE deciding

\* Mutant: the window always starts at the first logits row.
PbdLogitStartZero(rows, prefix) == 0

PbdLogitStart(rows, prefix) == IF rows # 6 THEN prefix ELSE 0
ArLogitRow(rows, accepted) == IF rows # 1 THEN accepted - 1 ELSE 0

\* The text a query row of a PBD call continues: the block rows see the
\* committed rows and the carried prefix once (AttentionWindow).
PbdContext(prefix, row) ==
  IF row <= prefix THEN cache[1] \o SubSeq(PbdTokens, 1, row)
  ELSE cache[1] \o SubSeq(PbdTokens, 1, prefix) \o Masks(row - prefix - 1)

\* The query row behind logits row start when the last rows of query remain.
PbdDecisionRow(prefix) ==
  LET rows == LogitRows(6 + prefix, 6)
  IN 6 + prefix - rows + PbdLogitStart(rows, prefix) + 1

ArContext(tokens) ==
  LET query == Len(tokens)
      rows == LogitRows(query, 1)
  IN cache[1] \o SubSeq(tokens, 1, query - rows + ArLogitRow(rows, query) + 1)

\* The prefill outputs are cut to the right-aligned prompt rows, unless one
\* row of logits is all there is; slow decoding starts from the last of them.
PrefillContext(prompt) ==
  LET rows == LogitRows(Len(prompt), 1)
      row == IF rows = 1 THEN 0 ELSE Len(prompt) - 1
  IN SubSeq(prompt, 1, Len(prompt) - rows + row + 1)

-----------------------------------------------------------------------------
(* AppendCacheUpdate: all tensors, or only those before the one that fails. *)

\* Mutant: only the first tensor is appended to.
CommitFirstTensor(tokens) ==
  /\ history + Len(tokens) <= CacheLen
  /\ cache' = [cache EXCEPT ![1] = @ \o tokens]
  /\ history' = history + Len(tokens)

Commit(tokens) ==
  /\ history + Len(tokens) <= CacheLen
  /\ cache' = [t \in Tensors |-> cache[t] \o tokens]
  /\ history' = history + Len(tokens)

CommitFails(tokens) ==
  /\ \E k \in 0 .. TensorCount - 1 :
       cache' = [t \in Tensors |-> IF t <= k THEN cache[t] \o tokens ELSE cache[t]]
  /\ UNCHANGED history

Emit(tokens) ==
  /\ response' = response \o tokens
  /\ generated' = generated \o tokens

Counted(kind, n) == metrics' = [metrics EXCEPT ![kind] = @ + n]

Seed(p) == [t \in Tensors |-> p]

-----------------------------------------------------------------------------
Init ==
  /\ request \in [prompt : Prompts, max : MaxNewTokens, mode : {"hybrid", "slow"},
                  protect : BOOLEAN, layout : Layouts]
  /\ pc = "prefill"
  /\ generated = <<>> /\ response = <<>> /\ pending = <<>> /\ decision = <<>>
  /\ cache = [t \in Tensors |-> <<>>] /\ history = 0 /\ context = <<>>
  /\ call = [graph |-> <<"none", 0>>, past |-> 0, tokens |-> <<>>]
  /\ stop = ""
  /\ metrics = [pbd |-> 0, ar |-> 0]
  /\ outcome = [mode |-> request.mode, fallback |-> "", dropped |-> 0]
  /\ boxes = <<>>

\* The prefill graph and BuildFullCaches, either of which may fail.
Prefill ==
  /\ pc = "prefill"
  /\ \/ /\ pc' = IF request.mode = "slow" THEN "slow" ELSE "pbd"
        /\ generated' = request.prompt /\ context' = PrefillContext(request.prompt)
        /\ cache' = Seed(request.prompt) /\ history' = Len(request.prompt)
     \/ pc' = "failed" /\ UNCHANGED <<generated, context, cache, history>>
  /\ UNCHANGED <<request, response, pending, decision, call, stop, metrics, outcome, boxes>>

-----------------------------------------------------------------------------
(* RunHybridGeneration                                                      *)

HybridContinues == Len(response) < request.max /\ history < CacheLen

WindowFits == history + Len(pending) + 6 <= CacheLen

\* The loop ends for lack of room in the answer or in the cache.
HybridStops ==
  /\ pc \in {"pbd", "ar"}
  /\ \/ Len(response) >= request.max /\ stop' = "max_new_tokens"
     \/ Len(response) < request.max /\ history >= CacheLen /\ stop' = "cache_limit"
     \/ HybridContinues /\ pc = "pbd" /\ ~WindowFits /\ stop' = "cache_limit_before_pbd"
  /\ pc' = "hybrid_done"
  /\ UNCHANGED <<request, generated, response, pending, decision, cache, history,
                 context, call, metrics, outcome, boxes>>

\* A PBD graph evaluates the window behind the pending tokens, whose rows are
\* then committed.
PbdCall ==
  /\ pc = "pbd" /\ HybridContinues /\ WindowFits
  /\ call' = GraphCall(PbdGraph(Len(pending)), PbdTokens)
  /\ LET rows == SubSeq(PbdTokens, 1, Len(pending))
     IN \/ /\ IF pending = <<>> THEN UNCHANGED <<cache, history>> ELSE Commit(rows)
           /\ context' = PbdContext(Len(pending), PbdDecisionRow(Len(pending)))
           /\ pending' = <<>> /\ pc' = "decide"
        \/ /\ UNCHANGED <<cache, history>> \/ (pending # <<>> /\ CommitFails(rows))
           /\ UNCHANGED <<context, pending>> /\ pc' = "hybrid_failed"
  /\ UNCHANGED <<request, generated, response, decision, stop, metrics, outcome, boxes>>

Remaining == request.max - Len(response)

\* Mutant: no box is taken for a repeated one.
RepeatedNever(d) == FALSE

Repeated(d) == request.protect /\ HasRepeatedDetectionBox(response, d.tokens)

\* The decision on the window, in the order the code asks its questions.
DecideTerminal(d) ==
  /\ d.terminal
  /\ Emit(d.tokens) /\ Counted("pbd", Len(d.tokens))
  /\ stop' = "im_end" /\ pc' = "hybrid_done"
  /\ UNCHANGED <<pending, decision, boxes>>

DecideRepeated(d) ==
  /\ ~d.terminal /\ Repeated(d)
  /\ stop' = "repeated_box" /\ pc' = "hybrid_done"
  /\ UNCHANGED <<generated, response, pending, decision, metrics, boxes>>

\* Mutant: the dropped tail is counted too.
DecideTruncatedCountsAll(d) ==
  /\ ~d.terminal /\ ~Repeated(d) /\ Len(d.tokens) > Remaining
  /\ response' = response \o SubSeq(d.tokens, 1, Remaining)
  /\ Counted("pbd", Len(d.tokens))
  /\ stop' = "max_new_tokens" /\ pc' = "hybrid_done"
  /\ UNCHANGED <<generated, pending, decision, boxes>>

DecideTruncated(d) ==
  /\ ~d.terminal /\ ~Repeated(d) /\ Len(d.tokens) > Remaining
  /\ response' = response \o SubSeq(d.tokens, 1, Remaining)
  /\ Counted("pbd", Remaining)
  /\ stop' = "max_new_tokens" /\ pc' = "hybrid_done"
  /\ UNCHANGED <<generated, pending, decision, boxes>>

DecideBridge(d) ==
  /\ ~d.terminal /\ ~Repeated(d) /\ Len(d.tokens) <= Remaining /\ d.switch_to_ar
  /\ decision' = d.tokens /\ pc' = "bridge"
  /\ UNCHANGED <<generated, response, pending, stop, metrics, boxes>>

DecideAccept(d) ==
  /\ ~d.terminal /\ ~Repeated(d) /\ Len(d.tokens) <= Remaining /\ ~d.switch_to_ar
  /\ Emit(d.tokens) /\ Counted("pbd", Len(d.tokens))
  /\ boxes' = IF IsCompleteDetectionBox(d.tokens) THEN Append(boxes, d.tokens) ELSE boxes
  /\ pending' = d.tokens /\ pc' = "pbd"
  /\ UNCHANGED <<decision, stop>>

Decide(window) ==
  /\ pc = "decide"
  /\ LET d == HandlePattern(window)
     IN \/ DecideTerminal(d)
        \/ DecideRepeated(d)
        \/ DecideTruncated(d)
        \/ DecideBridge(d)
        \/ DecideAccept(d)
  /\ UNCHANGED <<request, cache, history, context, call, outcome>>

\* A decode_ar graph evaluates and commits the incomplete box.
Bridge ==
  /\ pc = "bridge"
  /\ call' = GraphCall(ArGraph(Len(decision)), decision)
  /\ \/ /\ Commit(decision)
        /\ context' = ArContext(decision)
        /\ Emit(decision) /\ Counted("pbd", Len(decision))
        /\ pc' = "ar"
     \/ /\ UNCHANGED <<cache, history>> \/ CommitFails(decision)
        /\ UNCHANGED <<context, generated, response, metrics>> /\ pc' = "hybrid_failed"
  /\ decision' = <<>>
  /\ UNCHANGED <<request, pending, stop, outcome, boxes>>

\* One token of the excursion: a box end returns to PBD, a coordinate or none
\* stays, anything else ends hybrid decoding.
ArSample(token) ==
  /\ pc = "ar" /\ HybridContinues
  /\ Emit(<<token>>) /\ Counted("ar", 1)
  /\ LET repeated == /\ request.protect /\ token = kBoxEnd
                     /\ HasRepeatedTrailingDetectionBox(response')
         inBox == IsCoordinateToken(token) \/ token = kNone
     IN \/ repeated /\ stop' = "repeated_box" /\ pc' = "hybrid_done" /\ UNCHANGED pending
        \/ /\ ~repeated /\ token # kBoxEnd /\ ~inBox
           /\ stop' = "ar_non_coordinate" /\ pc' = "hybrid_done" /\ UNCHANGED pending
        \/ /\ ~repeated /\ token = kBoxEnd
           /\ pending' = <<token>> /\ pc' = "pbd" /\ UNCHANGED stop
        \/ /\ inBox /\ pc' = "ar_commit" /\ UNCHANGED <<stop, pending>>
  /\ boxes' = boxes \o
       IF token # kBoxEnd THEN <<>>
       ELSE LET ends == {n \in {3, 4, 6} : n <= Len(response')}
                tail(n) == SubSeq(response', Len(response') - n + 1, Len(response'))
            IN IF \E n \in ends : IsCompleteDetectionBox(tail(n))
               THEN <<tail(CHOOSE n \in ends : IsCompleteDetectionBox(tail(n)))>>
               ELSE <<>>
  /\ UNCHANGED <<request, decision, cache, history, context, call, outcome>>

\* decode_ar on the newest token, from the hybrid loop or from the slow one.
CommitNewest(at, next, failure) ==
  /\ pc = at
  /\ LET newest == <<Last(generated)>>
     IN /\ call' = GraphCall(ArGraph(1), newest)
        /\ \/ Commit(newest) /\ context' = ArContext(newest) /\ pc' = next
           \/ /\ UNCHANGED <<cache, history>> \/ CommitFails(newest)
              /\ UNCHANGED context /\ pc' = failure
  /\ UNCHANGED <<request, generated, response, pending, decision, stop, metrics,
                 outcome, boxes>>

\* Mutant: a failed commit is not noticed.
ArCommitUnnoticed == CommitNewest("ar_commit", "ar", "ar")

ArCommit == CommitNewest("ar_commit", "ar", "hybrid_failed")

-----------------------------------------------------------------------------
(* RunPayload, after hybrid decoding, and RunArGeneration                   *)

\* Mutant: unprotected requests fall back too.
NeedsFallbackAlways == pc = "hybrid_failed" \/ stop # "im_end"

NeedsFallback == request.protect /\ (pc = "hybrid_failed" \/ stop # "im_end")

\* A protected request starts over in slow mode, from the prefill rows.
FallBack ==
  /\ pc \in {"hybrid_done", "hybrid_failed"} /\ NeedsFallback
  /\ response' = <<>> /\ stop' = "" /\ boxes' = <<>>
  /\ history' = Len(request.prompt)
  /\ outcome' = [mode |-> "slow", dropped |-> Len(response),
                 fallback |-> IF stop = "" THEN "hybrid_failed" ELSE stop]
  /\ \/ /\ cache' = Seed(request.prompt) /\ context' = PrefillContext(request.prompt)
        /\ generated' = request.prompt /\ pending' = <<>>
        /\ pc' = "slow"
     \/ UNCHANGED <<cache, context, generated, pending>> /\ pc' = "failed"
  /\ UNCHANGED <<request, decision, call, metrics>>

HybridReturns ==
  /\ pc \in {"hybrid_done", "hybrid_failed"} /\ ~NeedsFallback
  /\ pc' = IF pc = "hybrid_done" THEN "done" ELSE "failed"
  /\ UNCHANGED <<request, generated, response, pending, decision, cache, history,
                 context, call, stop, metrics, outcome, boxes>>

SlowSample(token) ==
  /\ pc = "slow" /\ Len(response) < request.max
  /\ Emit(<<token>>) /\ Counted("ar", 1)
  /\ \/ token = kImEnd /\ stop' = "im_end" /\ pc' = "done"
     \/ token # kImEnd /\ history >= CacheLen /\ stop' = "cache_limit" /\ pc' = "done"
     \/ token # kImEnd /\ history < CacheLen /\ pc' = "slow_commit" /\ UNCHANGED stop
  /\ UNCHANGED <<request, pending, decision, cache, history, context, call, outcome, boxes>>

SlowCommit == CommitNewest("slow_commit", "slow", "failed")

\* Mutant: one token too many is waited for.
SlowStopsLate ==
  /\ pc = "slow" /\ Len(response) > request.max
  /\ stop' = "max_new_tokens" /\ pc' = "done"
  /\ UNCHANGED <<request, generated, response, pending, decision, cache, history,
                 context, call, metrics, outcome, boxes>>

SlowStops ==
  /\ pc = "slow" /\ Len(response) >= request.max
  /\ stop' = "max_new_tokens" /\ pc' = "done"
  /\ UNCHANGED <<request, generated, response, pending, decision, cache, history,
                 context, call, metrics, outcome, boxes>>

Returned == pc \in {"done", "failed"} /\ UNCHANGED vars

Next ==
  \/ Prefill
  \/ HybridStops
  \/ PbdCall
  \/ \E window \in Windows : Decide(window)
  \/ Bridge
  \/ \E token \in ArTokens : ArSample(token)
  \/ ArCommit
  \/ FallBack
  \/ HybridReturns
  \/ \E token \in SlowTokens : SlowSample(token)
  \/ SlowCommit
  \/ SlowStops
  \/ Returned

Spec == Init /\ [][Next]_vars

\* The call runs on the calling thread: it keeps going until it returns.
FairSpec == Spec /\ WF_vars(Next)
-----------------------------------------------------------------------------
Decoding == {"pbd", "decide", "bridge", "ar", "ar_commit", "slow", "slow_commit"}

TypeOK ==
  /\ request \in [prompt : Prompts, max : MaxNewTokens, mode : {"hybrid", "slow"},
                  protect : BOOLEAN, layout : Layouts]
  /\ pc \in Decoding \cup {"prefill", "hybrid_done", "hybrid_failed", "done", "failed"}
  /\ {generated, response, pending, decision, context} \subseteq Seq(Tokens)
  /\ cache \in [Tensors -> Seq(Tokens)] /\ history \in 0 .. CacheLen
  /\ metrics \in [{"pbd", "ar"} -> Nat]
  /\ outcome.mode \in {"hybrid", "slow"} /\ outcome.dropped \in Nat

\* The accepted tokens whose key/value rows the next graph call commits.
Uncommitted ==
  CASE pc = "pbd" -> pending
    [] pc \in {"ar_commit", "slow_commit"} -> <<Last(generated)>>
    [] OTHER -> <<>>

\* Whenever decoding goes on, every cache tensor holds the rows of exactly the
\* accepted text, once and in order, but for what the next call commits: across
\* windows that carry their predecessor's tokens, excursions into single-token
\* decoding and back, and the restart of a protected request.
CacheHoldsText ==
  pc \in Decoding =>
    /\ generated = request.prompt \o response
    /\ \A t \in Tensors : cache[t] \o Uncommitted = generated /\ Len(cache[t]) = history

\* A token is never chosen from logits that continue an older or another text:
\* the row read is the newest one, for every graph and logits layout.
LogitsFresh == pc \in {"decide", "ar", "slow"} => context = generated

\* Every graph call names a graph the engine was initialised with, feeds it as
\* many tokens as it takes and stays inside the cache.
CallsFit ==
  call.graph # <<"none", 0>> =>
    /\ call.graph \in Graphs
    /\ Len(call.tokens) = call.graph[2]
    /\ call.past + Len(call.tokens) <= CacheLen

\* What a graph is asked and what is read from its answer.
CallsSound == TypeOK /\ LogitsFresh /\ CallsFit

\* A graph never reads a cache some of whose tensors a failed commit left
\* behind the others.
TornCacheNeverRead ==
  [][call' # call => \A t \in Tensors : cache[t] = cache[1] /\ Len(cache[t]) = call'.past]_vars

\* The two counters the metrics report account for every token decoded: those
\* of the answer and those a fallback dropped.
TokensAccounted ==
  metrics["pbd"] + metrics["ar"] = Len(response) + outcome.dropped

\* The reason Generate reports is what happened.
StopReasonTrue ==
  pc = "done" =>
    /\ stop \in {"im_end", "max_new_tokens", "cache_limit", "cache_limit_before_pbd",
                 "ar_non_coordinate"}
    /\ stop = "im_end" => response # <<>> /\ Last(response) = kImEnd
    /\ stop = "max_new_tokens" => Len(response) = request.max
    /\ stop = "cache_limit" => history = CacheLen
    /\ stop = "cache_limit_before_pbd" => history + Len(pending) + 6 > CacheLen

\* What is reported beside the answer is true of it.
AnswerAccounted == TokensAccounted /\ StopReasonTrue

\* A protected answer that hybrid decoding produced ended by itself and holds
\* no box twice; in any other case the whole answer was decoded in slow mode.
ProtectedAnswer ==
  pc = "done" /\ request.protect /\ request.mode = "hybrid" =>
    IF outcome.mode = "hybrid"
    THEN /\ stop = "im_end" /\ outcome.fallback = ""
         /\ \A i, j \in 1 .. Len(boxes) : boxes[i] = boxes[j] => i = j
    ELSE outcome.fallback # "" /\ boxes = <<>>

\* The call returns, with an answer or with an error.
GenerateReturns == <>(pc \in {"done", "failed"})

\* Generate as its caller sees it.
Promised == INSTANCE Transcript WITH
  terms <- [max |-> request.max,
            restartable |-> request.protect /\ request.mode = "hybrid"],
  text <- response,
  restarted <- request.mode = "hybrid" /\ outcome.mode = "slow",
  ended <- CASE pc = "done" -> "answer" [] pc = "failed" -> "error" [] OTHER -> "no"
AnswerGrowsOrRestartsOnce == Promised!Spec
=============================================================================
