----------------------- MODULE LanguageGenerationProofs -----------------------
(***************************************************************************)
(* What one Generate call guarantees, for every prompt, limit, window,     *)
(* sampled token, logits layout, cache size and number of cache tensors.   *)
(*                                                                         *)
(* CacheHoldsText is not inductive by itself: what a commit may append     *)
(* depends on the point reached, on the lengths that earlier checks left   *)
(* room for, and on what HandlePattern can return.  The invariant below    *)
(* has one part per concern:                                               *)
(*   Phase     which variables still have the value they started with      *)
(*   Room      what the checks made so far leave room for                  *)
(*   StopTrue  the stop reason, as soon as there is one                    *)
(*   BoxesKept the boxes of a protected answer: complete, in the answer,   *)
(*             and no two the same                                         *)
(***************************************************************************)
EXTENDS LanguageGeneration, TLAPS, SequenceTheorems

Hybrid == {"pbd", "decide", "bridge", "ar", "ar_commit", "hybrid_done", "hybrid_failed"}

Phase ==
  /\ pc = "prefill" => response = <<>> /\ pending = <<>>
  /\ pc \in Hybrid => request.mode = "hybrid"
  /\ pc \in Hybrid \cup {"prefill"} => outcome.mode = request.mode /\ outcome.dropped = 0
  /\ pc \in {"slow", "slow_commit"} => outcome.mode = "slow"
  /\ outcome.mode = "hybrid" => request.mode = "hybrid" /\ outcome.fallback = ""

Room ==
  /\ Len(response) <= request.max
  /\ Len(pending) <= 6
  /\ pc = "decide" => Len(response) < request.max
  /\ pc \in {"decide", "bridge"} => history + 6 <= CacheLen
  /\ pc = "bridge" => Len(decision) \in 1 .. 5 /\ Len(response) + Len(decision) <= request.max
  /\ pc \in {"ar_commit", "slow_commit"} => history < CacheLen

StopTrue ==
  /\ stop \in {"im_end", "max_new_tokens", "cache_limit", "cache_limit_before_pbd",
               "ar_non_coordinate", "repeated_box"}
  /\ stop = "im_end" => response # <<>> /\ Last(response) = kImEnd
  /\ stop = "max_new_tokens" => Len(response) = request.max
  /\ stop = "cache_limit" => history = CacheLen
  /\ stop = "cache_limit_before_pbd" => history + Len(pending) + 6 > CacheLen
  /\ stop = "repeated_box" => request.protect

Stopped ==
  /\ pc \in {"hybrid_done", "done"} => StopTrue
  /\ pc = "done" => stop # "repeated_box"
  /\ pc = "done" /\ outcome.mode = "hybrid" /\ request.protect => stop = "im_end"

BoxesKept ==
  /\ boxes \in Seq(Seq(Tokens))
  /\ outcome.mode = "hybrid" /\ request.protect =>
       /\ \A i \in 1 .. Len(boxes) :
            IsCompleteDetectionBox(boxes[i]) /\ Occurs(boxes[i], response)
       /\ \/ pc = "hybrid_done" /\ stop = "repeated_box"
          \/ \A i, j \in 1 .. Len(boxes) : boxes[i] = boxes[j] => i = j
  /\ outcome.mode = "slow" => boxes = <<>>
  /\ outcome.mode = "slow" /\ request.mode = "hybrid" => outcome.fallback # ""

GenerationInv ==
  /\ TypeOK /\ CacheHoldsText /\ LogitsFresh /\ CallsFit /\ TokensAccounted
  /\ Phase /\ Room /\ Stopped /\ BoxesKept

-----------------------------------------------------------------------------
(* Token sequences                                                          *)

LEMMA TokenConcat ==
  \A s, t \in Seq(Tokens) :
    s \o t \in Seq(Tokens) /\ Len(s \o t) = Len(s) + Len(t)
  OBVIOUS

LEMMA TokenAssociative ==
  \A s, t, u \in Seq(Tokens) : (s \o t) \o u = s \o (t \o u)
  OBVIOUS

LEMMA TokenNone ==
  \A s \in Seq(Tokens) : s \o <<>> = s /\ <<>> \o s = s
  OBVIOUS

LEMMA TokenSingle ==
  \A token \in Tokens : <<token>> \in Seq(Tokens) /\ Len(<<token>>) = 1
  OBVIOUS

\* Two sequences of one length that the same sequence completes are the same.
LEMMA TokenCancelRight ==
  \A s, t, u \in Seq(Tokens) : s \o u = t \o u /\ Len(s) = Len(t) => s = t
  OBVIOUS

LEMMA TokenLast ==
  ASSUME NEW s \in Seq(Tokens), NEW token \in Tokens
  PROVE  s \o <<token>> # <<>> /\ Last(s \o <<token>>) = token
  <1>1. Len(s \o <<token>>) = Len(s) + 1 /\ Len(s) \in Nat
    OBVIOUS
  <1>2. (s \o <<token>>)[Len(s) + 1] = token
    OBVIOUS
  <1>3. s \o <<token>> # <<>>
    OBVIOUS
  <1> QED BY <1>1, <1>2, <1>3 DEF Last

LEMMA NewestIsToken ==
  ASSUME NEW s \in Seq(Tokens), s # <<>>
  PROVE  Last(s) \in Tokens
  <1>1. Len(s) \in 1 .. Len(s)
    OBVIOUS
  <1> QED BY <1>1, ElementOfSeq DEF Last

-----------------------------------------------------------------------------
(* HandlePattern                                                            *)

\* The detection tokens are different tokens of the vocabulary.
LEMMA TokenValues ==
  /\ kImEnd \in Tokens /\ kBoxStart \in Tokens /\ kBoxEnd \in Tokens
  /\ kTextMask \in Tokens /\ kNone \in Tokens
  /\ kBoxEnd # kBoxStart /\ kBoxEnd # kNone /\ kBoxEnd # kNull
  /\ ~IsCoordinateToken(kBoxEnd)
  BY DEF kImEnd, kBoxStart, kBoxEnd, kTextMask, kNone, kNull, Tokens, kVocab,
         IsCoordinateToken, kCoordStart, kCoordEnd

\* There is a longest run of coordinates among four candidates.
LEMMA CoordinateRun ==
  ASSUME NEW s \in Seq(Tokens), Len(s) = 5
  PROVE  LeadingRun(s, 4, IsCoordinateToken) \in 0 .. 4
  <1> DEFINE Good(i) == IsCoordinateToken(s[i])
             Run(n) == /\ n <= Len(s) /\ \A i \in 1 .. n : Good(i)
                       /\ n = 4 \/ n = Len(s) \/ ~Good(n + 1)
  <1>1. LeadingRun(s, 4, IsCoordinateToken) = CHOOSE n \in 0 .. 4 : Run(n)
    BY DEF LeadingRun
  <1> HIDE DEF Good
  <1>2. \E n \in 0 .. 4 : Run(n)
    <2>1. CASE ~Good(1)
      BY <2>1
    <2>2. CASE Good(1) /\ ~Good(2)
      BY <2>2
    <2>3. CASE Good(1) /\ Good(2) /\ ~Good(3)
      BY <2>3
    <2>4. CASE Good(1) /\ Good(2) /\ Good(3) /\ ~Good(4)
      BY <2>4
    <2>5. CASE Good(1) /\ Good(2) /\ Good(3) /\ Good(4)
      BY <2>5
    <2> QED BY <2>1, <2>2, <2>3, <2>4, <2>5
  <1> QED BY <1>1, <1>2

\* A window that does not begin with a null has a longest run without one, and
\* it is not empty.
LEMMA TextRun ==
  ASSUME NEW w \in Seq(Tokens), Len(w) = 6, w[1] # kNull,
         NEW n, n = LeadingRun(w, Len(w), LAMBDA token : token # kNull)
  PROVE  n \in 1 .. 6
  <1> DEFINE Good(i) == w[i] # kNull
             Run(m) == /\ m <= Len(w) /\ \A i \in 1 .. m : Good(i)
                       /\ m = Len(w) \/ m = Len(w) \/ ~Good(m + 1)
  <1>1. n = CHOOSE m \in 0 .. Len(w) : Run(m)
    BY DEF LeadingRun
  <1>2. Good(1)
    OBVIOUS
  <1> HIDE DEF Good
  <1>3. \E m \in 0 .. 6 : Run(m)
    <2>1. CASE ~Good(2)
      BY <1>2, <2>1
    <2>2. CASE Good(2) /\ ~Good(3)
      BY <1>2, <2>2
    <2>3. CASE Good(2) /\ Good(3) /\ ~Good(4)
      BY <1>2, <2>3
    <2>4. CASE Good(2) /\ Good(3) /\ Good(4) /\ ~Good(5)
      BY <1>2, <2>4
    <2>5. CASE Good(2) /\ Good(3) /\ Good(4) /\ Good(5) /\ ~Good(6)
      BY <1>2, <2>5
    <2>6. CASE Good(2) /\ Good(3) /\ Good(4) /\ Good(5) /\ Good(6)
      BY <1>2, <2>6
    <2> QED BY <2>1, <2>2, <2>3, <2>4, <2>5, <2>6
  <1>4. n \in 0 .. 6 /\ Run(n)
    BY <1>1, <1>3
  <1> QED BY <1>2, <1>4

\* A prefix of a sequence of tokens, and what a sequence of six becomes.
LEMMA TokenPrefix ==
  ASSUME NEW w \in Seq(Tokens), NEW n \in 0 .. Len(w)
  PROVE  SubSeq(w, 1, n) \in Seq(Tokens) /\ Len(SubSeq(w, 1, n)) = n
  OBVIOUS

\* A text decision takes between one and six tokens.
LEMMA TextDecided ==
  ASSUME NEW w \in Seq(Tokens), Len(w) = 6, w[1] # kNull
  PROVE  LET d == TextDecision(w)
         IN /\ d.tokens \in Seq(Tokens) /\ Len(d.tokens) \in 1 .. 6
            /\ d.terminal = FALSE /\ d.switch_to_ar = FALSE
  <1> DEFINE n == LeadingRun(w, Len(w), LAMBDA token : token # kNull)
             doubled == n >= 2 /\ w[n] = kRefEnd /\ w[n - 1] = kRefEnd
             m == IF doubled THEN n - 1 ELSE n
  <1>1. TextDecision(w) = Decision("ref_object", SubSeq(w, 1, m), FALSE, FALSE)
    BY DEF TextDecision
  <1>2. n \in 1 .. 6
    BY TextRun
  <1> HIDE DEF n
  <1>3. m \in 1 .. 6
    BY <1>2
  <1> HIDE DEF m
  <1> QED BY <1>1, <1>3, TokenPrefix DEF Decision

\* A box decision takes at most six tokens, and at most five if it is incomplete.
LEMMA BoxDecided ==
  ASSUME NEW w \in Seq(Tokens), Len(w) = 6
  PROVE  LET d == BoxDecision(w)
         IN /\ d.tokens \in Seq(Tokens) /\ Len(d.tokens) \in 1 .. 6
            /\ d.terminal = FALSE /\ d.switch_to_ar \in BOOLEAN
            /\ d.switch_to_ar => Len(d.tokens) <= 5
  <1> DEFINE run == LeadingRun(Tail(w), 4, IsCoordinateToken)
  <1>1. Tail(w) \in Seq(Tokens) /\ Len(Tail(w)) = 5
    OBVIOUS
  <1>2. run \in 0 .. 4
    BY <1>1, CoordinateRun
  <1>3. \/ BoxDecision(w) = Decision("coord_box", SubSeq(w, 1, 6), FALSE, FALSE)
        \/ BoxDecision(w) = Decision("point_box", SubSeq(w, 1, 4), FALSE, FALSE)
        \/ BoxDecision(w) = Decision("error_box", SubSeq(w, 1, 1 + run), TRUE, FALSE)
    BY DEF BoxDecision
  <1> HIDE DEF run
  <1>4. \A n \in 1 .. 6 : SubSeq(w, 1, n) \in Seq(Tokens) /\ Len(SubSeq(w, 1, n)) = n
    BY TokenPrefix
  <1>5. 1 + run \in 1 .. 5
    BY <1>2
  <1>6. CASE BoxDecision(w) = Decision("coord_box", SubSeq(w, 1, 6), FALSE, FALSE)
    BY <1>4, <1>6 DEF Decision
  <1>7. CASE BoxDecision(w) = Decision("point_box", SubSeq(w, 1, 4), FALSE, FALSE)
    BY <1>4, <1>7 DEF Decision
  <1>8. CASE BoxDecision(w) = Decision("error_box", SubSeq(w, 1, 1 + run), TRUE, FALSE)
    BY <1>4, <1>5, <1>8 DEF Decision
  <1> QED BY <1>3, <1>6, <1>7, <1>8

\* What Generate relies on of any decision: it is not empty, it fits a window,
\* only the end of the answer is terminal, and what is to be committed by a
\* decode_ar graph fits the widest of them.
LEMMA DecisionFits ==
  ASSUME NEW w \in Seq(Tokens), Len(w) = 6
  PROVE  LET d == HandlePattern(w)
         IN /\ d.tokens \in Seq(Tokens) /\ Len(d.tokens) \in 1 .. 6
            /\ d.terminal \in BOOLEAN /\ d.switch_to_ar \in BOOLEAN
            /\ d.terminal => d.tokens = <<kImEnd>>
            /\ d.switch_to_ar => Len(d.tokens) <= 5
  <1>1. w # <<>>
    OBVIOUS
  <1>2. CASE w[1] \in {kNull, kImEnd}
    BY <1>1, <1>2, TokenValues DEF HandlePattern, ImEndDecision, Decision
  <1>3. CASE w[1] \notin {kNull, kImEnd} /\ w[1] # kBoxStart
    <2>1. HandlePattern(w) = TextDecision(w)
      BY <1>1, <1>3 DEF HandlePattern
    <2> QED BY <1>3, <2>1, TextDecided
  <1>4. CASE w[1] \notin {kNull, kImEnd} /\ w[1] = kBoxStart /\ w[2] = kNone
    <2>1. HandlePattern(w)
            = Decision("empty_box", <<kBoxStart, kNone, kBoxEnd>>, FALSE, FALSE)
      BY <1>1, <1>4 DEF HandlePattern, Decision
    <2> QED BY <2>1, TokenValues DEF Decision
  <1>5. CASE w[1] \notin {kNull, kImEnd} /\ w[1] = kBoxStart /\ w[2] # kNone
    <2>1. HandlePattern(w) = BoxDecision(w)
      BY <1>1, <1>5 DEF HandlePattern
    <2> QED BY <2>1, BoxDecided
  <1> QED BY <1>2, <1>3, <1>4, <1>5

-----------------------------------------------------------------------------
(* Graph calls                                                              *)

LEMMA RequestGiven ==
  ASSUME TypeOK
  PROVE  /\ request.max \in Nat \ {0}
         /\ request.prompt \in Seq(Tokens)
         /\ Len(request.prompt) \in 1 .. CacheLen
         /\ request.mode \in {"hybrid", "slow"} /\ request.protect \in BOOLEAN
         /\ request.layout \in {"every", "last"}
         /\ CacheLen \in Nat \ {0} /\ TensorCount \in Nat \ {0} /\ 1 \in Tensors
  <1>1. /\ request.prompt \in Prompts /\ request.max \in MaxNewTokens
        /\ request.mode \in {"hybrid", "slow"} /\ request.protect \in BOOLEAN
        /\ request.layout \in Layouts
    BY DEF TypeOK
  <1>2. CacheLen \in Nat \ {0} /\ TensorCount \in Nat \ {0}
    BY GenerationAssumption DEF GenerationAssumption
  <1>3. 1 \in Tensors
    BY <1>2 DEF Tensors
  <1>4. \A p \in Prompts : p \in Seq(Tokens) /\ 1 <= Len(p) /\ Len(p) <= CacheLen
    BY GenerationAssumption DEF GenerationAssumption
  <1>5. Len(request.prompt) \in 1 .. CacheLen
    BY <1>1, <1>2, <1>4
  <1>6. request.max \in Nat \ {0} /\ request.layout \in {"every", "last"}
    BY <1>1, GenerationAssumption DEF GenerationAssumption
  <1> QED BY <1>1, <1>2, <1>3, <1>4, <1>5, <1>6

\* Whatever rows of logits the prefill graph returns, the one that is read
\* continues the whole prompt.
LEMMA PrefillReadsLastRow ==
  ASSUME TypeOK
  PROVE  PrefillContext(request.prompt) = request.prompt
  <1> DEFINE p == request.prompt
             row == IF LogitRows(Len(p), 1) = 1 THEN 0 ELSE Len(p) - 1
  <1>1. p \in Seq(Tokens) /\ Len(p) \in Nat /\ Len(p) >= 1
    BY RequestGiven
  <1>2. LogitRows(Len(p), 1) \in {1, Len(p)}
    BY DEF LogitRows
  <1>3. Len(p) - LogitRows(Len(p), 1) + row + 1 = Len(p)
    BY <1>1, <1>2
  <1>4. PrefillContext(p) = SubSeq(p, 1, Len(p) - LogitRows(Len(p), 1) + row + 1)
    BY DEF PrefillContext
  <1> QED BY <1>1, <1>3, <1>4, SubSeqFull

\* A decode_ar call reads the logits behind the last of its tokens.
LEMMA ArReadsLastRow ==
  ASSUME TypeOK, NEW tokens \in Seq(Tokens), Len(tokens) >= 1
  PROVE  ArContext(tokens) = cache[1] \o tokens
  <1> DEFINE rows == LogitRows(Len(tokens), 1)
  <1>1. rows \in {1, Len(tokens)}
    BY DEF LogitRows
  <1> HIDE DEF rows
  <1>2. Len(tokens) - rows + ArLogitRow(rows, Len(tokens)) + 1 = Len(tokens)
    BY <1>1 DEF ArLogitRow
  <1>3. ArContext(tokens)
          = cache[1] \o SubSeq(tokens, 1, Len(tokens) - rows + ArLogitRow(rows, Len(tokens)) + 1)
    BY DEF ArContext, rows
  <1> QED BY <1>2, <1>3, SubSeqFull

LEMMA MasksAre ==
  ASSUME NEW n \in Nat
  PROVE  Masks(n) \in Seq(Tokens) /\ Len(Masks(n)) = n
  BY TokenValues DEF Masks

\* A PBD call carries the pending tokens and six more.
LEMMA PbdCarriesPending ==
  ASSUME TypeOK, generated # <<>>
  PROVE  /\ PbdTokens \in Seq(Tokens)
         /\ Len(PbdTokens) = Len(pending) + 6
         /\ SubSeq(PbdTokens, 1, Len(pending)) = pending
  <1>1. generated \in Seq(Tokens) /\ pending \in Seq(Tokens)
    BY DEF TypeOK
  <1>2. Masks(5) \in Seq(Tokens) /\ Len(Masks(5)) = 5
    BY MasksAre
  <1>3. CASE pending = <<>>
    <2>1. PbdTokens = <<Last(generated)>> \o Masks(5)
      BY <1>3 DEF PbdTokens
    <2>2. <<Last(generated)>> \in Seq(Tokens) /\ Len(<<Last(generated)>>) = 1
      BY <1>1, NewestIsToken, TokenSingle
    <2>3. SubSeq(PbdTokens, 1, 0) = <<>>
      BY SubSeqEmpty
    <2>4. Len(pending) = 0
      BY <1>3
    <2>5. PbdTokens \in Seq(Tokens) /\ Len(PbdTokens) = 1 + 5
      BY <1>2, <2>1, <2>2, TokenConcat
    <2> QED BY <1>3, <2>3, <2>4, <2>5
  <1>4. CASE pending # <<>>
    <2> DEFINE newest == <<Last(pending)>>
    <2>1. PbdTokens = pending \o (newest \o Masks(5)) /\ newest \in Seq(Tokens) /\ Len(newest) = 1
      BY <1>1, <1>2, <1>4, ConcatAssociative DEF PbdTokens, Last
    <2> HIDE DEF newest
    <2>2. newest \o Masks(5) \in Seq(Tokens) /\ Len(newest \o Masks(5)) = 1 + 5
      BY <1>2, <2>1, TokenConcat
    <2>3. Len(pending) \in Nat /\ Len(pending) >= 1
      BY <1>1, <1>4
    <2>4. SubSeq(PbdTokens, 1, Len(pending)) = SubSeq(pending, 1, Len(pending))
      BY <1>1, <2>1, <2>2, <2>3, SubSeqOfConcat1
    <2> QED BY <1>1, <2>1, <2>2, <2>4, SubSeqFull, ConcatProperties
  <1> QED BY <1>3, <1>4

\* The first row that a PBD call decides on continues the committed text and the
\* pending tokens: exactly the accepted text.
LEMMA PbdReadsNewestRow ==
  ASSUME TypeOK, generated # <<>>
  PROVE  PbdContext(Len(pending), PbdDecisionRow(Len(pending))) = cache[1] \o pending
  <1> DEFINE prefix == Len(pending)
  <1>1. prefix \in Nat /\ pending \in Seq(Tokens) /\ cache[1] \in Seq(Tokens)
    BY RequestGiven DEF TypeOK
  <1> DEFINE rows == LogitRows(6 + prefix, 6)
  <1>2. rows \in {6, 6 + prefix}
    BY DEF LogitRows
  <1> HIDE DEF rows
  <1>3. 6 + prefix - rows + PbdLogitStart(rows, prefix) + 1 = prefix + 1
    <2>1. CASE rows = 6
      BY <1>1, <2>1 DEF PbdLogitStart
    <2>2. CASE rows # 6
      <3>1. rows = 6 + prefix /\ PbdLogitStart(rows, prefix) = prefix
        BY <1>2, <2>2 DEF PbdLogitStart
      <3> QED BY <1>1, <3>1
    <2> QED BY <2>1, <2>2
  <1>4. PbdDecisionRow(prefix) = prefix + 1
    BY <1>3 DEF PbdDecisionRow, rows
  <1> HIDE DEF prefix
  <1>5. ASSUME NEW row, row = prefix + 1
        PROVE  PbdContext(prefix, row)
                 = cache[1] \o SubSeq(PbdTokens, 1, prefix) \o Masks(row - prefix - 1)
    <2>1. ~(row <= prefix)
      BY <1>1, <1>5
    <2> QED BY <2>1, Zenon DEF PbdContext
  <1>6. \A row : row = prefix + 1 => row - prefix - 1 = 0
    BY <1>1
  <1>7. Masks(0) = <<>>
    BY MasksAre, EmptySeq
  <1>8. SubSeq(PbdTokens, 1, prefix) = pending
    BY PbdCarriesPending DEF prefix
  <1>9. cache[1] \o pending \in Seq(Tokens)
    BY <1>1, ConcatProperties
  <1> QED BY <1>4, <1>5, <1>6, <1>7, <1>8, <1>9, TokenNone DEF prefix

-----------------------------------------------------------------------------
(* The invariant, action by action                                          *)

LEMMA Typed ==
  ASSUME TypeOK
  PROVE  /\ generated \in Seq(Tokens) /\ response \in Seq(Tokens)
         /\ pending \in Seq(Tokens) /\ decision \in Seq(Tokens)
         /\ context \in Seq(Tokens)
         /\ \A t \in Tensors : cache[t] \in Seq(Tokens)
         /\ history \in Nat /\ history <= CacheLen
         /\ metrics["pbd"] \in Nat /\ metrics["ar"] \in Nat
         /\ Len(response) \in Nat /\ Len(pending) \in Nat /\ Len(decision) \in Nat
  <1>1. CacheLen \in Nat
    BY GenerationAssumption DEF GenerationAssumption
  <1>2. /\ generated \in Seq(Tokens) /\ response \in Seq(Tokens)
        /\ pending \in Seq(Tokens) /\ decision \in Seq(Tokens)
        /\ context \in Seq(Tokens)
    BY DEF TypeOK
  <1>3. \A t \in Tensors : cache[t] \in Seq(Tokens)
    BY DEF TypeOK
  <1>4. history \in Nat /\ history <= CacheLen
    BY <1>1 DEF TypeOK
  <1>5. metrics["pbd"] \in Nat /\ metrics["ar"] \in Nat
    BY DEF TypeOK
  <1> QED BY <1>2, <1>3, <1>4, <1>5

LEMMA InitKeepsInv == Init => GenerationInv
  <1> SUFFICES ASSUME Init
               PROVE  GenerationInv
    OBVIOUS
  <1>1. /\ request \in [prompt : Prompts, max : MaxNewTokens, mode : {"hybrid", "slow"},
                        protect : BOOLEAN, layout : Layouts]
        /\ pc = "prefill" /\ history = 0
    BY DEF Init
  <1>2. /\ generated = <<>> /\ response = <<>> /\ pending = <<>> /\ decision = <<>>
        /\ context = <<>> /\ boxes = <<>> /\ cache = [t \in Tensors |-> <<>>]
    BY Zenon DEF Init
  <1>3. call.graph = <<"none", 0>>
    BY DEF Init
  <1>4. metrics = [pbd |-> 0, ar |-> 0]
    BY Zenon DEF Init
  <1>5. outcome.mode = request.mode /\ outcome.fallback = "" /\ outcome.dropped = 0
    BY DEF Init
  <1>6. TypeOK
    <2>1. CacheLen \in Nat
      BY GenerationAssumption DEF GenerationAssumption
    <2>2. <<>> \in Seq(Tokens)
      OBVIOUS
    <2>3. {generated, response, pending, decision, context} \subseteq Seq(Tokens)
      BY <1>2, <2>2
    <2>4. cache \in [Tensors -> Seq(Tokens)]
      BY <1>2, <2>2
    <2>5. metrics \in [{"pbd", "ar"} -> Nat]
      BY <1>4
    <2>6. history \in 0 .. CacheLen
      BY <1>1, <2>1
    <2>7. outcome.mode \in {"hybrid", "slow"} /\ outcome.dropped \in Nat
      <3>1. request.mode \in {"hybrid", "slow"}
        BY <1>1
      <3>2. outcome.mode \in {"hybrid", "slow"}
        BY <1>5, <3>1, Zenon
      <3>3. outcome.dropped = 0
        BY <1>5, Zenon
      <3>4. outcome.dropped \in Nat
        BY <3>3
      <3> QED BY <3>2, <3>4
    <2> QED BY <1>1, <2>3, <2>4, <2>5, <2>6, <2>7 DEF TypeOK
  <1>7. CacheHoldsText /\ LogitsFresh /\ Stopped
    BY <1>1 DEF CacheHoldsText, LogitsFresh, Stopped, Decoding
  <1>8. CallsFit
    BY <1>3 DEF CallsFit
  <1>9. Len(response) = 0 /\ Len(pending) = 0 /\ Len(boxes) = 0
    BY <1>2
  <1>10. TokensAccounted
    BY <1>4, <1>5, <1>9 DEF TokensAccounted
  <1>11. Phase
    BY <1>1, <1>2, <1>5 DEF Phase, Hybrid
  <1>12. Room
    BY <1>1, <1>6, <1>9, RequestGiven DEF Room
  <1>13. BoxesKept
    <2>1. boxes \in Seq(Seq(Tokens))
      BY <1>2
    <2>2. ~(outcome.mode = "slow" /\ request.mode = "hybrid")
      BY <1>5
    <2>3. \A i \in 1 .. Len(boxes) : FALSE
      BY <1>9
    <2> QED BY <1>2, <2>1, <2>2, <2>3 DEF BoxesKept
  <1> QED BY <1>6, <1>7, <1>8, <1>10, <1>11, <1>12, <1>13 DEF GenerationInv

LEMMA HybridStopsKeepsInv ==
  ASSUME GenerationInv, HybridStops
  PROVE  GenerationInv'
  <1>1. TypeOK'
    BY DEF GenerationInv, HybridStops, TypeOK, Decoding
  <1>2. CacheHoldsText' /\ LogitsFresh' /\ CallsFit' /\ TokensAccounted'
    BY DEF GenerationInv, HybridStops, CacheHoldsText, LogitsFresh, CallsFit, TokensAccounted, Decoding
  <1>3. Phase' /\ Room'
    BY DEF GenerationInv, HybridStops, Phase, Room, Hybrid
  <1>4. Stopped'
    <2>1. /\ Len(response) \in Nat /\ request.max \in Nat /\ Len(response) <= request.max
          /\ history \in Nat /\ CacheLen \in Nat /\ history <= CacheLen /\ Len(pending) \in Nat
      BY Typed, RequestGiven DEF GenerationInv, Room
    <2> QED BY <2>1 DEF HybridStops, Stopped, StopTrue, WindowFits
  <1>5. BoxesKept'
    BY DEF GenerationInv, HybridStops, BoxesKept
  <1> QED BY <1>1, <1>2, <1>3, <1>4, <1>5 DEF GenerationInv

\* What the cache holds at each point of decoding.
LEMMA TextHeld ==
  ASSUME GenerationInv, pc \in Decoding
  PROVE  /\ generated = request.prompt \o response /\ generated # <<>>
         /\ \A t \in Tensors : Len(cache[t]) = history
         /\ pc = "pbd" => \A t \in Tensors : cache[t] \o pending = generated
         /\ pc \in {"ar_commit", "slow_commit"} =>
              \A t \in Tensors : cache[t] \o <<Last(generated)>> = generated
         /\ pc \in {"decide", "bridge", "ar", "slow"} =>
              \A t \in Tensors : cache[t] = generated
  <1>1. /\ generated = request.prompt \o response
        /\ \A t \in Tensors : cache[t] \o Uncommitted = generated /\ Len(cache[t]) = history
    BY DEF GenerationInv, CacheHoldsText
  <1>2. generated # <<>>
    <2>1. Len(generated) = Len(request.prompt) + Len(response)
      BY <1>1, Typed, RequestGiven, TokenConcat DEF GenerationInv
    <2>2. Len(generated) # 0
      BY <2>1, Typed, RequestGiven DEF GenerationInv
    <2> QED BY <2>2
  <1>3. pc = "pbd" => Uncommitted = pending
    BY DEF Uncommitted
  <1>4. pc \in {"ar_commit", "slow_commit"} => Uncommitted = <<Last(generated)>>
    BY DEF Uncommitted
  <1>5. pc \in {"decide", "bridge", "ar", "slow"} => Uncommitted = <<>>
    BY DEF Uncommitted
  <1>6. \A t \in Tensors : cache[t] \o <<>> = cache[t]
    BY Typed, TokenNone DEF GenerationInv
  <1> QED BY <1>1, <1>2, <1>3, <1>4, <1>5, <1>6

LEMMA CommitAppends ==
  ASSUME TypeOK, NEW tokens \in Seq(Tokens), Commit(tokens)
  PROVE  /\ cache' \in [Tensors -> Seq(Tokens)] /\ history' \in 0 .. CacheLen
         /\ history' = history + Len(tokens)
         /\ \A t \in Tensors : cache'[t] = cache[t] \o tokens
         /\ \A t \in Tensors : Len(cache'[t]) = Len(cache[t]) + Len(tokens)
  <1>1. \A t \in Tensors : cache[t] \o tokens \in Seq(Tokens)
                             /\ Len(cache[t] \o tokens) = Len(cache[t]) + Len(tokens)
    BY Typed, TokenConcat
  <1>2. cache' = [t \in Tensors |-> cache[t] \o tokens]
    BY DEF Commit
  <1>3. history' = history + Len(tokens) /\ history + Len(tokens) <= CacheLen
    BY DEF Commit
  <1>4. history' \in 0 .. CacheLen
    BY <1>3, Typed, RequestGiven
  <1> QED BY <1>1, <1>2, <1>3, <1>4

LEMMA FailedCommitTypes ==
  ASSUME TypeOK, NEW tokens \in Seq(Tokens), CommitFails(tokens)
  PROVE  cache' \in [Tensors -> Seq(Tokens)] /\ history' = history
  <1>1. PICK k \in 0 .. TensorCount - 1 :
          cache' = [t \in Tensors |-> IF t <= k THEN cache[t] \o tokens ELSE cache[t]]
    BY DEF CommitFails
  <1>2. \A t \in Tensors : cache[t] \in Seq(Tokens) /\ cache[t] \o tokens \in Seq(Tokens)
    BY Typed, TokenConcat
  <1>3. history' = history
    BY DEF CommitFails
  <1> QED BY <1>1, <1>2, <1>3

LEMMA BoxesStay ==
  ASSUME BoxesKept, pc # "hybrid_done",
         response' = response, boxes' = boxes, outcome' = outcome, request' = request
  PROVE  BoxesKept'
  BY DEF BoxesKept

LEMMA PrefillKeepsInv ==
  ASSUME GenerationInv, Prefill
  PROVE  GenerationInv'
  <1>1. /\ pc = "prefill" /\ response = <<>> /\ pending = <<>>
        /\ outcome.mode = request.mode /\ outcome.dropped = 0
    BY DEF GenerationInv, Prefill, Phase
  <1>2. /\ request' = request /\ response' = response /\ pending' = pending
        /\ decision' = decision /\ call' = call /\ stop' = stop /\ metrics' = metrics
        /\ outcome' = outcome /\ boxes' = boxes
    BY DEF Prefill
  <1>3. CASE pc' # "failed"
    <2> DEFINE prompt == request.prompt
    <2>1. /\ pc' = IF request.mode = "slow" THEN "slow" ELSE "pbd"
          /\ generated' = prompt /\ context' = prompt
          /\ cache' = [t \in Tensors |-> prompt] /\ history' = Len(prompt)
      BY <1>3, PrefillReadsLastRow DEF GenerationInv, Prefill, Seed
    <2>2. /\ prompt \in Seq(Tokens) /\ Len(prompt) \in 1 .. CacheLen /\ CacheLen \in Nat
          /\ request.mode \in {"hybrid", "slow"} /\ request.max \in Nat
      BY RequestGiven DEF GenerationInv
    <2>3. TypeOK'
      BY <1>2, <2>1, <2>2 DEF GenerationInv, TypeOK, Decoding
    <2>4. CacheHoldsText'
      <3>1. prompt \o <<>> = prompt
        BY <2>2, TokenNone
      <3>2. Uncommitted' = <<>>
        BY <1>1, <1>2, <2>1 DEF Uncommitted
      <3> QED BY <1>1, <1>2, <2>1, <3>1, <3>2 DEF CacheHoldsText
    <2>5. LogitsFresh' /\ CallsFit' /\ TokensAccounted'
      BY <1>2, <2>1 DEF GenerationInv, LogitsFresh, CallsFit, TokensAccounted
    <2>6. Phase' /\ Stopped'
      BY <1>1, <1>2, <2>1, <2>2 DEF GenerationInv, Phase, Stopped, Hybrid
    <2>7. Room'
      BY <1>2, <2>1 DEF GenerationInv, Room
    <2>8. BoxesKept'
      BY <1>1, <1>2, BoxesStay DEF GenerationInv
    <2> QED BY <2>3, <2>4, <2>5, <2>6, <2>7, <2>8 DEF GenerationInv
  <1>4. CASE pc' = "failed"
    <2>1. UNCHANGED <<generated, context, cache, history>>
      BY <1>4 DEF Prefill
    <2>2. TypeOK'
      BY <1>2, <1>4, <2>1 DEF GenerationInv, TypeOK
    <2>3. CacheHoldsText' /\ LogitsFresh' /\ CallsFit' /\ TokensAccounted'
      BY <1>2, <1>4 DEF GenerationInv, CacheHoldsText, LogitsFresh, CallsFit, TokensAccounted, Decoding
    <2>4. Phase' /\ Room' /\ Stopped'
      BY <1>2, <1>4, <2>1 DEF GenerationInv, Phase, Room, Stopped, Hybrid
    <2>5. BoxesKept'
      BY <1>1, <1>2, BoxesStay DEF GenerationInv
    <2> QED BY <2>2, <2>3, <2>4, <2>5 DEF GenerationInv
  <1> QED BY <1>3, <1>4

LEMMA PendingShort ==
  ASSUME GenerationInv
  PROVE  Len(pending) \in 0 .. 6
  <1>1. Len(pending) \in Nat /\ Len(pending) <= 6
    BY Typed DEF GenerationInv, Room
  <1>2. \A n \in Nat : n <= 6 => n \in 0 .. 6
    OBVIOUS
  <1> QED BY <1>1, <1>2, Zenon

\* A PBD call is one of a graph the engine has, and stays inside the cache.
LEMMA PbdCallFits ==
  ASSUME GenerationInv, pc = "pbd", WindowFits,
         call' = GraphCall(PbdGraph(Len(pending)), PbdTokens)
  PROVE  CallsFit'
  <1> DEFINE prefix == Len(pending)
             graph == PbdGraph(prefix)
  <1>1. prefix \in 0 .. 6
    BY PendingShort, Zenon
  <1>2. Len(PbdTokens) = prefix + 6
    BY TextHeld, PbdCarriesPending DEF GenerationInv, Decoding
  <1>3. call'.graph = graph /\ call'.tokens = PbdTokens /\ call'.past = history
    BY DEF GraphCall
  <1>4. graph[2] = 6 + prefix
    BY DEF PbdGraph
  <1>5. graph \in Graphs
    <2> HIDE DEF prefix
    <2>1. CASE prefix = 0
      <3>1. PbdGraph(prefix) = <<"decode", 6>>
        BY <2>1 DEF PbdGraph
      <3> QED BY <3>1 DEF Graphs
    <2>2. CASE prefix # 0
      <3>1. PbdGraph(prefix) = <<"decode_pbd", 6 + prefix>> /\ 6 + prefix \in 7 .. 12
        BY <1>1, <2>2 DEF PbdGraph
      <3> QED BY <3>1 DEF Graphs
    <2> QED BY <2>1, <2>2
  <1>6. history + (prefix + 6) <= CacheLen
    BY Typed, RequestGiven DEF GenerationInv, WindowFits
  <1> HIDE DEF prefix, graph
  <1>7. Len(PbdTokens) = graph[2]
    BY <1>1, <1>2, <1>4
  <1>8. history + Len(PbdTokens) <= CacheLen
    BY <1>2, <1>6
  <1> QED BY <1>3, <1>5, <1>7, <1>8 DEF CallsFit

LEMMA PbdCallKeepsInv ==
  ASSUME GenerationInv, PbdCall
  PROVE  GenerationInv'
  <1> DEFINE rows == SubSeq(PbdTokens, 1, Len(pending))
  <1>1. /\ pc = "pbd" /\ pc \in Decoding /\ HybridContinues /\ WindowFits
        /\ request' = request /\ generated' = generated /\ response' = response
        /\ decision' = decision /\ stop' = stop /\ metrics' = metrics
        /\ outcome' = outcome /\ boxes' = boxes
    BY DEF PbdCall, Decoding
  <1>2. rows = pending
    BY <1>1, TextHeld, PbdCarriesPending DEF GenerationInv
  <1>3. CallsFit'
    BY <1>1, PbdCallFits DEF PbdCall
  <1>4. TokensAccounted'
    BY <1>1 DEF GenerationInv, TokensAccounted
  <1>5. BoxesKept'
    BY <1>1, BoxesStay DEF GenerationInv
  <1>6. CASE pc' = "decide"
    <2>1. /\ cache' \in [Tensors -> Seq(Tokens)] /\ history' \in 0 .. CacheLen
          /\ history' = history + Len(pending)
          /\ \A t \in Tensors : cache'[t] = cache[t] \o pending
          /\ \A t \in Tensors : Len(cache'[t]) = Len(cache[t]) + Len(pending)
      <3>1. CASE pending = <<>>
        <4>1. cache' = cache /\ history' = history
          BY <1>6, <3>1 DEF PbdCall
        <4>2. \A t \in Tensors : cache[t] \o <<>> = cache[t]
          BY Typed, TokenNone DEF GenerationInv
        <4>3. Len(pending) = 0
          BY <3>1
        <4>4. cache \in [Tensors -> Seq(Tokens)] /\ history \in 0 .. CacheLen
          BY DEF GenerationInv, TypeOK
        <4>5. \A t \in Tensors : Len(cache[t]) \in Nat
          BY <4>4
        <4> QED BY <3>1, <4>1, <4>2, <4>3, <4>4, <4>5
      <3>2. CASE pending # <<>>
        <4>1. Commit(pending)
          BY <1>2, <1>6, <3>2 DEF PbdCall
        <4> QED BY <4>1, Typed, CommitAppends DEF GenerationInv
      <3> QED BY <3>1, <3>2
    <2>2. \A t \in Tensors : cache'[t] = generated /\ Len(cache'[t]) = history'
      BY <1>1, <2>1, TextHeld
    <2>3. pending' = <<>>
      BY <1>6 DEF PbdCall
    <2>4. context' = generated
      <3>1. context' = cache[1] \o pending
        BY <1>1, <1>6, TextHeld, PbdReadsNewestRow DEF PbdCall, GenerationInv
      <3> QED BY <1>1, <3>1, TextHeld, RequestGiven DEF GenerationInv
    <2>5. TypeOK'
      BY <1>1, <1>6, <2>1, <2>3, <2>4, Typed DEF GenerationInv, TypeOK, Decoding
    <2>6. CacheHoldsText'
      <3>1. Uncommitted' = <<>>
        BY <1>6 DEF Uncommitted
      <3>2. generated \o <<>> = generated
        BY Typed, TokenNone DEF GenerationInv
      <3> QED BY <1>1, <2>2, <3>1, <3>2, TextHeld DEF CacheHoldsText
    <2>7. LogitsFresh'
      BY <1>1, <1>6, <2>4 DEF LogitsFresh
    <2>8. Phase' /\ Stopped'
      BY <1>1, <1>6 DEF GenerationInv, Phase, Stopped, Hybrid
    <2>9. Room'
      <3>1. /\ history \in Nat /\ Len(pending) \in Nat /\ CacheLen \in Nat
            /\ Len(response) \in Nat /\ request.max \in Nat
        BY Typed, RequestGiven DEF GenerationInv
      <3>2. history' + 6 <= CacheLen
        BY <1>1, <2>1, <3>1 DEF WindowFits
      <3>3. Len(response) < request.max /\ Len(pending') = 0
        BY <1>1, <2>3 DEF HybridContinues
      <3> QED BY <1>1, <1>6, <3>1, <3>2, <3>3 DEF Room
    <2> QED BY <1>3, <1>4, <1>5, <2>5, <2>6, <2>7, <2>8, <2>9 DEF GenerationInv
  <1>7. CASE pc' # "decide"
    <2>1. /\ pc' = "hybrid_failed" /\ context' = context /\ pending' = pending
          /\ UNCHANGED <<cache, history>> \/ CommitFails(pending)
      BY <1>2, <1>7 DEF PbdCall
    <2>2. cache' \in [Tensors -> Seq(Tokens)] /\ history' = history
      BY <2>1, Typed, FailedCommitTypes DEF GenerationInv, TypeOK
    <2>3. TypeOK'
      BY <1>1, <2>1, <2>2 DEF GenerationInv, TypeOK
    <2>4. CacheHoldsText' /\ LogitsFresh'
      BY <2>1 DEF CacheHoldsText, LogitsFresh, Decoding
    <2>5. Phase' /\ Room' /\ Stopped'
      BY <1>1, <2>1, <2>2 DEF GenerationInv, Phase, Room, Stopped, Hybrid
    <2> QED BY <1>3, <1>4, <1>5, <2>3, <2>4, <2>5 DEF GenerationInv
  <1> QED BY <1>6, <1>7

\* Emitted tokens are added to the text and to the history alike.
LEMMA EmitExtends ==
  ASSUME TypeOK, generated = request.prompt \o response, NEW tokens \in Seq(Tokens),
         Emit(tokens), request' = request
  PROVE  /\ response' \in Seq(Tokens) /\ generated' \in Seq(Tokens)
         /\ response' = response \o tokens /\ generated' = generated \o tokens
         /\ Len(response') = Len(response) + Len(tokens)
         /\ generated' = request'.prompt \o response'
  <1>1. response' = response \o tokens /\ generated' = generated \o tokens
    BY DEF Emit
  <1>2. /\ response \in Seq(Tokens) /\ generated \in Seq(Tokens) /\ request.prompt \in Seq(Tokens)
    BY Typed, RequestGiven
  <1>3. response' \in Seq(Tokens) /\ generated' \in Seq(Tokens)
        /\ Len(response') = Len(response) + Len(tokens)
    BY <1>1, <1>2, TokenConcat
  <1>4. (request.prompt \o response) \o tokens = request.prompt \o (response \o tokens)
    BY <1>2, TokenAssociative
  <1> QED BY <1>1, <1>3, <1>4

LEMMA CountedPbd ==
  ASSUME TypeOK, NEW n \in Nat, Counted("pbd", n)
  PROVE  /\ metrics' \in [{"pbd", "ar"} -> Nat]
         /\ metrics'["pbd"] + metrics'["ar"] = metrics["pbd"] + metrics["ar"] + n
  <1>1. metrics \in [{"pbd", "ar"} -> Nat]
    BY DEF TypeOK
  <1>2. metrics' = [metrics EXCEPT !["pbd"] = metrics["pbd"] + n]
    BY DEF Counted
  <1>3. metrics'["pbd"] = metrics["pbd"] + n /\ metrics'["ar"] = metrics["ar"]
    BY <1>1, <1>2
  <1> QED BY <1>1, <1>2, <1>3

LEMMA CountedAr ==
  ASSUME TypeOK, NEW n \in Nat, Counted("ar", n)
  PROVE  /\ metrics' \in [{"pbd", "ar"} -> Nat]
         /\ metrics'["pbd"] + metrics'["ar"] = metrics["pbd"] + metrics["ar"] + n
  <1>1. metrics \in [{"pbd", "ar"} -> Nat]
    BY DEF TypeOK
  <1>2. metrics' = [metrics EXCEPT !["ar"] = metrics["ar"] + n]
    BY DEF Counted
  <1>3. metrics'["ar"] = metrics["ar"] + n /\ metrics'["pbd"] = metrics["pbd"]
    BY <1>1, <1>2
  <1> QED BY <1>1, <1>2, <1>3

\* What is added to the answer and to a counter alike leaves the account true.
LEMMA StillAccounted ==
  ASSUME TypeOK, TokensAccounted, NEW n \in Nat,
         metrics'["pbd"] + metrics'["ar"] = metrics["pbd"] + metrics["ar"] + n,
         Len(response') = Len(response) + n, outcome' = outcome
  PROVE  TokensAccounted'
  <1>1. \A a, b, c, d \in Nat : a = b + c => a + d = (b + d) + c
    OBVIOUS
  <1>2. /\ metrics["pbd"] + metrics["ar"] \in Nat /\ Len(response) \in Nat
        /\ outcome.dropped \in Nat
    <2>1. metrics["pbd"] + metrics["ar"] \in Nat
      BY Typed
    <2>2. outcome.dropped \in Nat
      BY DEF TypeOK
    <2> QED BY <2>1, <2>2, Typed
  <1>3. metrics["pbd"] + metrics["ar"] + n = (Len(response) + n) + outcome.dropped
    BY <1>1, <1>2 DEF TokensAccounted
  <1>4. metrics'["pbd"] + metrics'["ar"] = Len(response') + outcome'.dropped
    BY <1>3, Zenon
  <1> QED BY <1>4 DEF TokensAccounted

-----------------------------------------------------------------------------
(* Boxes                                                                    *)

\* What occurred in a text still occurs in a longer one.
LEMMA OccursInLonger ==
  ASSUME NEW b \in Seq(Tokens), NEW s \in Seq(Tokens), NEW t \in Seq(Tokens), Occurs(b, s)
  PROVE  Occurs(b, s \o t)
  <1>1. PICK i \in 0 .. Len(s) - Len(b) : SubSeq(s, i + 1, i + Len(b)) = b
    BY DEF Occurs
  <1>2. i \in 0 .. Len(s \o t) - Len(b)
    BY <1>1
  <1>3. SubSeq(s \o t, i + 1, i + Len(b)) = SubSeq(s, i + 1, i + Len(b))
    BY <1>1
  <1> QED BY <1>1, <1>2, <1>3 DEF Occurs

\* A text ends with what was appended to it last.
LEMMA OccursAtEnd ==
  ASSUME NEW b \in Seq(Tokens), NEW s \in Seq(Tokens)
  PROVE  Occurs(b, s \o b)
  <1>1. Len(s) \in 0 .. Len(s \o b) - Len(b)
    OBVIOUS
  <1>2. SubSeq(s \o b, Len(s) + 1, Len(s) + Len(b)) = b
    OBVIOUS
  <1> QED BY <1>1, <1>2 DEF Occurs

\* The end token of a complete box is its last token only.
LEMMA InsideBox ==
  ASSUME NEW b \in Seq(Tokens), IsCompleteDetectionBox(b)
  PROVE  /\ Len(b) \in {3, 4, 6} /\ b[Len(b)] = kBoxEnd
         /\ \A k \in 1 .. Len(b) - 1 : b[k] # kBoxEnd
  <1>1. Len(b) \in {3, 4, 6} /\ b[1] = kBoxStart /\ b[Len(b)] = kBoxEnd
    BY DEF IsCompleteDetectionBox, Last
  <1>2. CASE Len(b) = 3
    <2>1. b[2] = kNone
      BY <1>2 DEF IsCompleteDetectionBox
    <2>2. \A k \in 1 .. Len(b) - 1 : k = 1 \/ k = 2
      BY <1>2
    <2> QED BY <1>1, <2>1, <2>2, TokenValues
  <1>3. CASE Len(b) # 3
    <2>1. \A i \in 2 .. Len(b) - 1 : IsCoordinateToken(b[i])
      BY <1>3 DEF IsCompleteDetectionBox
    <2>2. \A k \in 1 .. Len(b) - 1 : k = 1 \/ k \in 2 .. Len(b) - 1
      BY <1>1
    <2> QED BY <1>1, <2>1, <2>2, TokenValues
  <1> QED BY <1>2, <1>3

LEMMA TokenSlice ==
  ASSUME NEW s \in Seq(Tokens), NEW m \in Nat, NEW n \in Nat, m + n <= Len(s)
  PROVE  /\ SubSeq(s, m + 1, m + n) \in Seq(Tokens) /\ Len(SubSeq(s, m + 1, m + n)) = n
         /\ \A k \in 1 .. n : SubSeq(s, m + 1, m + n)[k] = s[m + k]
  OBVIOUS

LEMMA SliceOfPrefix ==
  ASSUME NEW s \in Seq(Tokens), NEW u \in Seq(Tokens), NEW i \in Nat, NEW n \in Nat,
         i + n <= Len(s)
  PROVE  SubSeq(s \o u, i + 1, i + n) = SubSeq(s, i + 1, i + n)
  OBVIOUS

\* Two occurrences of a box do not overlap.
LEMMA BoxesDoNotOverlap ==
  ASSUME NEW t \in Seq(Tokens), NEW n \in Nat, NEW m \in Nat, NEW i \in Nat,
         m + n <= Len(t), i < m, m < i + n, NEW box,
         box = SubSeq(t, m + 1, m + n), box = SubSeq(t, i + 1, i + n),
         IsCompleteDetectionBox(box)
  PROVE  FALSE
  <1> DEFINE k == i + n - m
  <1>1. k \in 1 .. n - 1 /\ k \in 1 .. n /\ n \in 1 .. n /\ m + k = i + n /\ i + n <= Len(t)
    OBVIOUS
  <1>2. /\ box \in Seq(Tokens) /\ Len(box) = n
        /\ \A j \in 1 .. n : box[j] = t[m + j]
    BY TokenSlice
  <1>3. \A j \in 1 .. n : box[j] = t[i + j]
    BY <1>1, TokenSlice
  <1>4. box[n] = kBoxEnd /\ box[k] # kBoxEnd
    BY <1>1, <1>2, InsideBox
  <1>5. box[k] = t[i + n] /\ box[n] = t[i + n]
    BY <1>1, <1>2, <1>3
  <1> QED BY <1>4, <1>5

\* The text ends in a slice as long as a box.
Trails(box, t) ==
  \E n \in {3, 4, 6} : n <= Len(t) /\ box = SubSeq(t, Len(t) - n + 1, Len(t))

\* A box that an end token has just completed is none of those before it, if it
\* is not in the text in front of it.
LEMMA TrailingBoxIsNew ==
  ASSUME NEW s \in Seq(Tokens), NEW t \in Seq(Tokens), t = s \o <<kBoxEnd>>,
         NEW box, Trails(box, t), IsCompleteDetectionBox(box)
  PROVE  /\ box \in Seq(Tokens) /\ Occurs(box, t)
         /\ ~HasRepeatedTrailingDetectionBox(t) => ~Occurs(box, s)
  <1> SUFFICES ASSUME NEW n \in Nat, n \in {3, 4, 6}, NEW m \in Nat, m + n = Len(t),
                      box = SubSeq(t, m + 1, m + n)
               PROVE  /\ box \in Seq(Tokens) /\ Occurs(box, t)
                      /\ ~HasRepeatedTrailingDetectionBox(t) => ~Occurs(box, s)
    <2>1. PICK n \in {3, 4, 6} : n <= Len(t) /\ box = SubSeq(t, Len(t) - n + 1, Len(t))
      BY DEF Trails
    <2>2. Len(t) - n \in Nat /\ (Len(t) - n) + n = Len(t) /\ n \in Nat
      BY <2>1
    <2>3. PICK m \in Nat : m = Len(t) - n /\ m + n = Len(t)
      BY <2>2, Zenon
    <2>4. box = SubSeq(t, m + 1, m + n)
      BY <2>1, <2>3, Zenon
    <2> QED BY <2>1, <2>2, <2>3, <2>4, Zenon
  <1>1. /\ Len(t) = Len(s) + 1 /\ Len(s) \in Nat
        /\ \A i \in 1 .. Len(s) : t[i] = s[i]
    BY TokenValues
  <1>2. box \in Seq(Tokens) /\ Len(box) = n
    BY TokenSlice
  <1>3. Occurs(box, t)
    <2>1. m \in 0 .. Len(t) - n
      OBVIOUS
    <2> QED BY <1>2, <2>1, Zenon DEF Occurs
  <1>4. ASSUME ~HasRepeatedTrailingDetectionBox(t), Occurs(box, s)
        PROVE  FALSE
    <2>1. PICK i \in 0 .. Len(s) - Len(box) : SubSeq(s, i + 1, i + Len(box)) = box
      BY <1>4 DEF Occurs
    <2>2. /\ i \in Nat /\ i + n <= Len(s) /\ SubSeq(s, i + 1, i + n) = box
      BY <1>2, <2>1
    <2>3. SubSeq(t, i + 1, i + n) = box
      <3>1. <<kBoxEnd>> \in Seq(Tokens)
        BY TokenValues
      <3> QED BY <2>2, <3>1, SliceOfPrefix
    <2>4. CASE i + n <= m
      <3> DEFINE before == SubSeq(t, 1, Len(t) - n)
      <3>1. before \in Seq(Tokens) /\ Len(before) = Len(t) - n
        BY <1>1
      <3>2. SubSeq(before, i + 1, i + n) = SubSeq(s, i + 1, i + n)
        BY <1>1, <2>2, <2>4
      <3>3. i \in 0 .. Len(before) - n
        BY <1>1, <2>2, <2>4, <3>1
      <3>4. Occurs(box, before)
        BY <1>2, <2>2, <3>2, <3>3 DEF Occurs
      <3> HIDE DEF before
      <3>5. box = SubSeq(t, Len(t) - n + 1, Len(t)) /\ n <= Len(t)
        <4>1. m = Len(t) - n /\ n <= Len(t)
          OBVIOUS
        <4> QED BY <4>1, Zenon
      <3>6. HasRepeatedTrailingDetectionBox(t)
        BY <3>4, <3>5 DEF HasRepeatedTrailingDetectionBox, before
      <3> QED BY <1>4, <3>6
    <2>5. CASE m < i + n
      <3>1. i < m /\ m + n <= Len(t)
        BY <1>1, <2>2
      <3> QED BY <2>2, <2>3, <2>5, <3>1, BoxesDoNotOverlap
    <2> QED BY <2>2, <2>4, <2>5
  <1> QED BY <1>2, <1>3, <1>4

\* Text behind the boxes takes none of them away.
LEMMA BoxesUnderText ==
  ASSUME TypeOK, BoxesKept, pc # "hybrid_done", NEW tokens \in Seq(Tokens),
         response' = response \o tokens, boxes' = boxes, outcome' = outcome, request' = request
  PROVE  BoxesKept'
  <1>1. boxes \in Seq(Seq(Tokens)) /\ response \in Seq(Tokens)
    BY Typed DEF BoxesKept
  <1>2. \A i \in 1 .. Len(boxes) : boxes[i] \in Seq(Tokens)
    BY <1>1
  <1>3. \A i \in 1 .. Len(boxes) :
          Occurs(boxes[i], response) => Occurs(boxes[i], response \o tokens)
    BY <1>1, <1>2, OccursInLonger
  <1> QED BY <1>3 DEF BoxesKept

\* A complete box that was not in the answer before.
LEMMA BoxesGrow ==
  ASSUME TypeOK, BoxesKept, pc # "hybrid_done", NEW tokens \in Seq(Tokens), NEW box \in Seq(Tokens),
         response' = response \o tokens, boxes' = boxes \o <<box>>,
         outcome' = outcome, request' = request, outcome.mode = "hybrid",
         request.protect =>
           /\ IsCompleteDetectionBox(box) /\ Occurs(box, response \o tokens)
           /\ \/ pc' = "hybrid_done" /\ stop' = "repeated_box"
              \/ \A i \in 1 .. Len(boxes) : boxes[i] # box
  PROVE  BoxesKept'
  <1>1. boxes \in Seq(Seq(Tokens)) /\ response \in Seq(Tokens)
    BY Typed DEF BoxesKept
  <1>2. \A i \in 1 .. Len(boxes) : boxes[i] \in Seq(Tokens)
    BY <1>1
  <1>3. \A i \in 1 .. Len(boxes) :
          Occurs(boxes[i], response) => Occurs(boxes[i], response \o tokens)
    BY <1>1, <1>2, OccursInLonger
  <1>4. /\ boxes' \in Seq(Seq(Tokens)) /\ Len(boxes') = Len(boxes) + 1 /\ Len(boxes) \in Nat
        /\ \A i \in 1 .. Len(boxes) : boxes'[i] = boxes[i]
        /\ boxes'[Len(boxes) + 1] = box
    BY <1>1
  <1>5. \A i \in 1 .. Len(boxes') : i \in 1 .. Len(boxes) \/ i = Len(boxes) + 1
    BY <1>4
  <1>6. CASE ~request.protect
    BY <1>4, <1>6 DEF BoxesKept
  <1>7. CASE request.protect
    <2>1. \A i \in 1 .. Len(boxes') :
            IsCompleteDetectionBox(boxes'[i]) /\ Occurs(boxes'[i], response')
      BY <1>3, <1>4, <1>5, <1>7 DEF BoxesKept
    <2>2. \A i, j \in 1 .. Len(boxes) : boxes[i] = boxes[j] => i = j
      BY <1>7 DEF BoxesKept
    <2>3. CASE \A i \in 1 .. Len(boxes) : boxes[i] # box
      <3>1. \A i, j \in 1 .. Len(boxes') : boxes'[i] = boxes'[j] => i = j
        BY <1>4, <1>5, <2>2, <2>3
      <3> QED BY <1>4, <2>1, <3>1 DEF BoxesKept
    <2>4. CASE pc' = "hybrid_done" /\ stop' = "repeated_box"
      BY <1>4, <2>1, <2>4 DEF BoxesKept
    <2> QED BY <1>7, <2>3, <2>4
  <1> QED BY <1>6, <1>7

-----------------------------------------------------------------------------
(* The decision on a window                                                 *)

\* What a decision leaves alone, and the state it finds.
Deciding ==
  /\ pc = "decide" /\ request' = request /\ cache' = cache /\ history' = history
  /\ context' = context /\ call' = call /\ outcome' = outcome

\* What DecisionFits says of a decision.
Fits(d) ==
  /\ d.tokens \in Seq(Tokens) /\ Len(d.tokens) \in 1 .. 6
  /\ d.terminal \in BOOLEAN /\ d.switch_to_ar \in BOOLEAN
  /\ d.terminal => d.tokens = <<kImEnd>>
  /\ d.switch_to_ar => Len(d.tokens) <= 5

LEMMA DecidingState ==
  ASSUME GenerationInv, Deciding
  PROVE  /\ TypeOK /\ generated = request.prompt \o response
         /\ \A t \in Tensors : cache[t] = generated /\ Len(cache[t]) = history
         /\ Len(response) \in Nat /\ request.max \in Nat /\ Len(response) < request.max
         /\ history \in Nat /\ CacheLen \in Nat /\ history + 6 <= CacheLen
         /\ request.mode = "hybrid" /\ outcome.mode = "hybrid"
  <1>1. pc \in Decoding
    BY DEF Deciding, Decoding
  <1>2. request.mode = "hybrid" /\ outcome.mode = "hybrid"
    BY DEF GenerationInv, Deciding, Phase, Hybrid
  <1>3. Len(response) < request.max /\ history + 6 <= CacheLen
    BY DEF GenerationInv, Deciding, Room
  <1> QED BY <1>1, <1>2, <1>3, TextHeld, Typed, RequestGiven DEF GenerationInv, Deciding

LEMMA DecideTerminalKeepsInv ==
  ASSUME GenerationInv, Deciding, NEW d, Fits(d), DecideTerminal(d)
  PROVE  GenerationInv'
  <1>1. /\ pc' = "hybrid_done" /\ stop' = "im_end" /\ pending' = pending
        /\ decision' = decision /\ boxes' = boxes
        /\ Emit(<<kImEnd>>) /\ Counted("pbd", 1)
    <2>1. d.tokens = <<kImEnd>> /\ Len(<<kImEnd>>) = 1
      BY TokenValues, TokenSingle DEF Fits, DecideTerminal
    <2> QED BY <2>1 DEF DecideTerminal
  <1>2. <<kImEnd>> \in Seq(Tokens) /\ Len(<<kImEnd>>) = 1
    BY TokenValues, TokenSingle
  <1>3. /\ response' \in Seq(Tokens) /\ generated' \in Seq(Tokens)
        /\ response' = response \o <<kImEnd>> /\ Len(response') = Len(response) + 1
    BY <1>1, <1>2, DecidingState, EmitExtends DEF Deciding
  <1>4. /\ metrics' \in [{"pbd", "ar"} -> Nat]
        /\ metrics'["pbd"] + metrics'["ar"] = metrics["pbd"] + metrics["ar"] + 1
    BY <1>1, CountedPbd DEF GenerationInv
  <1>5. TypeOK'
    BY <1>1, <1>3, <1>4, Typed DEF GenerationInv, Deciding, TypeOK, Decoding
  <1>6. CacheHoldsText' /\ LogitsFresh' /\ CallsFit'
    BY <1>1 DEF GenerationInv, Deciding, CacheHoldsText, LogitsFresh, CallsFit, Decoding
  <1>7. TokensAccounted'
    BY <1>3, <1>4, StillAccounted DEF GenerationInv, Deciding
  <1>8. Phase'
    BY <1>1, DecidingState DEF GenerationInv, Deciding, Phase, Hybrid
  <1>9. Len(response') <= request.max
    BY <1>3, DecidingState
  <1>10. Room'
    BY <1>1, <1>9 DEF GenerationInv, Deciding, Room
  <1>11. Stopped'
    <2>1. response' # <<>> /\ Last(response') = kImEnd
      BY <1>3, Typed, TokenValues, TokenLast DEF GenerationInv
    <2> QED BY <1>1, <2>1 DEF Stopped, StopTrue
  <1>12. BoxesKept'
    BY <1>2, <1>3, <1>1, DecidingState, BoxesUnderText DEF GenerationInv, Deciding
  <1> QED BY <1>5, <1>6, <1>7, <1>8, <1>10, <1>11, <1>12 DEF GenerationInv

LEMMA DecideRepeatedKeepsInv ==
  ASSUME GenerationInv, Deciding, NEW d, Fits(d), DecideRepeated(d)
  PROVE  GenerationInv'
  <1>1. /\ pc' = "hybrid_done" /\ stop' = "repeated_box" /\ request.protect
        /\ generated' = generated /\ response' = response /\ pending' = pending
        /\ decision' = decision /\ metrics' = metrics /\ boxes' = boxes
    BY DEF DecideRepeated, Repeated
  <1>2. TypeOK'
    BY <1>1 DEF GenerationInv, Deciding, TypeOK
  <1>3. CacheHoldsText' /\ LogitsFresh' /\ CallsFit' /\ TokensAccounted'
    BY <1>1 DEF GenerationInv, Deciding, CacheHoldsText, LogitsFresh, CallsFit, TokensAccounted,
                Decoding
  <1>4. Phase' /\ Room' /\ Stopped'
    BY <1>1, DecidingState DEF GenerationInv, Deciding, Phase, Room, Stopped, StopTrue, Hybrid
  <1>5. BoxesKept'
    BY <1>1, BoxesStay DEF GenerationInv, Deciding
  <1> QED BY <1>2, <1>3, <1>4, <1>5 DEF GenerationInv

LEMMA DecideTruncatedKeepsInv ==
  ASSUME GenerationInv, Deciding, NEW d, Fits(d), DecideTruncated(d)
  PROVE  GenerationInv'
  <1> DEFINE head == SubSeq(d.tokens, 1, Remaining)
  <1>1. /\ pc' = "hybrid_done" /\ stop' = "max_new_tokens"
        /\ response' = response \o head /\ Counted("pbd", Remaining)
        /\ generated' = generated /\ pending' = pending /\ decision' = decision
        /\ boxes' = boxes
    BY DEF DecideTruncated
  <1>2. Remaining \in Nat /\ Remaining = request.max - Len(response)
    BY DecidingState DEF Remaining
  <1>3. head \in Seq(Tokens) /\ Len(head) = Remaining
    <2>1. Remaining \in 0 .. Len(d.tokens)
      BY <1>2 DEF DecideTruncated, Fits
    <2> QED BY <2>1, TokenPrefix DEF Fits
  <1> HIDE DEF head
  <1>4. response' \in Seq(Tokens) /\ Len(response') = Len(response) + Remaining
    BY <1>1, <1>3, Typed, TokenConcat DEF GenerationInv
  <1>5. /\ metrics' \in [{"pbd", "ar"} -> Nat]
        /\ metrics'["pbd"] + metrics'["ar"] = metrics["pbd"] + metrics["ar"] + Remaining
    BY <1>1, <1>2, CountedPbd DEF GenerationInv
  <1>6. Len(response') = request.max
    BY <1>2, <1>4, DecidingState
  <1>7. TypeOK'
    BY <1>1, <1>4, <1>5, Typed DEF GenerationInv, Deciding, TypeOK, Decoding
  <1>8. CacheHoldsText' /\ LogitsFresh' /\ CallsFit'
    BY <1>1 DEF GenerationInv, Deciding, CacheHoldsText, LogitsFresh, CallsFit, Decoding
  <1>9. TokensAccounted'
    BY <1>2, <1>4, <1>5, StillAccounted DEF GenerationInv, Deciding
  <1>10. Phase'
    BY <1>1, DecidingState DEF GenerationInv, Deciding, Phase, Hybrid
  <1>11. Room'
    BY <1>1, <1>6, DecidingState DEF GenerationInv, Deciding, Room
  <1>12. Stopped'
    BY <1>1, <1>6 DEF Deciding, Stopped, StopTrue
  <1>13. BoxesKept'
    BY <1>1, <1>3, BoxesUnderText DEF GenerationInv, Deciding
  <1> QED BY <1>7, <1>8, <1>9, <1>10, <1>11, <1>12, <1>13 DEF GenerationInv

LEMMA DecideBridgeKeepsInv ==
  ASSUME GenerationInv, Deciding, NEW d, Fits(d), DecideBridge(d)
  PROVE  GenerationInv'
  <1>1. /\ pc' = "bridge" /\ decision' = d.tokens /\ generated' = generated
        /\ response' = response /\ pending' = pending /\ stop' = stop
        /\ metrics' = metrics /\ boxes' = boxes
    BY DEF DecideBridge
  <1>2. /\ d.tokens \in Seq(Tokens) /\ Len(d.tokens) \in 1 .. 5
        /\ Len(response) + Len(d.tokens) <= request.max
    <2>1. \A n \in 1 .. 6 : n <= 5 => n \in 1 .. 5
      OBVIOUS
    <2>2. Len(d.tokens) \in 1 .. 6 /\ Len(d.tokens) <= 5 /\ d.tokens \in Seq(Tokens)
      BY DEF DecideBridge, Fits
    <2>3. Len(response) + Len(d.tokens) <= request.max
      BY <2>2, DecidingState DEF DecideBridge, Remaining
    <2> QED BY <2>1, <2>2, <2>3, Zenon
  <1>3. TypeOK'
    BY <1>1, <1>2, Typed DEF GenerationInv, Deciding, TypeOK, Decoding
  <1>4. CacheHoldsText'
    <2>1. Uncommitted' = <<>>
      BY <1>1 DEF Uncommitted
    <2>2. generated \o <<>> = generated
      BY Typed, TokenNone DEF GenerationInv
    <2> QED BY <1>1, <2>1, <2>2, DecidingState DEF Deciding, CacheHoldsText
  <1>5. LogitsFresh' /\ CallsFit' /\ TokensAccounted'
    BY <1>1 DEF GenerationInv, Deciding, LogitsFresh, CallsFit, TokensAccounted
  <1>6. Phase' /\ Stopped'
    BY <1>1, DecidingState DEF GenerationInv, Deciding, Phase, Stopped, Hybrid
  <1>7. Room'
    BY <1>1, <1>2, DecidingState DEF GenerationInv, Deciding, Room
  <1>8. BoxesKept'
    BY <1>1, BoxesStay DEF GenerationInv, Deciding
  <1> QED BY <1>3, <1>4, <1>5, <1>6, <1>7, <1>8 DEF GenerationInv

LEMMA DecideAcceptKeepsInv ==
  ASSUME GenerationInv, Deciding, NEW d, Fits(d), DecideAccept(d)
  PROVE  GenerationInv'
  <1>1. /\ pc' = "pbd" /\ pending' = d.tokens /\ Emit(d.tokens)
        /\ Counted("pbd", Len(d.tokens)) /\ decision' = decision /\ stop' = stop
        /\ ~Repeated(d)
    BY DEF DecideAccept
  <1>2. /\ d.tokens \in Seq(Tokens) /\ Len(d.tokens) \in 1 .. 6 /\ Len(d.tokens) \in Nat
        /\ Len(response) + Len(d.tokens) <= request.max
    BY DecidingState DEF DecideAccept, Remaining, Fits
  <1>3. /\ response' \in Seq(Tokens) /\ generated' \in Seq(Tokens)
        /\ response' = response \o d.tokens /\ generated' = generated \o d.tokens
        /\ Len(response') = Len(response) + Len(d.tokens)
        /\ generated' = request'.prompt \o response'
    BY <1>1, <1>2, DecidingState, EmitExtends DEF Deciding
  <1>4. /\ metrics' \in [{"pbd", "ar"} -> Nat]
        /\ metrics'["pbd"] + metrics'["ar"] = metrics["pbd"] + metrics["ar"] + Len(d.tokens)
    BY <1>1, <1>2, CountedPbd DEF GenerationInv
  <1>5. TypeOK'
    BY <1>1, <1>2, <1>3, <1>4, Typed DEF GenerationInv, Deciding, TypeOK, Decoding
  <1>6. CacheHoldsText'
    <2>1. Uncommitted' = d.tokens
      BY <1>1 DEF Uncommitted
    <2> QED BY <1>3, <2>1, DecidingState DEF Deciding, CacheHoldsText
  <1>7. LogitsFresh' /\ CallsFit'
    BY <1>1 DEF GenerationInv, Deciding, LogitsFresh, CallsFit
  <1>8. TokensAccounted'
    BY <1>2, <1>3, <1>4, StillAccounted DEF GenerationInv, Deciding
  <1>9. Phase' /\ Stopped'
    BY <1>1, DecidingState DEF GenerationInv, Deciding, Phase, Stopped, Hybrid
  <1>10. Room'
    <2>1. Len(response') <= request.max
      BY <1>2, <1>3
    <2>2. \A n \in 1 .. 6 : n <= 6
      OBVIOUS
    <2>3. Len(pending') <= 6
      BY <1>1, <1>2, <2>2, Zenon
    <2> QED BY <1>1, <2>1, <2>3 DEF Deciding, Room
  <1>11. BoxesKept'
    <2>1. pc # "hybrid_done" /\ request' = request /\ outcome' = outcome
      BY DEF Deciding
    <2>2. CASE IsCompleteDetectionBox(d.tokens)
      <3>1. boxes' = boxes \o <<d.tokens>>
        <4>1. boxes \in Seq(Seq(Tokens))
          BY DEF GenerationInv, BoxesKept
        <4> QED BY <1>2, <2>2, <4>1, AppendIsConcat DEF DecideAccept
      <3>2. Occurs(d.tokens, response \o d.tokens)
        BY <1>2, Typed, OccursAtEnd DEF GenerationInv
      <3>3. request.protect => \A i \in 1 .. Len(boxes) : boxes[i] # d.tokens
        <4>1. request.protect => ~Occurs(d.tokens, response)
          BY <1>1, <2>2 DEF Repeated, HasRepeatedDetectionBox
        <4>2. request.protect => \A i \in 1 .. Len(boxes) : Occurs(boxes[i], response)
          BY DecidingState DEF GenerationInv, BoxesKept
        <4> QED BY <4>1, <4>2
      <3> QED BY <1>2, <1>3, <2>1, <2>2, <3>1, <3>2, <3>3, DecidingState, BoxesGrow
              DEF GenerationInv
    <2>3. CASE ~IsCompleteDetectionBox(d.tokens)
      <3>1. boxes' = boxes
        BY <2>3 DEF DecideAccept
      <3> QED BY <1>2, <1>3, <2>1, <3>1, BoxesUnderText DEF GenerationInv
    <2> QED BY <2>2, <2>3
  <1> QED BY <1>5, <1>6, <1>7, <1>8, <1>9, <1>10, <1>11 DEF GenerationInv

LEMMA DecideKeepsInv ==
  ASSUME GenerationInv, NEW window \in Windows, Decide(window)
  PROVE  GenerationInv'
  <1> DEFINE d == HandlePattern(window)
  <1>1. window \in Seq(Tokens) /\ Len(window) = 6
    BY GenerationAssumption DEF GenerationAssumption
  <1>2. Fits(d)
    BY <1>1, DecisionFits DEF Fits
  <1>3. Deciding
    BY DEF Decide, Deciding
  <1>4. \/ DecideTerminal(d) \/ DecideRepeated(d) \/ DecideTruncated(d)
        \/ DecideBridge(d) \/ DecideAccept(d)
    BY DEF Decide
  <1> HIDE DEF d
  <1> QED BY <1>2, <1>3, <1>4, DecideTerminalKeepsInv, DecideRepeatedKeepsInv,
             DecideTruncatedKeepsInv, DecideBridgeKeepsInv, DecideAcceptKeepsInv

-----------------------------------------------------------------------------
(* Excursions into single-token decoding                                    *)

\* A decode_ar call is one of a graph the engine has, and stays inside the cache.
LEMMA ArCallFits ==
  ASSUME NEW tokens \in Seq(Tokens), NEW n \in 1 .. 5, n = Len(tokens),
         history + n <= CacheLen, call' = GraphCall(ArGraph(n), tokens)
  PROVE  CallsFit'
  <1>1. call'.graph = ArGraph(n) /\ call'.tokens = tokens /\ call'.past = history
    BY DEF GraphCall
  <1>2. ArGraph(n) \in Graphs /\ ArGraph(n)[2] = n
    BY DEF Graphs, ArGraph
  <1> QED BY <1>1, <1>2 DEF CallsFit

LEMMA BridgeKeepsInv ==
  ASSUME GenerationInv, Bridge
  PROVE  GenerationInv'
  <1> DEFINE n == Len(decision)
  <1>1. /\ pc = "bridge" /\ pc \in Decoding /\ pc \in Hybrid /\ request' = request
        /\ pending' = pending /\ stop' = stop /\ outcome' = outcome /\ boxes' = boxes
        /\ decision' = <<>> /\ call' = GraphCall(ArGraph(n), decision)
    BY DEF Bridge, Decoding, Hybrid
  <1>2. /\ decision \in Seq(Tokens) /\ n \in 1 .. 5 /\ n \in Nat /\ n >= 1
        /\ Len(response) + n <= request.max /\ history + 6 <= CacheLen
    <2>1. /\ decision \in Seq(Tokens) /\ n \in 1 .. 5
          /\ Len(response) + n <= request.max /\ history + 6 <= CacheLen
      BY <1>1, Typed DEF GenerationInv, Room
    <2>2. \A k \in 1 .. 5 : k \in Nat /\ k >= 1
      OBVIOUS
    <2> QED BY <2>1, <2>2, Zenon
  <1>3. generated = request.prompt \o response
    BY <1>1, TextHeld
  <1>4. history + n <= CacheLen
    <2>1. \A h, c \in Nat : \A k \in 1 .. 5 : h + 6 <= c => h + k <= c
      OBVIOUS
    <2> QED BY <1>2, <2>1, Typed, RequestGiven DEF GenerationInv
  <1>5. CallsFit'
    BY <1>1, <1>2, <1>4, ArCallFits
  <1>6. <<>> \in Seq(Tokens)
    OBVIOUS
  <1> HIDE DEF n
  <1>7. CASE pc' = "ar"
    <2>1. /\ Commit(decision) /\ context' = ArContext(decision) /\ Emit(decision)
          /\ Counted("pbd", n)
      BY <1>7 DEF Bridge, n
    <2>2. /\ cache' \in [Tensors -> Seq(Tokens)] /\ history' \in 0 .. CacheLen
          /\ history' = history + n
          /\ \A t \in Tensors : cache'[t] = cache[t] \o decision
          /\ \A t \in Tensors : Len(cache'[t]) = Len(cache[t]) + n
      BY <1>2, <2>1, CommitAppends DEF GenerationInv, n
    <2>3. /\ response' \in Seq(Tokens) /\ generated' \in Seq(Tokens)
          /\ response' = response \o decision /\ generated' = generated \o decision
          /\ Len(response') = Len(response) + n
          /\ generated' = request'.prompt \o response'
      BY <1>1, <1>2, <1>3, <2>1, EmitExtends DEF GenerationInv, n
    <2>4. \A t \in Tensors : cache'[t] = generated' /\ Len(cache'[t]) = history'
      BY <1>1, <2>2, <2>3, TextHeld
    <2>5. context' = generated'
      <3>1. context' = cache[1] \o decision
        BY <1>2, <2>1, ArReadsLastRow DEF GenerationInv, n
      <3> QED BY <1>1, <2>3, <3>1, TextHeld, RequestGiven DEF GenerationInv
    <2>6. /\ metrics' \in [{"pbd", "ar"} -> Nat]
          /\ metrics'["pbd"] + metrics'["ar"] = metrics["pbd"] + metrics["ar"] + n
      BY <1>2, <2>1, CountedPbd DEF GenerationInv
    <2>7. TypeOK'
      BY <1>1, <1>6, <1>7, <2>2, <2>3, <2>5, <2>6, Typed DEF GenerationInv, TypeOK, Decoding
    <2>8. CacheHoldsText'
      <3>1. Uncommitted' = <<>>
        BY <1>7 DEF Uncommitted
      <3>2. generated' \o <<>> = generated'
        BY <2>3, TokenNone
      <3> QED BY <2>3, <2>4, <3>1, <3>2 DEF CacheHoldsText
    <2>9. LogitsFresh'
      BY <2>5 DEF LogitsFresh
    <2>10. TokensAccounted'
      BY <1>1, <1>2, <2>3, <2>6, StillAccounted DEF GenerationInv
    <2>11. Phase' /\ Stopped'
      BY <1>1, <1>7 DEF GenerationInv, Phase, Stopped, Hybrid
    <2>12. Room'
      BY <1>1, <1>2, <1>7, <2>3 DEF GenerationInv, Room
    <2>13. BoxesKept'
      BY <1>1, <1>2, <2>3, BoxesUnderText DEF GenerationInv
    <2> QED BY <1>5, <2>7, <2>8, <2>9, <2>10, <2>11, <2>12, <2>13 DEF GenerationInv
  <1>8. CASE pc' # "ar"
    <2>1. /\ pc' = "hybrid_failed" /\ context' = context /\ generated' = generated
          /\ response' = response /\ metrics' = metrics
          /\ UNCHANGED <<cache, history>> \/ CommitFails(decision)
      BY <1>8 DEF Bridge
    <2>2. cache' \in [Tensors -> Seq(Tokens)] /\ history' = history
      BY <1>2, <2>1, FailedCommitTypes DEF GenerationInv, TypeOK
    <2>3. TypeOK'
      BY <1>1, <1>6, <2>1, <2>2 DEF GenerationInv, TypeOK
    <2>4. CacheHoldsText' /\ LogitsFresh' /\ TokensAccounted'
      BY <1>1, <2>1 DEF GenerationInv, CacheHoldsText, LogitsFresh, TokensAccounted, Decoding
    <2>5. Phase' /\ Room' /\ Stopped'
      BY <1>1, <2>1, <2>2 DEF GenerationInv, Phase, Room, Stopped, Hybrid
    <2>6. BoxesKept'
      BY <1>1, <2>1, BoxesStay DEF GenerationInv
    <2> QED BY <1>5, <2>3, <2>4, <2>5, <2>6 DEF GenerationInv
  <1> QED BY <1>7, <1>8

\* decode_ar on the newest token, from either loop.
LEMMA CommitNewestKeepsInv ==
  ASSUME GenerationInv, NEW at, NEW next, NEW failure, CommitNewest(at, next, failure),
         \/ at = "ar_commit" /\ next = "ar" /\ failure = "hybrid_failed"
         \/ at = "slow_commit" /\ next = "slow" /\ failure = "failed"
  PROVE  GenerationInv'
  <1> DEFINE newest == <<Last(generated)>>
  <1>1. /\ pc = at /\ pc \in {"ar_commit", "slow_commit"} /\ pc \in Decoding
        /\ request' = request /\ generated' = generated /\ response' = response
        /\ pending' = pending /\ decision' = decision /\ stop' = stop /\ metrics' = metrics
        /\ outcome' = outcome /\ boxes' = boxes
        /\ call' = GraphCall(ArGraph(1), newest)
    BY DEF CommitNewest, Decoding
  <1>2. newest \in Seq(Tokens) /\ Len(newest) = 1
    BY <1>1, TextHeld, Typed, NewestIsToken, TokenSingle DEF GenerationInv
  <1>3. /\ generated = request.prompt \o response
        /\ \A t \in Tensors : cache[t] \o newest = generated /\ Len(cache[t]) = history
    BY <1>1, TextHeld
  <1>4. CASE pc' = next
    <2>1. Commit(newest) /\ context' = ArContext(newest)
      BY <1>4 DEF CommitNewest
    <2> HIDE DEF newest
    <2>2. /\ cache' \in [Tensors -> Seq(Tokens)] /\ history' \in 0 .. CacheLen
          /\ \A t \in Tensors : cache'[t] = generated
          /\ \A t \in Tensors : Len(cache'[t]) = history'
      <3>1. /\ cache' \in [Tensors -> Seq(Tokens)] /\ history' \in 0 .. CacheLen
            /\ history' = history + Len(newest)
            /\ \A t \in Tensors : cache'[t] = cache[t] \o newest
            /\ \A t \in Tensors : Len(cache'[t]) = Len(cache[t]) + Len(newest)
        BY <1>2, <2>1, CommitAppends DEF GenerationInv
      <3> QED BY <1>3, <3>1
    <2>3. context' = generated
      <3>1. context' = cache[1] \o newest
        <4>1. Len(newest) >= 1
          BY <1>2
        <4> QED BY <1>2, <2>1, <4>1, ArReadsLastRow DEF GenerationInv
      <3> QED BY <1>3, <3>1, RequestGiven DEF GenerationInv
    <2>4. TypeOK'
      BY <1>1, <1>4, <2>2, <2>3 DEF GenerationInv, TypeOK, Decoding
    <2>5. CacheHoldsText'
      <3>1. Uncommitted' = <<>>
        BY <1>4 DEF Uncommitted
      <3>2. generated \o <<>> = generated
        BY Typed, TokenNone DEF GenerationInv
      <3> QED BY <1>1, <1>3, <2>2, <3>1, <3>2 DEF CacheHoldsText
    <2>6. LogitsFresh' /\ TokensAccounted'
      BY <1>1, <2>3 DEF GenerationInv, LogitsFresh, TokensAccounted
    <2>7. CallsFit'
      <3>1. history + 1 <= CacheLen /\ 1 \in 1 .. 5
        BY <1>1, Typed, RequestGiven DEF GenerationInv, Room
      <3> QED BY <1>1, <1>2, <3>1, ArCallFits DEF newest
    <2>8. Phase' /\ Room' /\ Stopped'
      BY <1>1, <1>4 DEF GenerationInv, Phase, Room, Stopped, Hybrid
    <2>9. BoxesKept'
      BY <1>1, BoxesStay DEF GenerationInv
    <2> QED BY <2>4, <2>5, <2>6, <2>7, <2>8, <2>9 DEF GenerationInv
  <1>5. CASE pc' # next
    <2>1. /\ pc' = failure /\ context' = context
          /\ UNCHANGED <<cache, history>> \/ CommitFails(newest)
      BY <1>5 DEF CommitNewest
    <2>2. cache' \in [Tensors -> Seq(Tokens)] /\ history' = history
      BY <1>2, <2>1, FailedCommitTypes DEF GenerationInv, TypeOK
    <2>3. TypeOK'
      BY <1>1, <2>1, <2>2 DEF GenerationInv, TypeOK
    <2>4. CacheHoldsText' /\ LogitsFresh' /\ TokensAccounted'
      BY <1>1, <2>1 DEF GenerationInv, CacheHoldsText, LogitsFresh, TokensAccounted, Decoding
    <2>5. CallsFit'
      <3>1. history + 1 <= CacheLen /\ 1 \in 1 .. 5
        BY <1>1, Typed, RequestGiven DEF GenerationInv, Room
      <3> QED BY <1>1, <1>2, <3>1, ArCallFits
    <2>6. Phase' /\ Room' /\ Stopped'
      BY <1>1, <2>1, <2>2 DEF GenerationInv, Phase, Room, Stopped, Hybrid
    <2>7. BoxesKept'
      BY <1>1, BoxesStay DEF GenerationInv
    <2> QED BY <2>3, <2>4, <2>5, <2>6, <2>7 DEF GenerationInv
  <1> QED BY <1>4, <1>5

\* The box that a sampled end token completes is kept; other tokens add none.
LEMMA SampleKeepsBoxes ==
  ASSUME GenerationInv, NEW token \in ArTokens, ArSample(token)
  PROVE  BoxesKept'
  <1> DEFINE ends == {n \in {3, 4, 6} : n <= Len(response')}
             tail(n) == SubSeq(response', Len(response') - n + 1, Len(response'))
             complete(n) == IsCompleteDetectionBox(tail(n))
             repeated == /\ request.protect /\ token = kBoxEnd
                         /\ HasRepeatedTrailingDetectionBox(response')
  <1>1. /\ pc = "ar" /\ request' = request /\ outcome' = outcome
        /\ response' = response \o <<token>>
    BY DEF ArSample, Emit
  <1>2. <<token>> \in Seq(Tokens) /\ response \in Seq(Tokens)
    BY GenerationAssumption, TokenSingle, Typed DEF GenerationInv, GenerationAssumption
  <1>3. outcome.mode = "hybrid"
    BY <1>1 DEF GenerationInv, Phase, Hybrid
  <1>4. boxes' = boxes \o (IF token # kBoxEnd THEN <<>>
                           ELSE IF \E n \in ends : complete(n)
                                THEN <<tail(CHOOSE n \in ends : complete(n))>> ELSE <<>>)
    BY DEF ArSample
  <1>5. boxes \o <<>> = boxes
    <2>1. boxes \in Seq(Seq(Tokens))
      BY DEF GenerationInv, BoxesKept
    <2>2. \A s \in Seq(Seq(Tokens)) : s \o <<>> = s
      OBVIOUS
    <2> QED BY <2>1, <2>2, Zenon
  <1>6. CASE token = kBoxEnd /\ \E n \in ends : complete(n)
    <2> DEFINE box == tail(CHOOSE n \in ends : complete(n))
    <2>1. boxes' = boxes \o <<box>>
      BY <1>4, <1>6
    <2>2. (CHOOSE n \in ends : complete(n)) \in ends /\ IsCompleteDetectionBox(box)
      BY <1>6
    <2>3. Trails(box, response')
      BY <2>2 DEF Trails
    <2> HIDE DEF box
    <2>4. PICK t \in Seq(Tokens) : t = response' /\ t = response \o <<kBoxEnd>>
      BY <1>1, <1>2, <1>6, TokenConcat
    <2>5. /\ box \in Seq(Tokens) /\ Occurs(box, t)
          /\ ~HasRepeatedTrailingDetectionBox(t) => ~Occurs(box, response)
      BY <1>2, <2>2, <2>3, <2>4, TrailingBoxIsNew
    <2>6. ASSUME request.protect
          PROVE  \/ pc' = "hybrid_done" /\ stop' = "repeated_box"
                 \/ \A i \in 1 .. Len(boxes) : boxes[i] # box
      <3>1. CASE HasRepeatedTrailingDetectionBox(response')
        <4>1. repeated /\ ~IsCoordinateToken(token) /\ token # kNone
          BY <1>6, <2>6, <3>1, TokenValues
        <4> QED BY <4>1 DEF ArSample
      <3>2. CASE ~HasRepeatedTrailingDetectionBox(response')
        <4>1. \A i \in 1 .. Len(boxes) : Occurs(boxes[i], response)
          BY <1>3, <2>6 DEF GenerationInv, BoxesKept
        <4> QED BY <2>4, <2>5, <3>2, <4>1
      <3> QED BY <3>1, <3>2
    <2> QED BY <1>1, <1>2, <1>3, <2>1, <2>2, <2>4, <2>5, <2>6, BoxesGrow DEF GenerationInv
  <1>7. CASE ~(token = kBoxEnd /\ \E n \in ends : complete(n))
    <2>1. boxes' = boxes
      BY <1>4, <1>5, <1>7
    <2> QED BY <1>1, <1>2, <2>1, BoxesUnderText DEF GenerationInv
  <1> QED BY <1>6, <1>7

LEMMA ArSampleKeepsInv ==
  ASSUME GenerationInv, NEW token \in ArTokens, ArSample(token)
  PROVE  GenerationInv'
  <1>1. /\ pc = "ar" /\ pc \in Decoding /\ pc \in Hybrid /\ HybridContinues
        /\ Emit(<<token>>) /\ Counted("ar", 1)
        /\ request' = request /\ decision' = decision /\ cache' = cache
        /\ history' = history /\ context' = context /\ call' = call /\ outcome' = outcome
    BY DEF ArSample, Decoding, Hybrid
  <1>2. \/ /\ pc' = "hybrid_done" /\ stop' = "repeated_box" /\ request.protect
           /\ pending' = pending
        \/ pc' = "hybrid_done" /\ stop' = "ar_non_coordinate" /\ pending' = pending
        \/ pc' = "pbd" /\ pending' = <<token>> /\ stop' = stop
        \/ pc' = "ar_commit" /\ pending' = pending /\ stop' = stop
    BY DEF ArSample
  <1>3. token \in Tokens /\ <<token>> \in Seq(Tokens) /\ Len(<<token>>) = 1
    BY GenerationAssumption, TokenSingle DEF GenerationAssumption
  <1>4. /\ generated = request.prompt \o response
        /\ \A t \in Tensors : cache[t] = generated /\ Len(cache[t]) = history
    BY <1>1, TextHeld
  <1>5. /\ response' \in Seq(Tokens) /\ generated' \in Seq(Tokens)
        /\ generated' = generated \o <<token>> /\ Len(response') = Len(response) + 1
        /\ generated' = request'.prompt \o response'
    BY <1>1, <1>3, <1>4, EmitExtends DEF GenerationInv
  <1>6. /\ metrics' \in [{"pbd", "ar"} -> Nat]
        /\ metrics'["pbd"] + metrics'["ar"] = metrics["pbd"] + metrics["ar"] + 1
    BY <1>1, CountedAr DEF GenerationInv
  <1>7. TypeOK'
    BY <1>1, <1>2, <1>3, <1>5, <1>6, Typed DEF GenerationInv, TypeOK, Decoding
  <1>8. CacheHoldsText'
    <2>1. Last(generated') = token
      BY <1>3, <1>5, Typed, TokenLast DEF GenerationInv
    <2>2. pc' \in Decoding => Uncommitted' = <<token>>
      BY <1>2, <2>1 DEF Uncommitted, Decoding
    <2> QED BY <1>1, <1>4, <1>5, <2>2 DEF CacheHoldsText
  <1>9. LogitsFresh' /\ CallsFit'
    BY <1>1, <1>2 DEF GenerationInv, LogitsFresh, CallsFit
  <1>10. TokensAccounted'
    BY <1>1, <1>5, <1>6, StillAccounted DEF GenerationInv
  <1>11. Phase'
    BY <1>1, <1>2 DEF GenerationInv, Phase, Hybrid
  <1>12. Room'
    <2>1. Len(response') <= request.max
      BY <1>1, <1>5, Typed, RequestGiven DEF GenerationInv, HybridContinues
    <2>2. CASE pending' = pending
      BY <1>1, <1>2, <2>1, <2>2 DEF GenerationInv, Room, HybridContinues
    <2>3. CASE pending' = <<token>> /\ pc' = "pbd"
      <3>1. Len(pending') = 1
        BY <1>3, <2>3
      <3>2. Len(pending') <= 6
        BY <3>1
      <3> QED BY <1>1, <2>1, <2>3, <3>2 DEF Room
    <2> QED BY <1>2, <2>2, <2>3
  <1>13. Stopped'
    BY <1>1, <1>2 DEF Stopped, StopTrue
  <1>14. BoxesKept'
    BY SampleKeepsBoxes
  <1> QED BY <1>7, <1>8, <1>9, <1>10, <1>11, <1>12, <1>13, <1>14 DEF GenerationInv

-----------------------------------------------------------------------------
(* Starting over, slow decoding and the end                                 *)

LEMMA FallBackKeepsInv ==
  ASSUME GenerationInv, FallBack
  PROVE  GenerationInv'
  <1>1. /\ pc \in {"hybrid_done", "hybrid_failed"} /\ response' = <<>> /\ boxes' = <<>>
        /\ history' = Len(request.prompt) /\ request' = request /\ decision' = decision
        /\ call' = call /\ metrics' = metrics /\ stop' = ""
    BY DEF FallBack
  <1>2. outcome' = [mode |-> "slow", dropped |-> Len(response),
                    fallback |-> IF stop = "" THEN "hybrid_failed" ELSE stop]
    BY DEF FallBack
  <1>3. outcome'.mode = "slow" /\ outcome'.fallback # "" /\ outcome'.dropped = Len(response)
    BY <1>2
  <1>4. /\ request.mode = "hybrid" /\ outcome.dropped = 0
    BY <1>1 DEF GenerationInv, Phase, Hybrid
  <1>5. <<>> \in Seq(Tokens) /\ Len(<<>>) = 0
    OBVIOUS
  <1>6. \/ /\ pc' = "slow" /\ generated' = request.prompt /\ pending' = <<>>
           /\ cache' = [t \in Tensors |-> request.prompt] /\ context' = request.prompt
        \/ pc' = "failed" /\ UNCHANGED <<cache, context, generated, pending>>
    BY PrefillReadsLastRow DEF GenerationInv, FallBack, Seed
  <1>7. /\ request.prompt \in Seq(Tokens) /\ Len(request.prompt) \in 1 .. CacheLen
        /\ CacheLen \in Nat /\ request.max \in Nat
    BY RequestGiven DEF GenerationInv
  <1>8. TypeOK'
    <2>1. history' \in 0 .. CacheLen
      <3>1. \A n \in 1 .. CacheLen : n \in 0 .. CacheLen
        BY <1>7
      <3> QED BY <1>1, <1>7, <3>1, Zenon
    <2>2. cache' \in [Tensors -> Seq(Tokens)]
      BY <1>6, <1>7 DEF GenerationInv, TypeOK
    <2>3. {generated, response, pending, decision, context}' \subseteq Seq(Tokens)
      BY <1>1, <1>5, <1>6, <1>7, Typed DEF GenerationInv
    <2>4. outcome'.mode \in {"hybrid", "slow"} /\ outcome'.dropped \in Nat
      BY <1>3, Typed DEF GenerationInv
    <2>5. pc' \in {"slow", "failed"}
      BY <1>6
    <2> QED BY <1>1, <2>1, <2>2, <2>3, <2>4, <2>5 DEF GenerationInv, TypeOK, Decoding
  <1>9. CacheHoldsText'
    <2>1. CASE pc' = "slow"
      <3>1. Uncommitted' = <<>>
        BY <2>1 DEF Uncommitted
      <3>2. request.prompt \o <<>> = request.prompt
        BY <1>7, TokenNone
      <3> QED BY <1>1, <1>6, <2>1, <3>1, <3>2 DEF CacheHoldsText
    <2>2. CASE pc' = "failed"
      BY <2>2 DEF CacheHoldsText, Decoding
    <2> QED BY <1>6, <2>1, <2>2
  <1>10. LogitsFresh' /\ CallsFit'
    BY <1>1, <1>6 DEF GenerationInv, LogitsFresh, CallsFit
  <1>11. TokensAccounted'
    <2>1. metrics["pbd"] + metrics["ar"] = Len(response)
      BY <1>4, Typed DEF GenerationInv, TokensAccounted
    <2>2. Len(response') = 0
      BY <1>1, <1>5
    <2>3. \A a \in Nat : a = 0 + a
      OBVIOUS
    <2>4. metrics["pbd"] + metrics["ar"] = 0 + Len(response)
      BY <2>1, <2>3, Typed, Zenon DEF GenerationInv
    <2> QED BY <1>1, <1>3, <2>2, <2>4, Zenon DEF TokensAccounted
  <1>12. Phase' /\ Stopped'
    BY <1>1, <1>3, <1>6 DEF GenerationInv, Phase, Stopped, Hybrid
  <1>13. Room'
    <2>1. Len(response') <= request.max
      <3>1. \A n \in Nat : 0 <= n
        OBVIOUS
      <3> QED BY <1>1, <1>5, <1>7, <3>1, Zenon
    <2>2. Len(pending') <= 6
      BY <1>5, <1>6 DEF GenerationInv, Room
    <2> QED BY <1>1, <1>6, <2>1, <2>2 DEF Room
  <1>14. BoxesKept'
    <2>1. boxes' \in Seq(Seq(Tokens))
      <3>1. <<>> \in Seq(Seq(Tokens))
        OBVIOUS
      <3> QED BY <1>1, <3>1
    <2> QED BY <1>1, <1>3, <2>1 DEF BoxesKept
  <1> QED BY <1>8, <1>9, <1>10, <1>11, <1>12, <1>13, <1>14 DEF GenerationInv

LEMMA HybridReturnsKeepsInv ==
  ASSUME GenerationInv, HybridReturns
  PROVE  GenerationInv'
  <1>1. /\ pc \in {"hybrid_done", "hybrid_failed"}
        /\ pc' = (IF pc = "hybrid_done" THEN "done" ELSE "failed")
        /\ ~(request.protect /\ (pc = "hybrid_failed" \/ stop # "im_end"))
    BY DEF HybridReturns, NeedsFallback
  <1>2. /\ request' = request /\ generated' = generated /\ response' = response
        /\ pending' = pending /\ decision' = decision /\ cache' = cache /\ history' = history
        /\ context' = context /\ call' = call /\ stop' = stop /\ metrics' = metrics
        /\ outcome' = outcome /\ boxes' = boxes
    BY DEF HybridReturns
  <1>3. TypeOK'
    BY <1>1, <1>2 DEF GenerationInv, TypeOK
  <1>4. CacheHoldsText' /\ LogitsFresh' /\ CallsFit' /\ TokensAccounted'
    BY <1>1, <1>2
    DEF GenerationInv, CacheHoldsText, LogitsFresh, CallsFit, TokensAccounted, Decoding
  <1>5. Phase' /\ Room'
    BY <1>1, <1>2 DEF GenerationInv, Phase, Room, Hybrid
  <1>6. Stopped'
    <2>1. CASE pc = "hybrid_done"
      <3>1. StopTrue
        BY <2>1 DEF GenerationInv, Stopped
      <3>2. StopTrue'
        BY <1>2, <3>1 DEF StopTrue
      <3>3. request.protect => stop = "im_end"
        BY <1>1
      <3> QED BY <1>1, <1>2, <2>1, <3>1, <3>2, <3>3 DEF Stopped, StopTrue
    <2>2. CASE pc = "hybrid_failed"
      BY <1>1, <2>2 DEF Stopped
    <2> QED BY <1>1, <2>1, <2>2
  <1>7. BoxesKept'
    <2>1. request.protect => stop = "im_end"
      BY <1>1
    <2>2. stop = "im_end" => ~(pc = "hybrid_done" /\ stop = "repeated_box")
      OBVIOUS
    <2> QED BY <1>2, <2>1, <2>2 DEF GenerationInv, BoxesKept
  <1> QED BY <1>3, <1>4, <1>5, <1>6, <1>7 DEF GenerationInv

LEMMA SlowStopsKeepsInv ==
  ASSUME GenerationInv, SlowStops
  PROVE  GenerationInv'
  <1>1. /\ pc = "slow" /\ pc' = "done" /\ stop' = "max_new_tokens"
        /\ Len(response) >= request.max
    BY DEF SlowStops
  <1>2. /\ request' = request /\ generated' = generated /\ response' = response
        /\ pending' = pending /\ decision' = decision /\ cache' = cache /\ history' = history
        /\ context' = context /\ call' = call /\ metrics' = metrics
        /\ outcome' = outcome /\ boxes' = boxes
    BY DEF SlowStops
  <1>3. outcome.mode = "slow"
    BY <1>1 DEF GenerationInv, Phase
  <1>4. Len(response) = request.max
    BY <1>1, Typed, RequestGiven DEF GenerationInv, Room
  <1>5. TypeOK'
    BY <1>1, <1>2 DEF GenerationInv, TypeOK
  <1>6. CacheHoldsText' /\ LogitsFresh' /\ CallsFit' /\ TokensAccounted'
    BY <1>1, <1>2
    DEF GenerationInv, CacheHoldsText, LogitsFresh, CallsFit, TokensAccounted, Decoding
  <1>7. Phase' /\ Room'
    BY <1>1, <1>2 DEF GenerationInv, Phase, Room, Hybrid
  <1>8. Stopped'
    BY <1>1, <1>2, <1>3, <1>4 DEF Stopped, StopTrue
  <1>9. BoxesKept'
    BY <1>1, <1>2, BoxesStay DEF GenerationInv
  <1> QED BY <1>5, <1>6, <1>7, <1>8, <1>9 DEF GenerationInv

LEMMA SlowSampleKeepsInv ==
  ASSUME GenerationInv, NEW token \in SlowTokens, SlowSample(token)
  PROVE  GenerationInv'
  <1>1. /\ pc = "slow" /\ pc \in Decoding /\ Len(response) < request.max
        /\ Emit(<<token>>) /\ Counted("ar", 1)
        /\ request' = request /\ decision' = decision /\ cache' = cache
        /\ history' = history /\ context' = context /\ call' = call /\ outcome' = outcome
        /\ pending' = pending /\ boxes' = boxes
    BY DEF SlowSample, Decoding
  <1>2. \/ token = kImEnd /\ stop' = "im_end" /\ pc' = "done"
        \/ history >= CacheLen /\ stop' = "cache_limit" /\ pc' = "done"
        \/ history < CacheLen /\ pc' = "slow_commit" /\ stop' = stop
    BY DEF SlowSample
  <1>3. token \in Tokens /\ <<token>> \in Seq(Tokens) /\ Len(<<token>>) = 1
    BY GenerationAssumption, TokenSingle DEF GenerationAssumption
  <1>4. /\ generated = request.prompt \o response /\ outcome.mode = "slow"
        /\ \A t \in Tensors : cache[t] = generated /\ Len(cache[t]) = history
    BY <1>1, TextHeld DEF GenerationInv, Phase
  <1>5. /\ response' \in Seq(Tokens) /\ generated' \in Seq(Tokens)
        /\ response' = response \o <<token>>
        /\ generated' = generated \o <<token>> /\ Len(response') = Len(response) + 1
        /\ generated' = request'.prompt \o response'
    BY <1>1, <1>3, <1>4, EmitExtends DEF GenerationInv
  <1>6. /\ metrics' \in [{"pbd", "ar"} -> Nat]
        /\ metrics'["pbd"] + metrics'["ar"] = metrics["pbd"] + metrics["ar"] + 1
    BY <1>1, CountedAr DEF GenerationInv
  <1>7. TypeOK'
    BY <1>1, <1>2, <1>5, <1>6, Typed DEF GenerationInv, TypeOK, Decoding
  <1>8. CacheHoldsText'
    <2>1. Last(generated') = token
      BY <1>3, <1>5, Typed, TokenLast DEF GenerationInv
    <2>2. pc' \in Decoding => Uncommitted' = <<token>>
      BY <1>2, <2>1 DEF Uncommitted, Decoding
    <2> QED BY <1>1, <1>4, <1>5, <2>2 DEF CacheHoldsText
  <1>9. LogitsFresh' /\ CallsFit'
    BY <1>1, <1>2 DEF GenerationInv, LogitsFresh, CallsFit
  <1>10. TokensAccounted'
    BY <1>1, <1>5, <1>6, StillAccounted DEF GenerationInv
  <1>11. Phase'
    BY <1>1, <1>2, <1>4 DEF GenerationInv, Phase, Hybrid
  <1>12. Room'
    <2>1. Len(response') <= request.max
      BY <1>1, <1>5, Typed, RequestGiven DEF GenerationInv
    <2> QED BY <1>1, <1>2, <2>1 DEF GenerationInv, Room
  <1>13. Stopped'
    <2>1. response' # <<>> /\ Last(response') = token
      BY <1>3, <1>5, Typed, TokenLast DEF GenerationInv
    <2>2. history >= CacheLen => history' = CacheLen
      BY <1>1, Typed, RequestGiven DEF GenerationInv
    <2> QED BY <1>1, <1>2, <1>4, <2>1, <2>2 DEF Stopped, StopTrue
  <1>14. BoxesKept'
    BY <1>1, <1>3, <1>5, BoxesUnderText DEF GenerationInv
  <1> QED BY <1>7, <1>8, <1>9, <1>10, <1>11, <1>12, <1>13, <1>14 DEF GenerationInv

-----------------------------------------------------------------------------
(* The whole call                                                           *)

LEMMA StepKeepsInv == GenerationInv /\ [Next]_vars => GenerationInv'
  <1> SUFFICES ASSUME GenerationInv, [Next]_vars PROVE GenerationInv'
    OBVIOUS
  <1>1. CASE Prefill
    BY <1>1, PrefillKeepsInv
  <1>2. CASE HybridStops
    BY <1>2, HybridStopsKeepsInv
  <1>3. CASE PbdCall
    BY <1>3, PbdCallKeepsInv
  <1>4. ASSUME NEW window \in Windows, Decide(window) PROVE GenerationInv'
    BY <1>4, DecideKeepsInv
  <1>5. CASE Bridge
    BY <1>5, BridgeKeepsInv
  <1>6. ASSUME NEW token \in ArTokens, ArSample(token) PROVE GenerationInv'
    BY <1>6, ArSampleKeepsInv
  <1>7. CASE ArCommit
    BY <1>7, CommitNewestKeepsInv DEF ArCommit
  <1>8. CASE FallBack
    BY <1>8, FallBackKeepsInv
  <1>9. CASE HybridReturns
    BY <1>9, HybridReturnsKeepsInv
  <1>10. ASSUME NEW token \in SlowTokens, SlowSample(token) PROVE GenerationInv'
    BY <1>10, SlowSampleKeepsInv
  <1>11. CASE SlowCommit
    BY <1>11, CommitNewestKeepsInv DEF SlowCommit
  <1>12. CASE SlowStops
    BY <1>12, SlowStopsKeepsInv
  <1>13. CASE UNCHANGED vars
    <2>1. TypeOK' /\ CacheHoldsText' /\ LogitsFresh' /\ CallsFit' /\ TokensAccounted'
      BY <1>13 DEF vars, GenerationInv, TypeOK, CacheHoldsText, Uncommitted, LogitsFresh,
                   CallsFit, TokensAccounted
    <2>2. /\ pc' = pc /\ stop' = stop /\ request' = request /\ outcome' = outcome
          /\ response' = response /\ boxes' = boxes /\ pending' = pending
          /\ decision' = decision /\ history' = history
      BY <1>13 DEF vars
    <2>3. Phase' /\ Room'
      BY <2>2 DEF GenerationInv, Phase, Room
    <2>4. Stopped'
      BY <2>2, Zenon DEF GenerationInv, Stopped, StopTrue
    <2>5. BoxesKept'
      BY <2>2, Zenon DEF GenerationInv, BoxesKept
    <2> QED BY <2>1, <2>3, <2>4, <2>5 DEF GenerationInv
  <1> QED BY <1>1, <1>2, <1>3, <1>4, <1>5, <1>6, <1>7, <1>8, <1>9, <1>10, <1>11, <1>12, <1>13
          DEF Next, Returned

\* The invariant of a call, from its request to its return.
THEOREM GenerationInvariant == Spec => []GenerationInv
<1>1. Init => GenerationInv
  BY InitKeepsInv
<1> QED BY <1>1, StepKeepsInv, PTL DEF Spec

\* Whenever decoding goes on, every cache tensor holds the rows of exactly the
\* accepted text but for what the next call commits.
THEOREM CacheAlwaysHoldsText == Spec => []CacheHoldsText
<1>1. GenerationInv => CacheHoldsText
  BY DEF GenerationInv
<1> QED BY <1>1, GenerationInvariant, PTL

\* Every graph call is one an initialised engine can make, and every token is
\* chosen from the logits behind the newest text.
THEOREM CallsAlwaysSound == Spec => []CallsSound
<1>1. GenerationInv => CallsSound
  BY DEF GenerationInv, CallsSound
<1> QED BY <1>1, GenerationInvariant, PTL

\* The reported metrics count every decoded token, and the reported reason to
\* stop is what happened.
THEOREM AnswerAlwaysAccounted == Spec => []AnswerAccounted
<1>1. GenerationInv => AnswerAccounted
  <2> SUFFICES ASSUME GenerationInv PROVE StopReasonTrue
    BY DEF GenerationInv, AnswerAccounted
  <2>1. pc = "done" => StopTrue /\ stop # "repeated_box"
    BY DEF GenerationInv, Stopped
  <2> QED BY <2>1 DEF StopTrue, StopReasonTrue
<1> QED BY <1>1, GenerationInvariant, PTL

\* A protected answer ended by itself without a repeated box, or was decoded in
\* slow mode from its first token.
THEOREM ProtectedAnswersHold == Spec => []ProtectedAnswer
<1>1. GenerationInv => ProtectedAnswer
  <2> SUFFICES ASSUME GenerationInv, pc = "done", request.protect, request.mode = "hybrid"
               PROVE  IF outcome.mode = "hybrid"
                      THEN /\ stop = "im_end" /\ outcome.fallback = ""
                           /\ \A i, j \in 1 .. Len(boxes) : boxes[i] = boxes[j] => i = j
                      ELSE outcome.fallback # "" /\ boxes = <<>>
    BY DEF ProtectedAnswer
  <2>1. outcome.mode \in {"hybrid", "slow"}
    BY DEF GenerationInv, TypeOK
  <2>2. CASE outcome.mode = "hybrid"
    <3>1. stop = "im_end" /\ outcome.fallback = ""
      BY <2>2 DEF GenerationInv, Stopped, Phase
    <3>2. \A i, j \in 1 .. Len(boxes) : boxes[i] = boxes[j] => i = j
      BY <2>2 DEF GenerationInv, BoxesKept
    <3> QED BY <2>2, <3>1, <3>2
  <2>3. CASE outcome.mode = "slow"
    BY <2>3 DEF GenerationInv, BoxesKept
  <2> QED BY <2>1, <2>2, <2>3
<1> QED BY <1>1, GenerationInvariant, PTL

\* Completing the same text with the same tokens, the tensors are all alike.
LEMMA TensorsAlike ==
  ASSUME GenerationInv, pc \in {"pbd", "bridge", "ar_commit", "slow_commit"}
  PROVE  \A t \in Tensors : cache[t] = cache[1] /\ Len(cache[t]) = history
  <1>1. PICK tail \in Seq(Tokens) : \A t \in Tensors : cache[t] \o tail = generated
    <2>1. pc = "pbd" => \A t \in Tensors : cache[t] \o pending = generated
      BY TextHeld DEF Decoding
    <2>2. pc \in {"ar_commit", "slow_commit"} =>
            \A t \in Tensors : cache[t] \o <<Last(generated)>> = generated
      BY TextHeld DEF Decoding
    <2>3. pc = "bridge" => \A t \in Tensors : cache[t] = generated
      BY TextHeld DEF Decoding
    <2>4. pc = "bridge" => \A t \in Tensors : cache[t] \o <<>> = generated
      BY <2>3, Typed, TokenNone DEF GenerationInv
    <2>5. <<Last(generated)>> \in Seq(Tokens) /\ pending \in Seq(Tokens) /\ <<>> \in Seq(Tokens)
      BY TextHeld, NewestIsToken, TokenSingle, Typed DEF GenerationInv, Decoding
    <2> QED BY <2>1, <2>2, <2>4, <2>5, Zenon
  <1>2. \A t \in Tensors : cache[t] \in Seq(Tokens) /\ Len(cache[t]) = history
    BY TextHeld, Typed DEF GenerationInv, Decoding
  <1>3. 1 \in Tensors
    BY RequestGiven DEF GenerationInv
  <1> QED BY <1>1, <1>2, <1>3, TokenCancelRight

\* No graph is given a cache some of whose tensors a failed commit left behind
\* the others, whatever fails and however decoding goes on.
THEOREM TornCacheIsNeverRead == Spec => TornCacheNeverRead
<1>1. GenerationInv /\ [Next]_vars
        => [call' # call => \A t \in Tensors : cache[t] = cache[1] /\ Len(cache[t]) = call'.past]_vars
  <2> SUFFICES ASSUME GenerationInv, [Next]_vars, call' # call
               PROVE  \A t \in Tensors : cache[t] = cache[1] /\ Len(cache[t]) = call'.past
    OBVIOUS
  <2>1. /\ pc \in {"pbd", "bridge", "ar_commit", "slow_commit"}
        /\ \E graph, tokens : call' = GraphCall(graph, tokens)
    <3>1. CASE PbdCall
      BY <3>1 DEF PbdCall
    <3>2. CASE Bridge
      BY <3>2 DEF Bridge
    <3>3. CASE ArCommit
      BY <3>3 DEF ArCommit, CommitNewest
    <3>4. CASE SlowCommit
      BY <3>4 DEF SlowCommit, CommitNewest
    <3>5. ~Prefill /\ ~HybridStops /\ ~FallBack /\ ~HybridReturns /\ ~SlowStops /\ ~UNCHANGED vars
      BY DEF Prefill, HybridStops, FallBack, HybridReturns, SlowStops, vars
    <3>6. \A x : ~Decide(x) /\ ~ArSample(x) /\ ~SlowSample(x)
      BY DEF Decide, ArSample, SlowSample
    <3> QED BY <3>1, <3>2, <3>3, <3>4, <3>5, <3>6 DEF Next, Returned
  <2>2. call'.past = history
    BY <2>1 DEF GraphCall
  <2> QED BY <2>1, <2>2, TensorsAlike
<1> QED BY <1>1, GenerationInvariant, PTL DEF Spec, TornCacheNeverRead

-----------------------------------------------------------------------------
(* The answer as the caller sees it                                         *)

\* A step that leaves request, answer and mode alone ends the call or is none.
LEMMA AnswerStays ==
  ASSUME request' = request, response' = response, outcome' = outcome,
         pc \notin {"done", "failed"} \/ pc' = pc
  PROVE  [Promised!Next]_(Promised!vars)
  <1>1. UNCHANGED <<[max |-> request.max,
                     restartable |-> request.protect /\ request.mode = "hybrid"],
                    response, request.mode = "hybrid" /\ outcome.mode = "slow">>
    OBVIOUS
  <1>2. CASE pc' = pc \/ pc' \notin {"done", "failed"}
    <2>1. (CASE pc = "done" -> "answer" [] pc = "failed" -> "error" [] OTHER -> "no")'
            = (CASE pc = "done" -> "answer" [] pc = "failed" -> "error" [] OTHER -> "no")
      BY <1>2
    <2> QED BY <1>1, <2>1 DEF Promised!vars
  <1>3. CASE pc \notin {"done", "failed"} /\ pc' \in {"done", "failed"}
    BY <1>1, <1>3 DEF Promised!Next, Promised!End
  <1> QED BY <1>2, <1>3

\* Some tokens more, within the limit.
LEMMA AnswerExtends ==
  ASSUME TypeOK, request' = request, outcome' = outcome, pc \notin {"done", "failed"},
         pc' # "failed", NEW tokens \in Seq(Tokens), Len(tokens) \in 1 .. 6,
         response' = response \o tokens, Len(response') <= request.max
  PROVE  Promised!Extend
  <1>1. UNCHANGED <<[max |-> request.max,
                     restartable |-> request.protect /\ request.mode = "hybrid"],
                    request.mode = "hybrid" /\ outcome.mode = "slow">>
    OBVIOUS
  <1>2. response \in Seq(Tokens)
    BY Typed
  <1>3. \A s, t \in Seq(Tokens) : Len(t) \in 1 .. 6 =>
          Len(s \o t) - Len(s) \in 1 .. 6 /\ SubSeq(s \o t, 1, Len(s)) = s
    OBVIOUS
  <1>4. Len(response') - Len(response) \in 1 .. 6 /\ SubSeq(response', 1, Len(response)) = response
    BY <1>2, <1>3
  <1> QED BY <1>1, <1>4 DEF Promised!Extend, Promised!MostAtOnce

\* A window extends the answer, possibly cut at the limit, or leaves it.
LEMMA DecideIsPromised ==
  ASSUME GenerationInv, GenerationInv', NEW window \in Windows, Decide(window)
  PROVE  [Promised!Next]_(Promised!vars)
  <1> DEFINE d == HandlePattern(window)
  <1>1. Fits(d)
    <2>1. window \in Seq(Tokens) /\ Len(window) = 6
      BY GenerationAssumption DEF GenerationAssumption
    <2> QED BY <2>1, DecisionFits DEF Fits
  <1>2. /\ pc = "decide" /\ request' = request /\ outcome' = outcome /\ Deciding
    BY DEF Decide, Deciding
  <1>3. \/ DecideTerminal(d) \/ DecideRepeated(d) \/ DecideTruncated(d)
        \/ DecideBridge(d) \/ DecideAccept(d)
    BY DEF Decide
  <1>4. Len(response') <= request.max
    BY <1>2 DEF GenerationInv, Room
  <1> HIDE DEF d
  <1>5. CASE DecideTerminal(d) \/ DecideAccept(d)
    <2>1. response' = response \o d.tokens /\ pc' \in {"hybrid_done", "pbd"}
      BY <1>5 DEF DecideTerminal, DecideAccept, Emit
    <2>2. d.tokens \in Seq(Tokens) /\ Len(d.tokens) \in 1 .. 6
      BY <1>1 DEF Fits
    <2>3. Promised!Extend
      BY <1>2, <1>4, <2>1, <2>2, AnswerExtends DEF GenerationInv
    <2> QED BY <2>3 DEF Promised!Next
  <1>6. CASE DecideRepeated(d) \/ DecideBridge(d)
    <2>1. response' = response
      BY <1>6 DEF DecideRepeated, DecideBridge
    <2> QED BY <1>2, <2>1, AnswerStays
  <1>7. CASE DecideTruncated(d)
    <2> DEFINE head == SubSeq(d.tokens, 1, Remaining)
    <2>1. response' = response \o head /\ pc' = "hybrid_done" /\ Len(d.tokens) > Remaining
      BY <1>7 DEF DecideTruncated
    <2>2. Remaining \in 1 .. 6 /\ Remaining \in 0 .. Len(d.tokens)
      <3>1. \A a, b \in Nat, n \in 1 .. 6 :
              a < b /\ n > b - a => b - a \in 1 .. 6 /\ b - a \in 0 .. n
        OBVIOUS
      <3>2. /\ Len(response) \in Nat /\ request.max \in Nat /\ Len(response) < request.max
            /\ Len(d.tokens) \in 1 .. 6 /\ Len(d.tokens) > request.max - Len(response)
        BY <1>1, <1>2, <2>1, DecidingState DEF Remaining, Fits
      <3> QED BY <3>1, <3>2, Zenon DEF Remaining
    <2>3. head \in Seq(Tokens) /\ Len(head) \in 1 .. 6
      BY <1>1, <2>2, TokenPrefix DEF Fits
    <2> HIDE DEF head
    <2>4. Promised!Extend
      BY <1>2, <1>4, <2>1, <2>3, AnswerExtends DEF GenerationInv
    <2> QED BY <2>4 DEF Promised!Next
  <1> QED BY <1>3, <1>5, <1>6, <1>7

\* One sampled token extends the answer.
LEMMA TokenIsPromised ==
  ASSUME GenerationInv, GenerationInv', NEW token \in Tokens, Emit(<<token>>),
         request' = request, outcome' = outcome,
         pc \notin {"done", "failed"}, pc' # "failed"
  PROVE  [Promised!Next]_(Promised!vars)
  <1>1. <<token>> \in Seq(Tokens) /\ Len(<<token>>) \in 1 .. 6
    BY TokenSingle
  <1>2. response' = response \o <<token>> /\ Len(response') <= request.max
    BY DEF Emit, GenerationInv, Room
  <1>3. Promised!Extend
    BY <1>1, <1>2, AnswerExtends DEF GenerationInv
  <1> QED BY <1>3 DEF Promised!Next

\* Only a protected hybrid request starts over, and only once.
LEMMA FallBackIsPromised ==
  ASSUME GenerationInv, FallBack
  PROVE  [Promised!Next]_(Promised!vars)
  <1>1. /\ pc \in {"hybrid_done", "hybrid_failed"} /\ request.protect /\ request' = request
        /\ response' = <<>> /\ outcome'.mode = "slow" /\ pc' \in {"slow", "failed"}
    BY DEF FallBack, NeedsFallback
  <1>2. request.mode = "hybrid" /\ outcome.mode = "hybrid"
    BY <1>1 DEF GenerationInv, Phase, Hybrid
  <1>3. Promised!StartOver
    BY <1>1, <1>2 DEF Promised!StartOver
  <1> QED BY <1>3 DEF Promised!Next

\* For the caller the answer only grows, by one to six tokens at a time and
\* within the limit, until the call ends; a protected hybrid request may drop it
\* once and start over.  Everything between two such events is invisible.
THEOREM AnswerOnlyGrowsOrRestartsOnce == Spec => AnswerGrowsOrRestartsOnce
<1>1. Init => Promised!Init
  <2> SUFFICES ASSUME Init PROVE Promised!Init
    OBVIOUS
  <2>1. response = <<>> /\ pc = "prefill" /\ outcome.mode = request.mode
    BY DEF Init
  <2> QED BY <2>1 DEF Promised!Init
<1>2. GenerationInv /\ [Next]_vars => [Promised!Next]_(Promised!vars)
  <2> SUFFICES ASSUME GenerationInv, [Next]_vars PROVE [Promised!Next]_(Promised!vars)
    OBVIOUS
  <2>1. GenerationInv'
    BY StepKeepsInv
  <2>2. CASE Prefill \/ HybridStops \/ PbdCall \/ HybridReturns \/ SlowStops
    <3>1. /\ request' = request /\ response' = response /\ outcome' = outcome
          /\ pc \notin {"done", "failed"}
      BY <2>2 DEF Prefill, HybridStops, PbdCall, HybridReturns, SlowStops
    <3> QED BY <3>1, AnswerStays
  <2>3. CASE ArCommit \/ SlowCommit
    <3>1. /\ request' = request /\ response' = response /\ outcome' = outcome
          /\ pc \notin {"done", "failed"}
      BY <2>3 DEF ArCommit, SlowCommit, CommitNewest
    <3> QED BY <3>1, AnswerStays
  <2>4. ASSUME NEW window \in Windows, Decide(window)
        PROVE  [Promised!Next]_(Promised!vars)
    BY <2>1, <2>4, DecideIsPromised
  <2>5. CASE Bridge
    <3>1. /\ pc = "bridge" /\ request' = request /\ outcome' = outcome
          /\ \/ response' = response \o decision /\ pc' = "ar"
             \/ response' = response
      BY <2>5 DEF Bridge, Emit
    <3>2. CASE response' = response
      BY <3>1, <3>2, AnswerStays
    <3>3. CASE response' = response \o decision /\ pc' = "ar"
      <4>1. decision \in Seq(Tokens) /\ Len(decision) \in 1 .. 5
        BY <3>1, Typed DEF GenerationInv, Room
      <4>2. \A n \in 1 .. 5 : n \in 1 .. 6
        OBVIOUS
      <4>3. Len(decision) \in 1 .. 6
        BY <4>1, <4>2, Zenon
      <4>4. Len(response') <= request.max
        BY <2>1, <3>1 DEF GenerationInv, Room
      <4>5. Promised!Extend
        BY <3>1, <3>3, <4>1, <4>3, <4>4, AnswerExtends DEF GenerationInv
      <4> QED BY <4>5 DEF Promised!Next
    <3> QED BY <3>1, <3>2, <3>3
  <2>6. ASSUME NEW token \in ArTokens, ArSample(token)
        PROVE  [Promised!Next]_(Promised!vars)
    <3>1. /\ Emit(<<token>>) /\ request' = request /\ outcome' = outcome
          /\ pc = "ar" /\ pc' \in {"hybrid_done", "pbd", "ar_commit"}
      BY <2>6 DEF ArSample
    <3>2. token \in Tokens
      BY GenerationAssumption DEF GenerationAssumption
    <3> QED BY <2>1, <3>1, <3>2, TokenIsPromised
  <2>7. CASE FallBack
    BY <2>7, FallBackIsPromised
  <2>8. ASSUME NEW token \in SlowTokens, SlowSample(token)
        PROVE  [Promised!Next]_(Promised!vars)
    <3>1. /\ Emit(<<token>>) /\ request' = request /\ outcome' = outcome
          /\ pc = "slow" /\ pc' \in {"done", "slow_commit"}
      BY <2>8 DEF SlowSample
    <3>2. token \in Tokens
      BY GenerationAssumption DEF GenerationAssumption
    <3> QED BY <2>1, <3>1, <3>2, TokenIsPromised
  <2>9. CASE UNCHANGED vars
    <3>1. request' = request /\ response' = response /\ outcome' = outcome /\ pc' = pc
      BY <2>9 DEF vars
    <3> QED BY <3>1, AnswerStays
  <2> QED BY <2>2, <2>3, <2>4, <2>5, <2>6, <2>7, <2>8, <2>9 DEF Next, Returned
<1> QED BY <1>1, <1>2, GenerationInvariant, PTL DEF Spec, AnswerGrowsOrRestartsOnce, Promised!Spec
===============================================================================
