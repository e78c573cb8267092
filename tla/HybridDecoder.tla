---------------------------- MODULE HybridDecoder ----------------------------
(***************************************************************************)
(* The host decision on one PBD window (DecodePbd): six rows of nucleus-   *)
(* filtered probabilities are recognised as a box, as a reference or as    *)
(* neither, and the candidate tokens become a decision that is accepted,   *)
(* completed autoregressively or ends the answer.                          *)
(*                                                                         *)
(* A row is a function from the tokens the nucleus kept to their           *)
(* probabilities in percent; every other token of the vocabulary has       *)
(* probability zero.  An empty row is what NucleusSoftmax leaves of logits *)
(* whose total is not finite.  Rows are numbered 0 .. 5 as in the code.    *)
(* The logits are of the graph's shape and the configuration in range: of  *)
(* others DecodePbd makes an end of the answer.                            *)
(***************************************************************************)
EXTENDS DetectionTokens, FiniteSets

CONSTANT Windows  \* the windows decided: functions from 0 .. 5 to rows

\* What a window is: at most the mass of one distribution, on finitely many
\* tokens, in every row.
ASSUME WindowsAssumption ==
  \A w \in Windows : DOMAIN w = 0 .. 5 /\
    \A row \in 0 .. 5 :
      /\ IsFiniteSet(DOMAIN w[row]) /\ DOMAIN w[row] \subseteq Tokens
      /\ \A token \in DOMAIN w[row] : w[row][token] \in 1 .. 100

VARIABLES
  window,   \* the six rows being decided
  decision  \* <<>> until DecodePbd returns, then <<its decision>>

decoderVars == <<window, decision>>

-----------------------------------------------------------------------------
Prob(row, token) == IF token \in DOMAIN row THEN row[token] ELSE 0

\* The order of TopK: by falling probability, ties by token id.
Before(row, l, r) ==
  Prob(row, l) > Prob(row, r) \/ (Prob(row, l) = Prob(row, r) /\ l < r)

\* The five best tokens of a row are here: where fewer have a probability, the
\* lowest ids of the rest follow.
Pool(row) == DOMAIN row \cup 0 .. 4

\* The k-th token of TopK, for the counts of at most five it is called with.
Ranked(row, k) ==
  LET pool == Pool(row)
  IN CHOOSE token \in pool : Cardinality({other \in pool : Before(row, other, token)}) = k - 1

\* Argmax: the first index with the largest probability.
Greedy(row) == Ranked(row, 1)

\* The best of a row's tokens at some ranks.
First(ranks) == CHOOSE k \in ranks : \A other \in ranks : k <= other
BestOf(row, ranks) == Ranked(row, First(ranks))

EndScore(w) == Prob(w[5], kBoxEnd) + Prob(w[5], kNull) + Prob(w[5], kImEnd)

\* The ranks of a row's coordinate candidates.
Valid(row) == {k \in 1 .. 4 : IsCoordinateToken(Ranked(row, k))}

\* An unsure row whose candidates lie far apart.
Abnormal(row) ==
  LET valid == Valid(row)
  IN Prob(row, BestOf(row, valid)) < 90 /\ \E i, j \in valid : Ranked(row, i) - Ranked(row, j) > 60

\* Mutant: an unsure coordinate is taken all the same.
CoordinateBest(row) == BestOf(row, Valid(row))

Coordinate(row) == IF Abnormal(row) THEN 0 ELSE BestOf(row, Valid(row))

-----------------------------------------------------------------------------
\* The two patterns DecodeBox accepts, and the tokens it returns for each.
IsEmptyBox(w) ==
  /\ Prob(w[0], kBoxStart) >= 60 /\ Prob(w[1], kNone) > 20 /\ Prob(w[2], kBoxEnd) > 20
  /\ Prob(w[3], kNull) > 10 /\ Prob(w[4], kNull) > 10

IsBox(w) == EndScore(w) >= 20 /\ \A row \in 1 .. 4 : Valid(w[row]) # {}

DecodeBox(w) ==
  IF IsEmptyBox(w) THEN <<kBoxStart, kNone, kBoxEnd, kNull, kNull, kNull>>
  ELSE <<kBoxStart>> \o [row \in 1 .. 4 |-> Coordinate(w[row])] \o <<kBoxEnd>>

\* DecodeRef: the best candidate of each row that is no coordinate.
TextCandidates(row) == {k \in 1 .. 5 : ~IsCoordinateToken(Ranked(row, k))}

IsRef(w) == Prob(w[0], kRefStart) >= 60 /\ \A row \in 1 .. 5 : TextCandidates(w[row]) # {}

DecodeRef(w) ==
  <<kRefStart>> \o [row \in 1 .. 5 |-> BestOf(w[row], TextCandidates(w[row]))]

GreedyTokens(w) == [i \in 1 .. 6 |-> Greedy(w[i - 1])]

Candidates(w) ==
  IF IsEmptyBox(w) \/ IsBox(w) THEN DecodeBox(w)
  ELSE IF IsRef(w) THEN DecodeRef(w)
  ELSE GreedyTokens(w)

DecodePbd(w) == HandlePattern(Candidates(w))

-----------------------------------------------------------------------------
DecoderInit == window \in Windows /\ decision = <<>>

Decide ==
  /\ decision = <<>>
  /\ decision' = <<DecodePbd(window)>>
  /\ UNCHANGED window

DecoderSpec == DecoderInit /\ [][Decide]_decoderVars

-----------------------------------------------------------------------------
Decided == decision # <<>>
Result == decision[1]

DecoderTypeOK ==
  /\ DOMAIN window = 0 .. 5
  /\ Decided => /\ Result.type \in {"im_end", "empty_box", "coord_box", "point_box",
                                    "error_box", "ref_object"}
                /\ Result.tokens \in Seq(Tokens)
                /\ Result.switch_to_ar \in BOOLEAN /\ Result.terminal \in BOOLEAN

\* What the generation loop needs of every decision: one to six tokens, none of
\* them padding; an answer that ends adds only its end token; and what starts a
\* box is either complete or handed to autoregressive decoding as a start that
\* coordinates and an end can still complete, in one of the decode_ar graphs.
DecisionUsable ==
  Decided =>
    /\ Len(Result.tokens) \in 1 .. 6
    /\ \A i \in 1 .. Len(Result.tokens) : Result.tokens[i] # kNull
    /\ Result.terminal => Result.tokens = <<kImEnd>>
    /\ Result.tokens[1] = kBoxStart =>
         IF Result.switch_to_ar
         THEN Len(Result.tokens) <= 5 /\
              \A i \in 2 .. Len(Result.tokens) : IsCoordinateToken(Result.tokens[i])
         ELSE IsCompleteDetectionBox(Result.tokens)
    /\ Result.switch_to_ar => Result.tokens[1] = kBoxStart

\* A window never ends the answer when its rows carry a box or a reference,
\* however likely the end token is in them: the answer ends only where the
\* first row, decoded alone, says so.
EndsOnlyAtFirstRow ==
  Decided /\ Result.terminal =>
    /\ Greedy(window[0]) \in {kNull, kImEnd}
    /\ ~IsEmptyBox(window) /\ ~IsBox(window) /\ ~IsRef(window)

\* A coordinate the window is unsure of, its candidates far apart, is decided
\* by autoregressive decoding: no box is accepted with it or with anything
\* behind it.
UnsureCoordinatesRedone ==
  Decided /\ IsBox(window) /\ ~IsEmptyBox(window) =>
    \A row \in 1 .. 4 : Abnormal(window[row]) =>
      Result.switch_to_ar /\ Len(Result.tokens) <= row

\* Every decision is one the generation loop can use.
DecisionSound ==
  DecoderTypeOK /\ DecisionUsable /\ EndsOnlyAtFirstRow /\ UnsureCoordinatesRedone
=============================================================================
