--------------------------- MODULE DetectionTokens ---------------------------
(***************************************************************************)
(* The token vocabulary of LocateAnything's detection markup, the rule     *)
(* that turns six candidate tokens into a decision (HandlePattern), and    *)
(* the recognisers of complete and repeated boxes.  Token sequences are    *)
(* 1-based here, 0-based in the code.                                      *)
(***************************************************************************)
EXTENDS Integers, Sequences

kVocab      == 152681
kImEnd      == 151645
kBoxStart   == 151668
kBoxEnd     == 151669
kRefStart   == 151672
kRefEnd     == 151673
kTextMask   == 151676
kCoordStart == 151677
kCoordEnd   == 152677
kNull       == 152678
kNone       == 4064

Tokens == 0 .. kVocab - 1

IsCoordinateToken(token) == kCoordStart <= token /\ token <= kCoordEnd

Last(s) == s[Len(s)]

\* The longest prefix length n <= limit of s all of whose tokens satisfy Good.
LeadingRun(s, limit, Good(_)) ==
  CHOOSE n \in 0 .. limit :
    /\ n <= Len(s) /\ \A i \in 1 .. n : Good(s[i])
    /\ n = limit \/ n = Len(s) \/ ~Good(s[n + 1])

-----------------------------------------------------------------------------
Decision(type, tokens, switch, terminal) ==
  [type |-> type, tokens |-> tokens, switch_to_ar |-> switch, terminal |-> terminal]

ImEndDecision == Decision("im_end", <<kImEnd>>, FALSE, TRUE)

\* A pattern that begins with a box start and not with an empty box.
BoxDecision(tokens) ==
  LET count == 1 + LeadingRun(Tail(tokens), 4, IsCoordinateToken)
  IN IF count = 5 /\ Len(tokens) >= 6 /\ tokens[6] = kBoxEnd
     THEN Decision("coord_box", SubSeq(tokens, 1, 6), FALSE, FALSE)
     ELSE IF count = 3 /\ Len(tokens) >= 4 /\ tokens[4] = kBoxEnd
     THEN Decision("point_box", SubSeq(tokens, 1, 4), FALSE, FALSE)
     ELSE Decision("error_box", SubSeq(tokens, 1, count), TRUE, FALSE)

\* Everything else is text up to the first null; a doubled ref end counts once.
TextDecision(tokens) ==
  LET NotNull(token) == token # kNull
      n == LeadingRun(tokens, Len(tokens), NotNull)
      doubled == n >= 2 /\ tokens[n] = kRefEnd /\ tokens[n - 1] = kRefEnd
  IN Decision("ref_object", SubSeq(tokens, 1, IF doubled THEN n - 1 ELSE n), FALSE, FALSE)

HandlePattern(tokens) ==
  IF tokens = <<>> \/ tokens[1] \in {kNull, kImEnd} THEN ImEndDecision
  ELSE IF tokens[1] # kBoxStart THEN TextDecision(tokens)
  ELSE IF Len(tokens) >= 2 /\ tokens[2] = kNone
       THEN Decision("empty_box", <<kBoxStart, kNone, kBoxEnd>>, FALSE, FALSE)
       ELSE BoxDecision(tokens)

-----------------------------------------------------------------------------
\* An empty, a point or a rectangle box, from its start to its end token.
IsCompleteDetectionBox(tokens) ==
  /\ Len(tokens) \in {3, 4, 6}
  /\ tokens[1] = kBoxStart
  /\ Last(tokens) = kBoxEnd
  /\ IF Len(tokens) = 3 THEN tokens[2] = kNone
     ELSE \A i \in 2 .. Len(tokens) - 1 : IsCoordinateToken(tokens[i])

\* std::search: the candidate occurs somewhere in s.
Occurs(candidate, s) ==
  \E i \in 0 .. Len(s) - Len(candidate) :
    SubSeq(s, i + 1, i + Len(candidate)) = candidate

HasRepeatedDetectionBox(response, candidate) ==
  IsCompleteDetectionBox(candidate) /\ Occurs(candidate, response)

HasRepeatedTrailingDetectionBox(response) ==
  \E n \in {3, 4, 6} :
    /\ n <= Len(response)
    /\ LET candidate == SubSeq(response, Len(response) - n + 1, Len(response))
       IN /\ IsCompleteDetectionBox(candidate)
          /\ Occurs(candidate, SubSeq(response, 1, Len(response) - n))
=============================================================================
