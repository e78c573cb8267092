-------------------------- MODULE CoordinateDecoding --------------------------
(* pipeline/coordinates.py decodes a PBD window for its audit and, where the  *)
(* window leaves a box unfinished, finishes it token by token.  The runtime   *)
(* decodes the same window in HybridDecoder; ties in a row are broken alike.  *)
EXTENDS HybridDecoder

CONSTANTS
  Choices,      \* tokens the model may prefer in a fallback step
  MaxNewTokens, \* AR_FALLBACK_MAX_NEW_TOKENS
  Past          \* tokens in the cache before the box

ASSUME AuditAssumption ==
  Choices \subseteq Tokens /\ MaxNewTokens \in Nat \ {0} /\ Past \in Nat

VARIABLES
  pc,
  audit,       \* decision of the audit
  resolved,    \* tokens of the fallback
  fed,         \* tokens run through the model: [token, position]
  cached,      \* rows of the history caches
  termination

auditVars == <<window, decision, pc, audit, resolved, fed, cached, termination>>

------------------------------------------------------------------------------
(* top_ids: the ranks of a row that the nucleus kept; -1 entries left out.    *)
Kept(row, count) == {k \in 1 .. count : Ranked(row, k) \in DOMAIN row}

AuditEmptyBox(w) ==
  /\ Prob(w[0], kBoxStart) >= 70 /\ Prob(w[1], kNone) > 20 /\ Prob(w[2], kBoxEnd) > 20
  /\ Prob(w[3], kNull) > 10 /\ Prob(w[4], kNull) > 10

AuditValid(row) == {k \in Kept(row, 4) : IsCoordinateToken(Ranked(row, k))}

AuditAbnormal(row) ==
  LET valid == AuditValid(row)
  IN Prob(row, BestOf(row, valid)) < 90 /\ \E i, j \in valid : Ranked(row, i) - Ranked(row, j) > 60

AuditLegalBox(w) ==
  EndScore(w) >= 20 /\ \A row \in 1 .. 4 : AuditValid(w[row]) # {}

AuditText(row) == {k \in Kept(row, 5) : ~IsCoordinateToken(Ranked(row, k))}

AuditRef(w) ==
  Prob(w[0], kRefStart) >= 60 /\ \A row \in 1 .. 5 : AuditText(w[row]) # {}

\* Mutant: the token that breaks a box off is accepted with it.
AuditPatternFurther(tokens) ==
  LET pattern == HandlePattern(tokens)
  IN [pattern EXCEPT !.tokens = IF pattern.switch_to_ar
                                THEN SubSeq(tokens, 1, Len(@) + 1) ELSE @]

(* _handle_pattern, which is the runtime's rule.                              *)
AuditPattern(tokens) == HandlePattern(tokens)

(* _decode_one.                                                               *)
AuditTokens(w) ==
  IF AuditEmptyBox(w) THEN <<kBoxStart, kNone, kBoxEnd, kNull, kNull, kNull>>
  ELSE IF AuditLegalBox(w)
  THEN <<kBoxStart>>
       \o [row \in 1 .. 4 |-> IF AuditAbnormal(w[row]) THEN 0
                              ELSE BestOf(w[row], AuditValid(w[row]))]
       \o <<kBoxEnd>>
  ELSE IF AuditRef(w)
  THEN <<kRefStart>> \o [row \in 1 .. 5 |-> BestOf(w[row], AuditText(w[row]))]
  ELSE [i \in 1 .. 6 |-> BestOf(w[i - 1], Kept(w[i - 1], 1))]

AuditDecision(w) == AuditPattern(AuditTokens(w))

(* A row whose logits are not finite covers no mass; _nucleus_summary raises. *)
Summarised(w) == \A row \in 0 .. 5 : DOMAIN w[row] # {}

------------------------------------------------------------------------------
NoDecision == Decision("none", <<>>, FALSE, FALSE)
Prefix == audit.tokens
StepsTaken == Len(resolved) - Len(Prefix)

AuditInit ==
  /\ DecoderInit
  /\ pc = "decode" /\ audit = NoDecision /\ resolved = <<>> /\ fed = <<>>
  /\ cached = Past /\ termination = ""

DecodeWindow ==
  /\ pc = "decode"
  /\ decision' = <<DecodePbd(window)>>
  /\ IF Summarised(window)
     THEN /\ audit' = AuditDecision(window)
          /\ pc' = IF audit'.switch_to_ar THEN "replay" ELSE "done"
          /\ resolved' = audit'.tokens
     ELSE pc' = "raised" /\ UNCHANGED <<audit, resolved>>
  /\ UNCHANGED <<window, fed, cached, termination>>

(* _run_ar_token.                                                             *)
Feed(token) ==
  /\ fed' = Append(fed, [token |-> token, position |-> cached])
  /\ cached' = cached + 1

ReplayPrefix ==
  /\ pc = "replay"
  /\ Feed(Prefix[Len(fed) + 1])
  /\ pc' = IF Len(fed) + 1 = Len(Prefix) THEN "select" ELSE "replay"
  /\ UNCHANGED <<window, decision, audit, resolved, termination>>

Stops(token) ==
  IF token = kBoxEnd THEN "box_end"
  ELSE IF IsCoordinateToken(token) \/ token = kNone THEN ""
  ELSE "non_coordinate"

SelectToken ==
  /\ pc = "select"
  /\ \E token \in Choices :
       /\ resolved' = Append(resolved, token)
       /\ termination' = Stops(token)
  /\ pc' = IF termination' = "" THEN "feed" ELSE "resolve"
  /\ UNCHANGED <<window, decision, audit, fed, cached>>

FeedSelected ==
  /\ pc = "feed" /\ Feed(resolved[Len(resolved)])
  /\ IF StepsTaken < MaxNewTokens THEN pc' = "select" /\ termination' = ""
     ELSE pc' = "resolve" /\ termination' = "max_new_tokens"
  /\ UNCHANGED <<window, decision, audit, resolved>>

Padded == [i \in 1 .. 6 |-> IF i <= Len(resolved) THEN resolved[i] ELSE kNull]

ResolveBox ==
  /\ pc = "resolve"
  /\ resolved' = AuditPattern(Padded).tokens
  /\ pc' = "resolved"
  /\ UNCHANGED <<window, decision, audit, fed, cached, termination>>

AuditNext == DecodeWindow \/ ReplayPrefix \/ SelectToken \/ FeedSelected \/ ResolveBox

AuditSpec == AuditInit /\ [][AuditNext]_auditVars

------------------------------------------------------------------------------
(* Values of the variables.                                                   *)
AuditTypeOK ==
  /\ pc \in {"decode", "replay", "select", "feed", "resolve", "resolved", "done", "raised"}
  /\ termination \in {"", "box_end", "non_coordinate", "max_new_tokens"}
  /\ cached = Past + Len(fed)
  /\ pc \in {"replay", "select", "feed", "resolve"} => audit.switch_to_ar

(* An unfinished box leaves a start and coordinates: the fallback always has  *)
(* tokens to replay before it asks for logits.                                *)
FallbackHasPrefix ==
  pc = "replay" /\ fed = <<>> =>
    /\ Len(Prefix) \in 1 .. 5 /\ Prefix[1] = kBoxStart
    /\ \A i \in 2 .. Len(Prefix) : IsCoordinateToken(Prefix[i])
    /\ Prefix = SubSeq(AuditTokens(window), 1, Len(Prefix))

(* Every token is run once, in order, at its own place in the text; what the  *)
(* next logits are computed from is the whole text, the last token included.  *)
HistoryIsText ==
  /\ pc # "resolved" =>
       \A i \in DOMAIN fed : fed[i].token = resolved[i] /\ fed[i].position = Past + i - 1
  /\ pc = "select" => Len(fed) = Len(resolved)

(* A box or a point that the fallback resolves was closed by the model and    *)
(* keeps the coordinates the window was sure of.                              *)
ResolvedBoxClosed ==
  pc = "resolved" =>
    LET kind == HandlePattern(resolved).type
    IN /\ kind \in {"coord_box", "point_box"} /\ Len(resolved) > 3
            => termination = "box_end" /\ IsCompleteDetectionBox(resolved)
       /\ \A i \in DOMAIN Prefix : i <= Len(resolved) => resolved[i] = Prefix[i]

(* Where the audit and the runtime decide differently, it is for one of two   *)
(* reasons: an empty box whose start is between the two thresholds, or a      *)
(* reference with a row of which the nucleus kept coordinates alone.          *)
DiffersOnlyWhere ==
  pc \in {"replay", "done"} /\ fed = <<>> /\ audit # Result =>
    \/ Prob(window[0], kBoxStart) \in 60 .. 69 /\ IsEmptyBox(window)
    \/ IsRef(window) /\ \E row \in 1 .. 5 : \A token \in DOMAIN window[row] :
                                              IsCoordinateToken(token)

(* The audit's decoding of a box, in the window or token by token, is         *)
(* deployment's but for those differences.                                    *)
FallbackSound ==
  /\ AuditTypeOK /\ FallbackHasPrefix /\ HistoryIsText
  /\ ResolvedBoxClosed /\ DiffersOnlyWhere
==============================================================================
