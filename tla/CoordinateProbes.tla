--------------------------- MODULE CoordinateProbes ---------------------------
(* The coordinate audit of one saved response: the boxes it finds in it, the  *)
(* batches it re-decides them in, each box with its own history, and the      *)
(* comparison of what is decided.  The runs of the model are those of         *)
(* AuditSession; here every pair of outcomes may come back.                   *)
EXTENDS DetectionTokens, FiniteSets

CONSTANTS
  Responses,   \* token sequences of hybrid answers
  Prompts,     \* prompt lengths
  LastOfPrompt,
  QueryLen, CacheLen, BatchSize,
  Outcomes,    \* [reference, candidate]: coordinate values decided
  PositionBase \* 21000 - 20000 in the code

VARIABLES
  pc,
  response, promptLen,
  probes,
  inputs,      \* of the batch being decided
  decisions

vars == <<pc, response, promptLen, probes, inputs, decisions>>

------------------------------------------------------------------------------
Offsets == {offset \in DOMAIN response : response[offset] = kBoxStart}
Window(offset) == SubSeq(response, offset, IF offset + 5 <= Len(response) THEN offset + 5
                                           ELSE Len(response))

(* _coordinate_values, of the tokens first .. last of a window.               *)
Coordinates(window, first, last) ==
  IF \A i \in first .. last : IsCoordinateToken(window[i])
  THEN [i \in 1 .. last - first + 1 |-> window[first + i - 1] - kCoordStart] ELSE <<>>

Group(kind, tokens, coordinates) ==
  [kind |-> kind, tokens |-> tokens, coordinates |-> coordinates]

(* The branches of extract_coordinate_probes.                                 *)
SourceGroup(w) ==
  LET four == Coordinates(w, 2, 5)
      two == Coordinates(w, 2, 3)
  IN IF Len(w) >= 3 /\ w[2] = kNone /\ w[3] = kBoxEnd
     THEN Group("empty", SubSeq(w, 1, 3), <<>>)
     ELSE IF Len(w) >= 6 /\ w[6] = kBoxEnd
     THEN IF four # <<>> THEN Group("box", w, four) ELSE Group("invalid", w, <<>>)
     ELSE IF Len(w) >= 4 /\ w[4] = kBoxEnd /\ two # <<>>
     THEN Group("point", SubSeq(w, 1, 4), two)
     ELSE Group("invalid", w, <<>>)

Probe(offset, index) ==
  [index |-> index, offset |-> offset - 1, source |-> SourceGroup(Window(offset)),
   anchor |-> IF offset = 1 THEN LastOfPrompt ELSE response[offset - 1]]

Probes ==
  LET place(offset) == Cardinality({other \in Offsets : other <= offset})
  IN [i \in 1 .. Cardinality(Offsets) |->
        Probe(CHOOSE offset \in Offsets : place(offset) = i, i - 1)]

------------------------------------------------------------------------------
\* Mutant: histories start at the left edge of the batch.
LeftAligned(past, width) ==
  [column \in 1 .. width |-> IF column <= past THEN column - 1 ELSE -1]

(* _prefix_caches: which text position each cache column holds, -1 for none.  *)
PrefixCache(past, width) ==
  [column \in 1 .. width |-> IF column > width - past THEN column - (width - past) - 1
                             ELSE -1]

(* The model drops as many columns in front as it adds rows behind.           *)
SeenColumns(cache, width) ==
  [column \in 1 .. width |->
     IF column <= width - QueryLen THEN [row |-> -1, text |-> cache[column + QueryLen]]
     ELSE [row |-> column - (width - QueryLen) - 1, text |-> -1]]

(* _pbd_inputs: the columns a row of a probe attends to.                      *)
Attended(past, width) ==
  ((width - QueryLen - past + 1) .. width) \ {width - QueryLen}

Positions(past) == [row \in 0 .. QueryLen - 1 |-> past + row - 1]

Batch == SubSeq(probes, Len(decisions) + 1,
                IF Len(decisions) + BatchSize <= Len(probes)
                THEN Len(decisions) + BatchSize ELSE Len(probes))

PastLen(probe) == promptLen + probe.offset

BatchInputs(batch) ==
  LET longest == CHOOSE past \in {PastLen(batch[i]) : i \in DOMAIN batch} :
                   \A i \in DOMAIN batch : PastLen(batch[i]) <= past
      width == longest + QueryLen
  IN [i \in DOMAIN batch |->
        [past |-> PastLen(batch[i]), anchor |-> batch[i].anchor,
         positions |-> Positions(PastLen(batch[i])),
         attended |-> Attended(PastLen(batch[i]), width),
         columns |-> SeenColumns(PrefixCache(PastLen(batch[i]), width), width)]]

------------------------------------------------------------------------------
(* _box_iou as a fraction.                                                    *)
Side(low, high) == IF high > low THEN high - low ELSE 0
Smaller(a, b) == IF a < b THEN a ELSE b
Larger(a, b) == IF a < b THEN b ELSE a

Overlap(a, b) == Side(Larger(a[1], b[1]), Smaller(a[3], b[3]))
                 * Side(Larger(a[2], b[2]), Smaller(a[4], b[4]))
Area(a) == Side(a[1], a[3]) * Side(a[2], a[4])

BoxIou(a, b) ==
  LET union == Area(a) + Area(b) - Overlap(a, b)
  IN IF union # 0 THEN [num |-> Overlap(a, b), den |-> union]
     ELSE [num |-> IF a = b THEN 1 ELSE 0, den |-> 1]

(* compare_decoded_coordinates, of the values alone; none if they cannot be   *)
(* compared.                                                                  *)
Comparison(reference, candidate) ==
  IF reference = <<>> \/ Len(reference) # Len(candidate) THEN {}
  ELSE {[exact |-> reference = candidate,
         maxAbs |-> CHOOSE e \in {Larger(reference[i] - candidate[i], candidate[i] - reference[i])
                                  : i \in DOMAIN reference} :
                      \A i \in DOMAIN reference :
                        e >= reference[i] - candidate[i] /\ e >= candidate[i] - reference[i],
         iou |-> IF Len(reference) = 4 THEN {BoxIou(reference, candidate)} ELSE {}]}

(* coordinate_metric_rows: the numbers rows are filed under.                  *)
DecisionRow(decision) == decision.index
PositionRows(decision) ==
  {PositionBase + decision.index * 4 + position - 1 :
     position \in 1 .. Len(decision.source.coordinates)}

------------------------------------------------------------------------------
Init ==
  /\ pc = "extract" /\ response \in Responses /\ promptLen \in Prompts
  /\ probes = <<>> /\ inputs = <<>> /\ decisions = <<>>

Extract ==
  /\ pc = "extract"
  /\ probes' = Probes
  /\ pc' = IF Probes = <<>> THEN "done" ELSE "prefill"
  /\ UNCHANGED <<response, promptLen, inputs, decisions>>

HistoryFits == PastLen(probes[Len(probes)]) < CacheLen - QueryLen

Prefill ==
  /\ pc = "prefill"
  /\ pc' = IF HistoryFits THEN "batch" ELSE "raised"
  /\ UNCHANGED <<response, promptLen, probes, inputs, decisions>>

BuildBatch ==
  /\ pc = "batch" /\ Len(decisions) < Len(probes)
  /\ inputs' = BatchInputs(Batch)
  /\ pc' = "decide"
  /\ UNCHANGED <<response, promptLen, probes, decisions>>

Decided(i, outcome) ==
  [index |-> Batch[i].index, source |-> Batch[i].source, outcome |-> outcome,
   comparison |-> Comparison(outcome.reference, outcome.candidate)]

Decide ==
  /\ pc = "decide"
  /\ \E outcomes \in [DOMAIN inputs -> Outcomes] :
       decisions' = decisions \o [i \in DOMAIN inputs |-> Decided(i, outcomes[i])]
  /\ pc' = "batch" /\ inputs' = <<>>
  /\ UNCHANGED <<response, promptLen, probes>>

Finish ==
  /\ pc = "batch" /\ Len(decisions) = Len(probes)
  /\ pc' = "done"
  /\ UNCHANGED <<response, promptLen, probes, inputs, decisions>>

Next == Extract \/ Prefill \/ BuildBatch \/ Decide \/ Finish
Spec == Init /\ [][Next]_vars

------------------------------------------------------------------------------
(* Values of the variables; a history and its block fit the cache.            *)
TypeOK ==
  /\ pc \in {"extract", "prefill", "batch", "decide", "done", "raised"}
  /\ Len(decisions) <= Len(probes) /\ Len(inputs) <= BatchSize
  /\ \A i \in DOMAIN inputs : Len(inputs[i].columns) < CacheLen

(* Every box of the answer is probed, in order and once; a box the decoder    *)
(* would accept is read as just that box, and nothing else is read as one.    *)
ProbesAreTheBoxes ==
  pc \notin {"extract"} =>
    /\ {probes[i].offset + 1 : i \in DOMAIN probes} = Offsets
    /\ \A i \in DOMAIN probes :
         LET source == probes[i].source
             rest == SubSeq(response, probes[i].offset + 1, Len(response))
             complete == {n \in {3, 4, 6} : n <= Len(rest)
                                            /\ IsCompleteDetectionBox(SubSeq(rest, 1, n))}
         IN /\ i < Len(probes) => probes[i].offset < probes[i + 1].offset
            /\ (source.kind # "invalid") = (complete # {})
            /\ complete # {} => source.tokens = SubSeq(rest, 1, Len(source.tokens))
                                /\ Len(source.tokens) \in complete

(* Whatever else is in its batch, a row of a probe sees the text in front of  *)
(* its box and the block, every position of them once, and no padding.        *)
EachSeesItsHistoryOnce ==
  \A i \in DOMAIN inputs :
    LET input == inputs[i]
        At(column) == LET seen == input.columns[column]
                      IN IF seen.row >= 0 THEN input.positions[seen.row] ELSE seen.text
    IN /\ {At(column) : column \in input.attended} = 0 .. input.past + QueryLen - 2
       /\ Cardinality(input.attended) = input.past + QueryLen - 1

(* The comparison of two decisions is exact where they are the same, and only *)
(* there is the overlap whole.                                                *)
ComparisonSound ==
  \A i \in DOMAIN decisions : \A comparison \in decisions[i].comparison :
    /\ comparison.exact <=> comparison.maxAbs = 0
    /\ \A iou \in comparison.iou :
         /\ iou.num >= 0 /\ iou.num <= iou.den
         /\ comparison.exact <=> iou.num = iou.den

(* Each probe is decided once, and no two rows of the report share a number.  *)
RowsDistinct ==
  pc = "done" =>
    /\ Len(decisions) = Len(probes)
    /\ \A i, j \in DOMAIN decisions :
         /\ DecisionRow(decisions[i]) \notin PositionRows(decisions[j])
         /\ i # j => /\ DecisionRow(decisions[i]) # DecisionRow(decisions[j])
                     /\ PositionRows(decisions[i]) \cap PositionRows(decisions[j]) = {}
(* Boxes are found, shown to both models and compared one by one, whatever    *)
(* shares their answer and their batch.                                       *)
ProbesFaithful ==
  /\ TypeOK /\ ProbesAreTheBoxes /\ EachSeesItsHistoryOnce
  /\ ComparisonSound /\ RowsDistinct
==============================================================================
