-------------------------- MODULE MCProbeResponses ---------------------------
(* Answers of up to three groups, the last one possibly cut off, and pairs of *)
(* outcomes with inverted, empty and overlapping boxes.                       *)
EXTENDS DetectionTokens

P(n) == kCoordStart + n
Groups == {<<kBoxStart, kNone, kBoxEnd>>, <<kBoxStart, P(1), P(2), kBoxEnd>>,
           <<kBoxStart, P(0), P(1), P(9), P(1000), kBoxEnd>>, <<kRefStart, 9707, kRefEnd>>}
Tails == {<<>>, <<kImEnd>>, <<kBoxStart>>, <<kBoxStart, P(1), P(2)>>,
          <<kBoxStart, P(1), P(2), P(3), kBoxEnd>>, <<kBoxStart, 9707, kBoxEnd, kImEnd>>}
Responses == {a \o b \o c : a \in Groups, b \in Groups \cup {<<>>}, c \in Tails}
               \cup {<<9707, kImEnd>>}

Pair(reference, candidate) == [reference |-> reference, candidate |-> candidate]
Outcomes == {Pair(<<>>, <<1, 2>>), Pair(<<2, 2, 8, 8>>, <<9, 9, 1, 1>>),
               Pair(<<5, 5, 5, 9>>, <<5, 5, 5, 9>>), Pair(<<0, 0, 4, 4>>, <<2, 1, 6, 4>>),
               Pair(<<3, 4>>, <<3, 4>>), Pair(<<5, 5, 2, 2>>, <<4, 4, 1, 1>>)}
==============================================================================
