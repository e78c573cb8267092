-------------------------- MODULE MCDecoderWindows --------------------------
(* Windows for HybridDecoder: each row ranges over the distributions that  *)
(* sit on either side of a threshold of the code.  A, B and C are          *)
(* coordinates, B near A and C far from it; Text is an ordinary token.     *)
EXTENDS DetectionTokens, TLC

A == kCoordStart + 100
B == kCoordStart + 160
C == kCoordStart + 161
Text == 9707

One(t) == t :> 100
Two(t, p, u) == t :> p @@ u :> 100 - p

FirstRow == {One(kBoxStart), Two(kBoxStart, 59, Text), Two(kRefStart, 60, kBoxStart),
             Two(kRefStart, 55, Text), One(kNull), One(kImEnd), One(Text)}
NoneRow == {Two(kNone, 79, A), One(A), Two(A, 50, B), Two(A, 89, C), One(Text),
            Two(A, 20, kRefEnd)}
EndRow == {Two(kBoxEnd, 21, A), One(kImEnd), One(kRefEnd), Two(A, 90, C)}
NullRow == {Two(kNull, 11, B), One(kBoxEnd), One(kRefEnd), <<>>}
CoordRow == {Two(kNull, 11, A), Two(C, 60, A), One(kRefEnd), One(kNull)}
LastRow == {Two(kBoxEnd, 20, Text), Two(kImEnd, 19, Text), One(kNull), One(A)}

DecoderWindows ==
  {(0 :> r[1] @@ 1 :> r[2] @@ 2 :> r[3] @@ 3 :> r[4] @@ 4 :> r[5] @@ 5 :> r[6]) :
     r \in FirstRow \X NoneRow \X EndRow \X NullRow \X CoordRow \X LastRow}

(* For the fallback token by token: windows on both sides of the           *)
(* thresholds, with boxes that break off after each coordinate.            *)
FallbackRows ==
  <<{One(kBoxStart), Two(kBoxStart, 65, Text), Two(kBoxStart, 59, Text),
     Two(kRefStart, 60, kBoxStart), One(kNull)},
    {Two(kNone, 79, A), One(A), Two(A, 89, C), One(Text)},
    {Two(kBoxEnd, 21, A), One(B), One(kRefEnd)},
    {Two(kNull, 11, B), One(kBoxEnd), Two(A, 20, C), <<>>},
    {Two(kNull, 11, A), Two(C, 60, A), One(kNull)},
    {Two(kBoxEnd, 20, Text), Two(kImEnd, 19, Text)}>>

FallbackWindows ==
  {(0 :> r[1] @@ 1 :> r[2] @@ 2 :> r[3] @@ 3 :> r[4] @@ 4 :> r[5] @@ 5 :> r[6]) :
     r \in FallbackRows[1] \X FallbackRows[2] \X FallbackRows[3]
           \X FallbackRows[4] \X FallbackRows[5] \X FallbackRows[6]}
FallbackChoices == {A, kNone, kBoxEnd, Text}
=============================================================================
