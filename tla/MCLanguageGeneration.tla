------------------------ MODULE MCLanguageGeneration ------------------------
(* Instance of LanguageGeneration.  The prompts leave room for two windows, *)
(* for none and for no token at all; the windows yield one decision of each *)
(* kind and length, twice where an answer may repeat it.                    *)
EXTENDS LanguageGeneration

A == kCoordStart + 100
B == kCoordStart + 900
Text == 9707
Image == 151665

Prompt(n) == [i \in 1 .. n |-> IF i = 1 THEN Image ELSE Text]
MCPrompts == {Prompt(n) : n \in {2, 11, 16}}

MCWindows == {
  <<kBoxStart, A, B, A, B, kBoxEnd>>,          \* a rectangle
  <<kBoxStart, A, B, kBoxEnd, kNull, kNull>>,  \* a point
  <<kBoxStart, kNone, kBoxEnd, kNull, kNull, kNull>>,
  <<kBoxStart, 0, B, A, B, kBoxEnd>>,          \* incomplete from the start
  <<kBoxStart, A, B, 0, B, kBoxEnd>>,          \* incomplete after a point
  <<kBoxStart, A, B, A, B, Text>>,             \* incomplete at its end
  <<kRefStart, Text, kRefEnd, kRefEnd, kNull, kNull>>,
  <<kRefStart, Text, kImEnd, Text, kRefEnd, kBoxStart>>,
  <<kImEnd, kNull, kNull, kNull, kNull, kNull>>}

MCArTokens == {B, kNone, kBoxEnd, kImEnd}

MCSlowTokens == {A, kImEnd}
=============================================================================
