----------------------------- MODULE Transcript -----------------------------
(***************************************************************************)
(* What a caller of LanguageEngine::Generate can rely on: the answer grows *)
(* at its end by a few tokens at a time, within the limit asked for; only  *)
(* a protected hybrid request drops it, once, to start over; and the call  *)
(* ends with the answer or with an error.                                  *)
(***************************************************************************)
EXTENDS Integers, Sequences

VARIABLES
  terms,     \* max: the limit; restartable: a protected hybrid request
  text,      \* the answer so far
  restarted, \* it was dropped once
  ended      \* "no", "answer" or "error"

vars == <<terms, text, restarted, ended>>

MostAtOnce == 6  \* tokens one window yields

Init == text = <<>> /\ restarted = FALSE /\ ended = "no"

Extend ==
  /\ ended = "no" /\ ended' \in {"no", "answer"}
  /\ Len(text') - Len(text) \in 1 .. MostAtOnce
  /\ Len(text') <= terms.max
  /\ SubSeq(text', 1, Len(text)) = text
  /\ UNCHANGED <<terms, restarted>>

StartOver ==
  /\ ended = "no" /\ ended' \in {"no", "error"}
  /\ terms.restartable /\ ~restarted
  /\ text' = <<>> /\ restarted' = TRUE
  /\ UNCHANGED terms

End ==
  /\ ended = "no" /\ ended' \in {"answer", "error"}
  /\ UNCHANGED <<terms, text, restarted>>

Next == Extend \/ StartOver \/ End

Spec == Init /\ [][Next]_vars
=============================================================================
