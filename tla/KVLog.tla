-------------------------------- MODULE KVLog --------------------------------
(***************************************************************************)
(* What the Language runtime relies on when it commits key/value rows: the *)
(* rows a graph can read are the committed rows, oldest first.  A commit   *)
(* adds the leading rows of a graph's update or breaks the cache, in which *)
(* case the committed rows are still the ones from before; a rebuild puts  *)
(* the prompt rows back.                                                   *)
(***************************************************************************)
EXTENDS Integers, Sequences

CONSTANTS
  Rows,     \* capacity of one cache tensor
  Prompts,  \* sequences of rows a prefill may have produced
  Updates   \* sequences of rows a decode graph may have produced

VARIABLES
  log,     \* the rows a graph reads as history
  prompt,  \* the prefill rows, kept to rebuild the cache
  broken   \* a commit failed part of the way

vars == <<log, prompt, broken>>

Init ==
  /\ prompt \in Prompts
  /\ log = prompt
  /\ broken = FALSE

Commit(update, n) ==
  /\ ~broken
  /\ Len(log) + n <= Rows
  /\ log' = log \o SubSeq(update, 1, n)
  /\ UNCHANGED <<prompt, broken>>

Break == ~broken /\ broken' = TRUE /\ UNCHANGED <<log, prompt>>

Rebuild == log' = prompt /\ broken' = FALSE /\ UNCHANGED prompt

Next ==
  \/ \E u \in Updates : \E n \in 1 .. Len(u) : Commit(u, n)
  \/ Break
  \/ Rebuild

Spec == Init /\ [][Next]_vars
=============================================================================
