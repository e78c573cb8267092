------------------------------- MODULE Nucleus -------------------------------
(* How much of each row's distribution a coordinate audit keeps               *)
(* (_nucleus_summary), against what the runtime keeps of it (NucleusSoftmax). *)
(* A row lists the masses of the vocabulary from the largest down; both       *)
(* search a growing head of it.                                               *)
EXTENDS Integers, Sequences, FiniteSets

CONSTANTS
  Rows,     \* rows a batch may hold
  Batch,    \* rows in a batch
  TopP,     \* in the unit of the masses
  InitialWidth, MaxWidth

VARIABLES
  rows,
  width,    \* of the search, common to the batch
  keep,     \* tokens kept of each row
  pc

vars == <<rows, width, keep, pc>>

Least(a, b) == IF a < b THEN a ELSE b
VocabSize == Len(rows[1])

Mass(row, count) ==
  LET sum[n \in 0 .. count] == IF n = 0 THEN 0 ELSE sum[n - 1] + row[n] IN sum[count]

Init ==
  /\ rows \in [1 .. Batch -> Rows]
  /\ width = Least(InitialWidth, VocabSize)
  /\ keep = [i \in 1 .. Batch |-> 0] /\ pc = "search"

\* Mutant: one covered row is enough for the batch.
CoveredOnce == \E i \in 1 .. Batch : Mass(rows[i], width) >= TopP

Covered == \A i \in 1 .. Batch : Mass(rows[i], width) >= TopP

KeepCount(row) ==
  Least(Cardinality({n \in 1 .. width : Mass(row, n) < TopP}) + 1, width)

Widen ==
  /\ pc = "search" /\ ~Covered /\ width # VocabSize /\ width < MaxWidth
  /\ width' = Least(Least(2 * width, VocabSize), MaxWidth)
  /\ UNCHANGED <<rows, keep, pc>>

GiveUp ==
  /\ pc = "search" /\ ~Covered /\ width # VocabSize /\ width >= MaxWidth
  /\ pc' = "raised"
  /\ UNCHANGED <<rows, width, keep>>

Keep ==
  /\ pc = "search" /\ (Covered \/ width = VocabSize)
  /\ keep' = [i \in 1 .. Batch |-> KeepCount(rows[i])]
  /\ pc' = "kept"
  /\ UNCHANGED <<rows, width>>

Next == Widen \/ GiveUp \/ Keep
Spec == Init /\ [][Next]_vars

------------------------------------------------------------------------------
(* The runtime's search goes on over the whole vocabulary.                    *)
RuntimeKeep(row) ==
  LET enough == {n \in 1 .. VocabSize : Mass(row, n) >= TopP}
  IN IF enough = {} THEN VocabSize
     ELSE CHOOSE n \in enough : \A other \in enough : n <= other

(* _token_distribution_evidence of the token at a place of the row.           *)
FullRank(row, place) == Cardinality({n \in 1 .. VocabSize : row[n] > row[place]}) + 1
Retained(i, place) == FullRank(rows[i], place) <= keep[i]

------------------------------------------------------------------------------
(* Values of the variables.                                                   *)
TypeOK ==
  /\ pc \in {"search", "kept", "raised"}
  /\ width \in 1 .. VocabSize
  /\ \A i \in 1 .. Batch : keep[i] \in IF pc = "kept" THEN 1 .. width ELSE {0}

(* A batch is kept with the same tokens the runtime keeps of each of its      *)
(* rows, although the rows share one search.                                  *)
KeepsLikeRuntime ==
  pc = "kept" => \A i \in 1 .. Batch : keep[i] = RuntimeKeep(rows[i])

(* The audit gives up only over a row of which the runtime would keep more    *)
(* tokens than the audit may look at.                                         *)
GivesUpOnlyBeyondLimit ==
  pc = "raised" => \E i \in 1 .. Batch : RuntimeKeep(rows[i]) > MaxWidth

(* Every token that was kept is reported as retained; a token that was not    *)
(* is only if it is as likely as one that was.                                *)
EvidenceMatchesNucleus ==
  pc = "kept" =>
    \A i \in 1 .. Batch : \A place \in 1 .. VocabSize :
      /\ place <= keep[i] => Retained(i, place)
      /\ Retained(i, place) /\ place > keep[i] => rows[i][place] = rows[i][keep[i]]
(* Nucleus and evidence of the audit are those of the runtime.                *)
NucleusLikeRuntime ==
  TypeOK /\ KeepsLikeRuntime /\ GivesUpOnlyBeyondLimit /\ EvidenceMatchesNucleus
==============================================================================
