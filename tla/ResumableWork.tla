---------------------------- MODULE ResumableWork ----------------------------
(* What every resumable stage of the compiler pipeline promises: a set of    *)
(* items is worked off one at a time, an item that some run has made is not  *)
(* made again by a later one, and a result is put in place only from all of  *)
(* them.  A crash may cost items, and a result may be rejected afterwards.   *)
CONSTANTS Items, Makers, None

VARIABLES made, result

workVars == <<made, result>>

Init == made = [item \in Items |-> None] /\ result = "none"

Finish(item) ==
  /\ made[item] = None
  /\ \E maker \in Makers : made' = [made EXCEPT ![item] = maker]
  /\ UNCHANGED result

Lose ==
  /\ \E lost \in SUBSET Items :
       made' = [item \in Items |-> IF item \in lost THEN None ELSE made[item]]
  /\ result' \in {result, "none"}

Publish ==
  /\ \A item \in Items : made[item] # None
  /\ result' \in {"rejected", "published"}
  /\ UNCHANGED made

Next == (\E item \in Items : Finish(item)) \/ Lose \/ Publish

Spec == Init /\ [][Next]_workVars
==============================================================================
