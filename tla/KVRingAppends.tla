---------------------------- MODULE KVRingAppends ----------------------------
(***************************************************************************)
(* AppendMirroredDeviceRingRows on its own, for any caller: the engine     *)
(* appends only what fits behind its history, the function takes up to a   *)
(* whole ring, and then the oldest rows are pushed out.  A write that      *)
(* fails ends the ring's use until it is rebuilt, as in RingNext.          *)
(***************************************************************************)
EXTENDS KVRing

ContractNext ==
  \/ \E u \in Updates : \E n \in 1 .. Len(u) : BeginAppend(u, n)
  \/ WriteLow
  \/ WriteHigh
  \/ FinishAppend /\ UNCHANGED history

ContractSpec == RingInit /\ [][ContractNext]_ringVars

-----------------------------------------------------------------------------
\* One append, from its first write to the move of the start, slides the whole
\* view by its rows: the rows that stay keep their contents while the writes
\* are under way, chunk by chunk, around the end of the ring, and the new rows
\* follow them in order.
WindowSlides ==
  [][LET n == Len(append.rows)
     IN /\ phase \in {"low", "high"} =>
             \A r \in n .. Rows - 1 : View(r)' = View(r)
        /\ phase = "written" /\ phase' = "idle" =>
             \A r \in 0 .. Rows - 1 :
               View(r)' = IF r < Rows - n THEN View(r + n)
                          ELSE append.rows[r - (Rows - n) + 1]]_ringVars
=============================================================================
