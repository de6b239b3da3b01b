---------------------------- MODULE MCController ----------------------------
(***************************************************************************)
(* Block trees for model checking Controller: two branches of two blocks,  *)
(* from height 2 on, and a fork at height 1 with one branch of four blocks,*)
(* so that undo info is suppressed in the initial block download.          *)
(***************************************************************************)
EXTENDS Controller

LongFork == {"G", "A1", "A2", "A3", "B2", "B3"}
LongForkPrev == [b \in LongFork |->
  CASE b = "G" -> "null" [] b = "A1" -> "G" [] b \in {"A2", "B2"} -> "A1" [] b = "A3" -> "A2"
    [] b = "B3" -> "B2"]

Tall == {"G", "A1", "A2", "A3", "A4", "B1"}
TallPrev == [b \in Tall |->
  CASE b = "G" -> "null" [] b \in {"A1", "B1"} -> "G" [] b = "A2" -> "A1" [] b = "A3" -> "A2"
    [] b = "A4" -> "A3"]
=============================================================================
