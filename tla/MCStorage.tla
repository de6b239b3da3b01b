----------------------------- MODULE MCStorage -----------------------------
(***************************************************************************)
(* Storage on a tree of blocks with two branches above the genesis block:  *)
(*                                                                         *)
(*        G -- A1 -- A2 -- A3                                              *)
(*         \-- B1 -- B2 -- B3                                              *)
(*                                                                         *)
(* t1 and t2 are confirmed in two different blocks of the A branch and in  *)
(* one block of the B branch, where t2 spends an output of t1 in the same  *)
(* block.  Two transactions share the key of the txhash index.             *)
(***************************************************************************)
EXTENDS StorageInv, StorageRefinement

MCBlock == {"G", "A1", "A2", "A3", "B1", "B2", "B3"}
MCTx == {"g", "a1", "a2", "a3", "b1", "t1", "t2"}
MCTXO == {"g.0", "a1.0", "a3.0", "t1.0", "t1.1", "t2.0"}
MCHashX == {"x", "y"}
MCTxKey == {"k1", "k2", "k3"}

MCPrev == [b \in MCBlock |->
  CASE b = "G" -> "null" [] b \in {"A1", "B1"} -> "G" [] b = "A2" -> "A1" [] b = "A3" -> "A2"
    [] b = "B2" -> "B1" [] b = "B3" -> "B2"]

MCTxs == [b \in MCBlock |->
  CASE b = "G" -> <<"g">> [] b = "A1" -> <<"a1", "t1">> [] b = "A2" -> <<"a2", "t2">>
    [] b \in {"A3", "B3"} -> <<"a3">>
    [] b = "B1" -> <<"b1">> [] b = "B2" -> <<"a2", "t1", "t2">>]

MCTxOf == [o \in MCTXO |->
  CASE o = "g.0" -> "g" [] o = "a1.0" -> "a1" [] o = "a3.0" -> "a3" [] o \in {"t1.0", "t1.1"} -> "t1"
    [] o = "t2.0" -> "t2"]

MCScriptOf == [o \in MCTXO |-> IF o \in {"g.0", "t1.0"} THEN "x" ELSE "y"]

MCSpends == [t \in MCTx |->
  CASE t = "t1" -> {"g.0"} [] t = "t2" -> {"t1.0"} [] OTHER -> {}]

MCKeyOf == [t \in MCTx |->
  CASE t \in {"g", "t2"} -> "k1" [] t \in {"a1", "b1"} -> "k2" [] OTHER -> "k3"]

MCBigBlock == {"A2", "B2"}
=============================================================================
