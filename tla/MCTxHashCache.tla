--------------------------- MODULE MCTxHashCache ----------------------------
(***************************************************************************)
(* Two server threads and three hashes: enough for a reorganization to put *)
(* another hash where a request has just read one.                         *)
(***************************************************************************)
EXTENDS TxHashCache, TLC

CONSTANTS t1, t2, a, b, c

MCThread == {t1, t2}
MCHash == {a, b, c}
MCSymmetry == Permutations(MCThread) \cup Permutations(MCHash)
=============================================================================
