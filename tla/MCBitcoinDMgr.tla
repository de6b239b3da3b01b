--------------------------- MODULE MCBitcoinDMgr ---------------------------
(***************************************************************************)
(* BitcoinDMgr with two connections, established twice in all, and one     *)
(* request.                                                                *)
(***************************************************************************)
EXTENDS BitcoinDMgr

=============================================================================
