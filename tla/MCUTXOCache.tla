---------------------------- MODULE MCUTXOCache ----------------------------
(***************************************************************************)
(* UTXOCache with four outputs.  The sizes are those of a 64-bit build,    *)
(* divided by 8; the limit is reached by two entries.                      *)
(***************************************************************************)
EXTENDS UTXOCache

=============================================================================
