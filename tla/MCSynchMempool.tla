--------------------------- MODULE MCSynchMempool ---------------------------
(***************************************************************************)
(* Four transactions: 1 spends the coin, 2 is its child, 3 spends from     *)
(* both (a diamond), 4 conflicts with 1.  Two script hashes.               *)
(***************************************************************************)
EXTENDS SynchMempool

MCVin == (1 :> << <<0, 1>> >>) @@ (2 :> << <<1, 1>> >>) @@
         (3 :> << <<2, 1>>, <<1, 2>> >>) @@ (4 :> << <<0, 1>> >>)

MCVout == (0 :> <<"a">>) @@ (1 :> <<"a", "b">>) @@ (2 :> <<"b", "op">>) @@
          (3 :> <<"b">>) @@ (4 :> <<"a">>)

MCOverlap == BOOLEAN

=============================================================================
