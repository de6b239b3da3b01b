----------------------------- MODULE MCSubsMgr ------------------------------
(***************************************************************************)
(* Three kinds of setting.  One client and a key that changes often, so    *)
(* that statuses return and answers cross notifications.  Two clients of   *)
(* one address that race for its last subscription, with subscriptions     *)
(* elsewhere and a global limit that is hit.  Two clients that both        *)
(* subscribe and unsubscribe while the key changes.                        *)
(***************************************************************************)
EXTENDS SubsMgr, TLC

CONSTANTS c1, c2, k1, o1, o2

MCClient == {c1, c2}
MCKey == {k1}
MCSubObj == {o1, o2}

OneClient ==
  [manager : {"scripthash", "dsproof"}, maxSubsPerIP : {2}, maxSubsGlobally : {3},
   clients : {{c1}}, objects : {{o1}}, changes : {3}, elsewhere : {0}]
Crowded ==
  [manager : {"scripthash", "dsproof"}, maxSubsPerIP : {2}, maxSubsGlobally : {3},
   clients : {MCClient}, objects : {MCSubObj}, changes : {0}, elsewhere : {1}]
Busy ==
  [manager : {"scripthash", "dsproof"}, maxSubsPerIP : {2}, maxSubsGlobally : {3},
   clients : {MCClient}, objects : {{o1}}, changes : {1}, elsewhere : {0}]

MCSetting == OneClient \cup Crowded \cup Busy

\* The settings with c1 alone stand for those with c2 alone.
MCSymmetry == Permutations(Client)
=============================================================================
