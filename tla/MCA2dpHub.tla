----------------------------- MODULE MCA2dpHub -----------------------------
(* The hub on small instances; the configurations differ in the commands   *)
(* that may come and in the failures that may happen.                      *)
EXTENDS HubSession, TLC

PeerSymmetry == Permutations(Peers)
=============================================================================
