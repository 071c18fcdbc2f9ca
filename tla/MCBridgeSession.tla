---------------------------- MODULE MCBridgeSession ----------------------------
(* Instances of BridgeSession for TLC: sessions and stop calls are model values. *)
EXTENDS BridgeSession, TLC

Symmetry == Permutations(Sessions) \cup Permutations(Stops)
=============================================================================
