-------------------------- MODULE MCTailscaleSnapshot --------------------------
(* Instances of TailscaleSnapshot for TLC: sessions and readers are model values. *)
EXTENDS TailscaleSnapshot, TLC

Symmetry == Permutations(Sessions) \cup Permutations(Readers)
=============================================================================
