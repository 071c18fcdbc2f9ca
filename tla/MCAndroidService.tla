---------------------------- MODULE MCAndroidService ----------------------------
(* Instances of AndroidService for TLC. *)
EXTENDS AndroidService, TLC

Symmetry == Permutations(Services) \cup Permutations(Runs)
=============================================================================
