-------------------------- MODULE MCEngineSupervisor --------------------------
(* Instances of EngineSupervisor for TLC: starts, stops and pids are model values;
   in the safety runs pids are interchangeable, and commands of the same user. *)
EXTENDS EngineSupervisor, TLC

Symmetry == Permutations(Starters \ Sudo) \cup Permutations(Starters \cap Sudo)
            \cup Permutations(Stoppers \ Sudo) \cup Permutations(Stoppers \cap Sudo)
            \cup Permutations(Pids)
=============================================================================
