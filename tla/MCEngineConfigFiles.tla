------------------------- MODULE MCEngineConfigFiles -------------------------
(* Instances of EngineConfigFiles for TLC: commands and files are model values. *)
EXTENDS EngineConfigFiles, TLC
=============================================================================
