---------------------------- MODULE MCHostFootprint ----------------------------
(* An instance of HostFootprint for TLC: processes and suffixes are model values. *)
EXTENDS HostFootprint
=============================================================================
