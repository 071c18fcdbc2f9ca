----------------------------- MODULE MCHostForward -----------------------------
(* Instances of HostForward for TLC: ports at the edges of their range. *)
EXTENDS HostForward

MCPorts == {22, 65535}
\* No list, a proper one, one that is invalid and one that wraps around to 22.
MCLists == {{}, {22}, {0}, {65558}}
=============================================================================
