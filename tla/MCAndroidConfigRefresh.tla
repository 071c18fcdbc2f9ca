------------------------- MODULE MCAndroidConfigRefresh -------------------------
(* Instances of AndroidConfigRefresh for TLC: the user's configuration holds a rule
   equal to a managed one and a host with a MagicDNS name. *)
EXTENDS AndroidConfigRefresh

CONSTANTS own1, own2, cidr, tsnet, other, n1, n2, ip1, ip2

\* n2 is what n1 is called under the suffix of the other rule.
MCShort == [p \in Names \X SuffixRules |-> IF p = <<n1, other>> THEN n2 ELSE None]
MCIpOrder == <<ip1, ip2>>
MCFixed == <<cidr>>
MCUserRules == <<own1, other, own2>>
MCUserHosts == [n \in Names |-> IF n = n1 THEN ip2 ELSE None]
=============================================================================
