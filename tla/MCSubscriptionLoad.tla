--------------------------- MODULE MCSubscriptionLoad ---------------------------
(* An instance of SubscriptionLoad for TLC. *)
EXTENDS SubscriptionLoad
=============================================================================
