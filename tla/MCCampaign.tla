----------------------------- MODULE MCCampaign -----------------------------
(* TLC instances of Campaign. *)
EXTENDS Campaign, TLC

CONSTANTS c1, w1

=============================================================================
