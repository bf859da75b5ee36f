------------------------------ MODULE MCAutopay ------------------------------
(* TLC instances of Autopay. *)
EXTENDS Autopay, TLC

CONSTANTS c1, r1, r2

=============================================================================
