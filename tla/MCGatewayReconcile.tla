------------------------- MODULE MCGatewayReconcile -------------------------
(* TLC instances of GatewayReconcile. *)
EXTENDS GatewayReconcile, TLC

CONSTANTS h1, h2, r1, r2

EventSets == {{"session_paid", "intent_paid", "refunded"},
                {"intent_paid", "declined", "refunded"},
                {"intent_paid", "disputed", "dispute_lost"},
                {"disputed", "dispute_won"}}

Symmetry == Permutations({h1, h2}) \cup Permutations({r1, r2})

=============================================================================
