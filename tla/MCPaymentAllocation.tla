------------------------ MODULE MCPaymentAllocation ------------------------
(* TLC instances of PaymentAllocation. *)
EXTENDS PaymentAllocation, TLC

CONSTANTS p1, p2, c1, c2, r1, r2

PaidOneEach == (p1 :> 1) @@ (p2 :> 1)
PaidTwoAndOne == (p1 :> 2) @@ (p2 :> 1)
PayerFirst == (p1 :> c1) @@ (p2 :> c1)
TotalTwoOne == (1 :> 2) @@ (2 :> 1)
TotalOne == (1 :> 1)
BilledFirst == (1 :> c1) @@ (2 :> c1)
BilledOne == (1 :> c1)
OneBack == {-1}

Symmetry == Permutations({r1, r2})

=============================================================================
