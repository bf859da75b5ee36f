-------------------------- MODULE MCMessageOutbox --------------------------
(* TLC instances of MessageOutbox. *)
EXTENDS MessageOutbox, TLC

CONSTANTS m1, m2, sweeper, w1

TwoEmails == (m1 :> "email") @@ (m2 :> "email")
SecondIsSecret == (m1 :> FALSE) @@ (m2 :> TRUE)
OneSms == (m1 :> "sms")
OneEmail == (m1 :> "email")
NotSecret == (m1 :> FALSE)

=============================================================================
