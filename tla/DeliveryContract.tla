-------------------------- MODULE DeliveryContract --------------------------
(***************************************************************************)
(* What the outbox promises its producers (the header of                   *)
(* src/src/services/messageOutbox.js), without rows, claims or workers.    *)
(* A submitted message carries one right to be handed to its provider.     *)
(* For an at-most-once channel (SMS, WhatsApp) every hand-over uses a      *)
(* right up; 'delivered' is only said of a message that was handed over,   *)
(* 'undelivered' only while a right is left, so retrying it cannot         *)
(* duplicate anything; and only resending a message whose fate is closed   *)
(* or unknown grants another right.                                        *)
(***************************************************************************)
EXTENDS Naturals

CONSTANTS Messages, AtMostOnce

VARIABLES phase, rights, taken

vars == <<phase, rights, taken>>

Phases == {"absent", "pending", "delivered", "undelivered", "closed", "unknown"}

Init ==
    /\ phase = [m \in Messages |-> "absent"]
    /\ rights = [m \in Messages |-> 1]
    /\ taken = [m \in Messages |-> 0]

Move(m, from, to) ==
    /\ phase[m] \in from
    /\ phase' = [phase EXCEPT ![m] = to]

Submit(m) ==
    /\ \E to \in {"pending", "closed"} : Move(m, {"absent"}, to)
    /\ UNCHANGED <<rights, taken>>

(* The provider takes the message, possibly after the sender gave up. *)
HandOver(m) ==
    /\ phase[m] # "absent"
    /\ IF m \in AtMostOnce
         THEN rights[m] > 0 /\ rights' = [rights EXCEPT ![m] = @ - 1]
         ELSE UNCHANGED rights
    /\ taken' = [taken EXCEPT ![m] = @ + 1]
    /\ UNCHANGED phase

Deliver(m) ==
    /\ taken[m] > 0
    /\ Move(m, {"pending"}, "delivered")
    /\ UNCHANGED <<rights, taken>>

Fail(m) ==
    /\ rights[m] > 0
    /\ Move(m, {"pending"}, "undelivered")
    /\ UNCHANGED <<rights, taken>>

(* Nobody knows any more what became of these; several messages may be     *)
(* given up at once.                                                       *)
LoseTrack(lost) ==
    /\ lost # {} /\ \A m \in lost : phase[m] = "pending"
    /\ phase' = [m \in Messages |-> IF m \in lost THEN "unknown" ELSE phase[m]]
    /\ UNCHANGED <<rights, taken>>

Close(m) ==
    /\ Move(m, {"pending", "undelivered", "unknown"}, "closed")
    /\ UNCHANGED <<rights, taken>>

Retry(m) ==
    /\ Move(m, {"undelivered"}, "pending")
    /\ UNCHANGED <<rights, taken>>

Resend(m) ==
    /\ Move(m, {"closed", "unknown"}, "pending")
    /\ rights' = [rights EXCEPT ![m] = @ + 1]
    /\ UNCHANGED taken

Step(m) ==
    \/ Submit(m) \/ HandOver(m) \/ Deliver(m) \/ Fail(m)
    \/ Close(m) \/ Retry(m) \/ Resend(m)

Next ==
    \/ \E m \in Messages : Step(m)
    \/ \E lost \in SUBSET Messages : LoseTrack(lost)

Spec == Init /\ [][Next]_vars

=============================================================================
