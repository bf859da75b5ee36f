------------------------------- MODULE Autopay -------------------------------
(***************************************************************************)
(* Automatic collection of one invoice from one stored card: the daily     *)
(* process_recurring_charges task (src/src/services/checkoutService.js),   *)
(* the hourly retry_failed_charges task (paymentRetryService.js), the      *)
(* charge they share (paymentGatewayService.charge) and what settles it.   *)
(*                                                                         *)
(* A charge is named by its idempotency key.  Webhooks and the sweep are   *)
(* GatewayReconcile's subject and are one step each here.  Each SQL        *)
(* statement is a transaction of its own; a run may stop between two.      *)
(***************************************************************************)
EXTENDS Integers, FiniteSets

CONSTANTS
    Collectors,     \* runs of process_recurring_charges
    Retriers,       \* runs of retry_failed_charges
    Manual,         \* those that staff start by hand, beside the scheduler's
    MaxAttempts,    \* MAX_ATTEMPTS
    MaxDays,        \* bound: UTC days
    MaxSchedules,   \* bound: rows of payment_retries
    MaxIncidents    \* bound: stopped runs, lost answers, lost cancellations
                    \* and manual runs, in all

ASSUME AutopayAssumption ==
    /\ Collectors \cap Retriers = {}
    /\ Manual \subseteq Collectors \cup Retriers
    /\ MaxAttempts \in Nat \ {0} /\ MaxDays \in Nat \ {0}
    /\ MaxSchedules \in Nat /\ MaxIncidents \in Nat

Runs == Collectors \cup Retriers
Schedules == 1 .. MaxSchedules

(* recurring:<profile>:<invoice>:<day> and retry:<schedule>:<attempt>.     *)
RecurringKey(d) == <<"recurring", d, 0>>
RetryKey(i, n) == <<"retry", i, n>>
Keys == {RecurringKey(d) : d \in 1 .. MaxDays}
            \cup {RetryKey(i, n) : i \in Schedules, n \in 1 .. MaxAttempts}
NoKey == <<"none", 0, 0>>

VARIABLES
    invoice,    \* what the invoice owes: "owed" or "paid"
    tx,         \* payment_transactions, by idempotency key
    stored,     \* idempotency_keys: the answer kept for each key
    charge,     \* what the provider made of each key
    calls,      \* history: requests the provider acted on, per key
    retry,      \* payment_retries
    run,        \* position and local variables of each run
    follow,     \* a settled charge still has to cancel the invoice's retries
    day,        \* the UTC day
    overlapped, \* history: two runs of one task were under way at once
    faults,     \* faults so far
    manual      \* manual runs so far

log == <<overlapped, faults, manual>>
vars == <<invoice, tx, stored, charge, calls, retry, run, follow, day, log>>

----------------------------------------------------------------------------
(* Values *)

Answers == {"none", "succeeded", "pending", "failed"}
Live == {"pending", "processing"}
RetryStatuses == Live \cup {"absent", "succeeded", "exhausted", "cancelled"}
Steps == {"idle", "check", "balance", "mark", "cancel", "charge", "call",
          "record", "store", "result", "schedule"}
IdleRun == [pc |-> "idle", key |-> NoKey, row |-> 0, attempt |-> 0,
            answer |-> "none"]

(* A transaction's ref is known once the provider's answer was recorded;   *)
(* until then it holds a provisional one no webhook can match.             *)
TypeOK ==
    /\ invoice \in {"owed", "paid"}
    /\ tx \in [Keys -> [status : {"absent", "pending", "succeeded", "failed"},
                        ref : BOOLEAN, posted : BOOLEAN]]
    /\ stored \in [Keys -> Answers]
    /\ charge \in [Keys -> {"none", "processing", "captured", "declined"}]
    /\ calls \in [Keys -> Nat]
    /\ retry \in [Schedules -> [status : RetryStatuses,
                                attempts : 0 .. MaxAttempts]]
    /\ run \in [Runs -> [pc : Steps, key : Keys \cup {NoKey},
                         row : 0 .. MaxSchedules, attempt : 0 .. MaxAttempts,
                         answer : Answers]]
    /\ follow \in BOOLEAN
    /\ day \in 1 .. MaxDays
    /\ overlapped \in BOOLEAN
    /\ faults \in Nat /\ manual \in Nat /\ faults + manual <= MaxIncidents

Init ==
    /\ invoice = "owed"
    /\ tx = [k \in Keys |-> [status |-> "absent", ref |-> FALSE, posted |-> FALSE]]
    /\ stored = [k \in Keys |-> "none"]
    /\ charge = [k \in Keys |-> "none"]
    /\ calls = [k \in Keys |-> 0]
    /\ retry = [i \in Schedules |-> [status |-> "absent", attempts |-> 0]]
    /\ run = [r \in Runs |-> IdleRun]
    /\ follow = FALSE /\ day = 1 /\ overlapped = FALSE
    /\ faults = 0 /\ manual = 0

Fault == faults + manual < MaxIncidents /\ faults' = faults + 1

Goto(r, pc) == run' = [run EXCEPT ![r].pc = pc]
Ends(r) == run' = [run EXCEPT ![r] = IdleRun]

(* The scheduler's lock keeps two of its runs of a task apart; a manual    *)
(* run takes no lock.                                                      *)
Begin(r, tasks) ==
    /\ overlapped' = (overlapped \/ \E s \in tasks \ {r} : run[s].pc # "idle")
    /\ IF r \in Manual THEN faults + manual < MaxIncidents /\ manual' = manual + 1
       ELSE /\ \A s \in tasks \ Manual : run[s].pc = "idle"
            /\ UNCHANGED manual

money == <<invoice, charge, calls, follow, day>>

----------------------------------------------------------------------------
(* chargeRecurringProfile *)

(* Mutant of hasChargeInFlight: collected, unposted money is forgotten. *)
hasPendingCharge ==
    \/ \E k \in Keys : tx[k].status = "pending" /\ ~tx[k].posted
    \/ \E i \in Schedules : retry[i].status \in Live

hasChargeInFlight ==
    \/ \E k \in Keys : tx[k].status \in {"pending", "succeeded"} /\ ~tx[k].posted
    \/ \E i \in Schedules : retry[i].status \in Live

StartCollecting(r) ==
    /\ run[r].pc = "idle"
    /\ invoice = "owed"
    /\ Goto(r, "check")
    /\ Begin(r, Collectors)
    /\ UNCHANGED <<money, tx, stored, retry, faults>>

(* The key is made after the check, from the day it then is.               *)
CheckInFlight(r) ==
    /\ run[r].pc = "check" /\ r \in Collectors
    /\ IF hasChargeInFlight THEN Ends(r)
       ELSE run' = [run EXCEPT ![r].pc = "charge", ![r].key = RecurringKey(day)]
    /\ UNCHANGED <<money, tx, stored, retry, log>>

----------------------------------------------------------------------------
(* processPendingRetries and executeRetry.  The row is a copy from the      *)
(* batch's SELECT, once next_retry_at has passed.                          *)

SelectRetry(r, i) ==
    /\ run[r].pc = "idle"
    /\ retry[i].status = "pending"
    /\ run' = [run EXCEPT ![r] =
         [pc |-> "balance", key |-> NoKey, row |-> i,
          attempt |-> retry[i].attempts + 1, answer |-> "none"]]
    /\ Begin(r, Retriers)
    /\ UNCHANGED <<money, tx, stored, retry, faults>>

(* The SELECT may have found the card or its gateway inactive.             *)
CheckBalance(r) ==
    /\ run[r].pc = "balance"
    /\ \/ invoice = "owed" /\ Goto(r, "mark")
       \/ Goto(r, "cancel")
    /\ UNCHANGED <<money, tx, stored, retry, log>>

CancelRetry(r) ==
    /\ run[r].pc = "cancel"
    /\ retry' = [retry EXCEPT ![run[r].row].status =
                   IF @ \in Live THEN "cancelled" ELSE @]
    /\ Ends(r)
    /\ UNCHANGED <<money, tx, stored, log>>

MarkProcessing(r) ==
    /\ run[r].pc = "mark"
    /\ retry' = [retry EXCEPT ![run[r].row].status = "processing"]
    /\ run' = [run EXCEPT ![r].pc = "charge",
                          ![r].key = RetryKey(run[r].row, run[r].attempt)]
    /\ UNCHANGED <<money, tx, stored, log>>

----------------------------------------------------------------------------
(* charge *)

Replay(r) ==
    /\ run[r].pc = "charge"
    /\ stored[run[r].key] # "none"
    /\ run' = [run EXCEPT ![r].pc = "result", ![r].answer = stored[run[r].key]]
    /\ UNCHANGED <<money, tx, stored, retry, log>>

(* Mutant of InsertCharge: without the unique key. *)
InsertChargeAgain(r) ==
    /\ run[r].pc = "charge"
    /\ tx' = [tx EXCEPT ![run[r].key].status = "pending"]
    /\ Goto(r, "call")
    /\ UNCHANGED <<money, stored, retry, log>>

InsertCharge(r) ==
    /\ run[r].pc = "charge"
    /\ tx[run[r].key].status = "absent"
    /\ tx' = [tx EXCEPT ![run[r].key].status = "pending"]
    /\ Goto(r, "call")
    /\ UNCHANGED <<money, stored, retry, log>>

(* charge throws: the daily task gives the profile up before it could      *)
(* schedule a retry; a retry takes it as a failed attempt.                 *)
Throws(r) ==
    IF r \in Collectors THEN Ends(r)
    ELSE run' = [run EXCEPT ![r].pc = "result", ![r].answer = "failed"]

(* The key is taken (its answer is not stored, or has expired), or the     *)
(* gateway is not active.                                                  *)
ChargeThrows(r) ==
    /\ run[r].pc = "charge"
    /\ Throws(r)
    /\ UNCHANGED <<money, tx, stored, retry, log>>

(* The profile has no token: the daily task does not call charge and       *)
(* inserts a failed transaction itself.                                    *)
InsertTokenless(r) ==
    /\ run[r].pc = "charge" /\ r \in Collectors
    /\ tx[run[r].key].status = "absent"
    /\ tx' = [tx EXCEPT ![run[r].key].status = "failed"]
    /\ run' = [run EXCEPT ![r].pc = "result", ![r].answer = "failed"]
    /\ UNCHANGED <<money, stored, retry, log>>

(* Mutant of Answering: an error is taken as pending. *)
AnsweringErrorsAsPending(made) ==
    IF made = "captured" THEN "succeeded" ELSE "pending"

Answering(made) ==
    CASE made = "captured" -> "succeeded"
      [] made = "processing" -> "pending"
      [] OTHER -> "failed"

(* The provider acts on a key once; it may never see the request, and its  *)
(* answer may be lost to a timeout, which charge takes for a failure.      *)
CallProvider(r, made) ==
    /\ run[r].pc = "call"
    /\ IF made = "none" THEN UNCHANGED <<charge, calls>>
       ELSE /\ charge' = [charge EXCEPT ![run[r].key] =
                            IF @ = "none" THEN made ELSE @]
            /\ calls' = [calls EXCEPT ![run[r].key] = @ + 1]
    /\ \/ /\ run' = [run EXCEPT ![r].pc = "record",
                      ![r].answer = Answering(charge'[run[r].key])]
          /\ UNCHANGED faults
       \/ /\ charge'[run[r].key] \in {"captured", "processing"}
          /\ Fault
          /\ run' = [run EXCEPT ![r].pc = "record", ![r].answer = "failed"]
    /\ UNCHANGED <<invoice, follow, day, tx, stored, retry, overlapped, manual>>

(* Mutant of RecordAnswer: the reference is not stored. *)
RecordStatusOnly(r) ==
    /\ run[r].pc = "record" /\ run[r].answer # "failed"
    /\ tx' = [tx EXCEPT ![run[r].key].status = run[r].answer]
    /\ Goto(r, "store")
    /\ UNCHANGED <<money, stored, retry, log>>

RecordAnswer(r) ==
    /\ run[r].pc = "record" /\ run[r].answer # "failed"
    /\ tx' = [tx EXCEPT ![run[r].key].status = run[r].answer,
                        ![run[r].key].ref = TRUE]
    /\ Goto(r, "store")
    /\ UNCHANGED <<money, stored, retry, log>>

(* A failure is not recorded: charge's catch writes the plain err.message  *)
(* to raw_response, a JSON column, which MySQL refuses.  The catch throws: *)
(* the transaction stays pending and no answer is stored for the key.      *)
FailureThrows(r) ==
    /\ run[r].pc = "record" /\ run[r].answer = "failed"
    /\ Throws(r)
    /\ UNCHANGED <<money, tx, stored, retry, log>>

StoreKey(r) ==
    /\ run[r].pc = "store"
    /\ stored' = [stored EXCEPT ![run[r].key] = run[r].answer]
    /\ Goto(r, "result")
    /\ UNCHANGED <<money, tx, retry, log>>

----------------------------------------------------------------------------
(* What the tasks make of the answer *)

(* scheduleRetry looks for a live schedule of the invoice first.           *)
CollectorResult(r) ==
    /\ run[r].pc = "result" /\ r \in Collectors
    /\ IF run[r].answer = "succeeded" \/ \E i \in Schedules : retry[i].status \in Live
         THEN Ends(r) ELSE Goto(r, "schedule")
    /\ UNCHANGED <<money, tx, stored, retry, log>>

scheduleRetry(r) ==
    /\ run[r].pc = "schedule"
    /\ \E i \in Schedules :
         /\ retry[i].status = "absent"
         /\ \A j \in Schedules : j < i => retry[j].status # "absent"
         /\ retry' = [retry EXCEPT ![i] = [status |-> "pending", attempts |-> 0]]
    /\ Ends(r)
    /\ UNCHANGED <<money, tx, stored, log>>

(* Mutant of AfterAttempt: off by one at max_attempts. *)
AfterAttemptPastLast(answer, attempt) ==
    IF answer \in {"succeeded", "pending"} THEN "succeeded"
    ELSE IF attempt > MaxAttempts THEN "exhausted" ELSE "pending"

AfterAttempt(answer, attempt) ==
    IF answer \in {"succeeded", "pending"} THEN "succeeded"
    ELSE IF attempt >= MaxAttempts THEN "exhausted" ELSE "pending"

(* executeRetry's last update and handleRetryFailure, whatever the row is  *)
(* by then.                                                                *)
RetryResult(r) ==
    /\ run[r].pc = "result" /\ r \in Retriers
    /\ retry' = [retry EXCEPT
         ![run[r].row].status = AfterAttempt(run[r].answer, run[r].attempt),
         ![run[r].row].attempts = run[r].attempt]
    /\ Ends(r)
    /\ UNCHANGED <<money, tx, stored, log>>

Crash(r) ==
    /\ run[r].pc # "idle"
    /\ Ends(r)
    /\ Fault
    /\ UNCHANGED <<money, tx, stored, retry, overlapped, manual>>

----------------------------------------------------------------------------
(* The provider decides, its webhook or the reconcile sweep settles.       *)

ProviderDecides(k, made) ==
    /\ charge[k] = "processing"
    /\ made \in {"captured", "declined"}
    /\ charge' = [charge EXCEPT ![k] = made]
    /\ UNCHANGED <<invoice, tx, stored, calls, retry, run, follow, day, log>>

(* A declined charge is final; a captured one is recorded as succeeded.    *)
Webhook(k) ==
    /\ tx[k].ref /\ tx[k].status = "pending"
    /\ charge[k] \in {"captured", "declined"}
    /\ tx' = [tx EXCEPT ![k].status = IF charge[k] = "captured" THEN "succeeded"
                                                                ELSE "failed"]
    /\ UNCHANGED <<money, stored, retry, run, log>>

(* reconcilePayment: the payment pays the invoice, or is left as credit.   *)
Post(k) ==
    /\ tx[k].status = "succeeded" /\ ~tx[k].posted
    /\ tx' = [tx EXCEPT ![k].posted = TRUE]
    /\ invoice' = "paid"
    /\ follow' = TRUE
    /\ UNCHANGED <<stored, charge, calls, retry, run, day, log>>

(* Cash, a transfer or a credit note pays the invoice.                     *)
PayOtherwise ==
    /\ invoice = "owed"
    /\ invoice' = "paid"
    /\ UNCHANGED <<tx, stored, charge, calls, retry, run, follow, day, log>>

(* After the payment commits; the process may stop before it.              *)
cancelRetries ==
    /\ follow
    /\ follow' = FALSE
    /\ \/ /\ retry' = [i \in Schedules |-> [retry[i] EXCEPT !.status =
                          IF @ \in Live THEN "cancelled" ELSE @]]
          /\ UNCHANGED faults
       \/ UNCHANGED retry /\ Fault
    /\ UNCHANGED <<invoice, tx, stored, charge, calls, run, day, overlapped, manual>>

NextDay ==
    /\ day < MaxDays
    /\ day' = day + 1
    /\ UNCHANGED <<invoice, tx, stored, charge, calls, retry, run, follow, log>>

----------------------------------------------------------------------------

RunStep(r) ==
    \/ CheckInFlight(r) \/ CheckBalance(r) \/ CancelRetry(r) \/ MarkProcessing(r)
    \/ Replay(r) \/ InsertCharge(r) \/ ChargeThrows(r) \/ InsertTokenless(r)
    \/ \E made \in {"none", "processing", "captured", "declined"} :
          CallProvider(r, made)
    \/ RecordAnswer(r) \/ FailureThrows(r) \/ StoreKey(r)
    \/ CollectorResult(r) \/ scheduleRetry(r) \/ RetryResult(r)
    \/ Crash(r)

Next ==
    \/ \E r \in Collectors : StartCollecting(r)
    \/ \E r \in Retriers : \E i \in Schedules : SelectRetry(r, i)
    \/ \E r \in Runs : RunStep(r)
    \/ \E k \in Keys : Webhook(k) \/ Post(k)
          \/ \E made \in {"captured", "declined"} : ProviderDecides(k, made)
    \/ PayOtherwise \/ cancelRetries \/ NextDay

Spec == Init /\ [][Next]_vars

----------------------------------------------------------------------------
(* Properties *)

(* However many runs come to charge at once, again after a stop or with an *)
(* old copy of a schedule, the provider acts on an idempotency key once.   *)
OneCallPerKey == \A k \in Keys : calls[k] <= 1

(* While the invoice is owed and no two runs of one task overlapped, the   *)
(* daily task charges nothing beside a charge that was taken or is         *)
(* undecided, nor does a retry beside an earlier attempt of its schedule,  *)
(* except one whose answer was lost (executeRetry takes it for a failure,  *)
(* and its transaction never learns the provider's reference).             *)
Rivals(k) ==
    IF k[1] = "recurring" THEN Keys \ {k}
    ELSE {RetryKey(k[2], n) : n \in 1 .. k[3] - 1}

Taken(k) == charge[k] \in {"captured", "processing"}

UndecidedNotRecharged ==
    [][invoice = "owed" /\ ~overlapped =>
         \A k \in Keys : charge[k] = "none" /\ charge'[k] # "none" =>
            \A j \in Rivals(k) : Taken(j) => k[1] = "retry" /\ ~tx[j].ref]_vars

(* The card is not charged again for an invoice it was already charged     *)
(* for: two charges are never both taken and both answered 'succeeded'.    *)
BilledOnce ==
    \A j, k \in Keys :
       j # k /\ charge[j] = "captured" /\ charge[k] = "captured"
         => stored[j] # "succeeded" \/ stored[k] # "succeeded"

(* hasChargeInFlight makes the daily task pass over an unpaid invoice.     *)
(* Without a stopped run or a lost answer it never waits in vain for money *)
(* that was taken or is undecided: once no run is under way no schedule is *)
(* left processing, and a pending transaction that no webhook and no sweep *)
(* can match (it has no reference) is of an attempt that took nothing.     *)
PassedOverOnlyByFailure ==
    faults = 0 /\ (\A r \in Runs : run[r].pc = "idle") =>
      /\ \A i \in Schedules : retry[i].status # "processing"
      /\ \A k \in Keys : tx[k].status = "pending" /\ ~tx[k].ref => ~Taken(k)

(* A schedule that ended as succeeded has a charge the provider took up.   *)
SucceededWasCharged ==
    \A i \in Schedules :
       retry[i].status = "succeeded" => charge[RetryKey(i, retry[i].attempts)] # "none"

=============================================================================
