--------------------------- MODULE MessageOutbox ---------------------------
(***************************************************************************)
(* The message outbox (src/src/services/messageOutbox.js): one durable     *)
(* table, message_outbox, through which every email, SMS, WhatsApp and     *)
(* push message leaves.  A row is delivered by whoever claims it first:    *)
(* the scheduled sweep, the 'message-outbox' job queued at enqueue, or a   *)
(* request that calls sendNow.  Every statement of the code is a separate  *)
(* autocommit statement, so every statement is an action of its own here,  *)
(* and a process may stop between any two of them.                         *)
(*                                                                         *)
(* Workers are the activities that may hold a row: the Sweeper (one at a   *)
(* time, the scheduler's advisory lock sees to it), and job runs and HTTP  *)
(* requests for the rest.                                                  *)
(***************************************************************************)
EXTENDS Integers, FiniteSets

CONSTANTS
    Messages,       \* rows of message_outbox, one per dedupe_key
    Workers,        \* activities that deliver or cancel
    Sweeper,        \* the worker that runs processCurrentQueue
    Channel,        \* Channel[m]: "email", "sms" (and WhatsApp) or "push"
    Sensitive,      \* Sensitive[m]: is_sensitive
    MaxAttempts,    \* max_attempts of every row
    RateLimit,      \* OUTBOX_RATE_<CHANNEL>_PER_MINUTE, messages per channel
    MaxEpoch,       \* bound: organization lifecycle changes
    MaxRequeues,    \* bound: staff retries of a cancelled or unknown row
    MaxHandOvers,   \* bound: failed rows are retried up to so many accepts
    MaxFaults       \* bound: workers that stop, or stall for minutes

Channels == {"email", "sms", "push"}

ASSUME OutboxAssumption ==
    /\ Messages # {} /\ IsFiniteSet(Messages)
    /\ Sweeper \in Workers
    /\ IsFiniteSet(Workers)
    /\ Channel \in [Messages -> Channels]
    /\ Sensitive \in [Messages -> BOOLEAN]
    /\ MaxAttempts \in Nat \ {0}
    /\ RateLimit \in Nat \ {0}
    /\ MaxEpoch \in Nat
    /\ MaxRequeues \in Nat
    /\ MaxHandOvers \in Nat
    /\ MaxFaults \in Nat

VARIABLES
    row,        \* message_outbox
    org,        \* organizations.status / outbound_delivery_epoch of the owner
    worker,     \* what each worker is doing, and its local copy of the row
    sweep,      \* the sweep's position, due rows and per-minute budget
    job,        \* rows with a 'message-outbox' job not run yet
    reported,   \* the last outcome the producer's handler was told
    accepted,   \* history: times the provider took the message
    requeues,   \* history: staff retries from cancelled or outcome_unknown
    confirms,   \* history: the ones made with confirm_possible_duplicate
    faults      \* how many workers stopped or stalled so far

vars == <<row, org, worker, sweep, job, reported,
          accepted, requeues, confirms, faults>>

history == <<accepted, requeues, confirms>>

----------------------------------------------------------------------------
(* Statuses and local states *)

Final == {"sent", "skipped", "failed", "outcome_unknown", "cancelled"}
RETRYABLE_FROM == {"failed", "outcome_unknown", "cancelled"}
CANCELLABLE_FROM == {"queued", "failed", "outcome_unknown"}
Statuses == {"none", "queued", "claimed", "sending"} \cup Final

Outcomes == {"sent", "skipped", "retry", "failed", "unknown"}

(* How old claimed_at is, as far as recoverStale tells: 1 is more than     *)
(* CLAIM_STALE_MINUTES, 2 more than SENDING_STALE_MINUTES.  For a sent     *)
(* row, how old sent_at is: 1 is more than the minute of the budget.       *)
ClaimStale == 1
SendingStale == 2
OverAMinute == 1

Rows == [status : Statuses, attempts : Nat, due : BOOLEAN,
         age : 0..SendingStale, epoch : Nat, body : BOOLEAN]

PCs == {"idle", "read", "claimed", "allowed", "blocked", "calling",
        "accepted", "answered", "clearing", "notifying"}

Results == Outcomes \cup Final \cup {"none"}

Locals == [pc : PCs, msg : Messages, attempts : Nat, res : Results]

AnyMessage == CHOOSE m \in Messages : TRUE

Idle == [pc |-> "idle", msg |-> AnyMessage, attempts |-> 0, res |-> "none"]

Requests == Workers \ {Sweeper}

TypeOK ==
    /\ row \in [Messages -> Rows]
    /\ org \in [active : BOOLEAN, epoch : Nat]
    /\ worker \in [Workers -> Locals]
    /\ sweep \in [pc : {"recover", "select", "deliver"},
                  batch : SUBSET Messages,
                  seen : [Messages -> Nat],
                  used : [Channels -> Nat]]
    /\ job \subseteq Messages
    /\ reported \in [Messages -> Results]
    /\ accepted \in [Messages -> Nat]
    /\ requeues \in [Messages -> Nat]
    /\ confirms \in [Messages -> Nat]
    /\ faults \in Nat

EmptySweep == [pc |-> "recover", batch |-> {},
               seen |-> [m \in Messages |-> 0],
               used |-> [c \in Channels |-> 0]]

Init ==
    /\ row = [m \in Messages |->
                [status |-> "none", attempts |-> 0, due |-> TRUE,
                 age |-> 0, epoch |-> 0, body |-> FALSE]]
    /\ org = [active |-> TRUE, epoch |-> 0]
    /\ worker = [w \in Workers |-> Idle]
    /\ sweep = EmptySweep
    /\ job = {}
    /\ reported = [m \in Messages |-> "none"]
    /\ accepted = [m \in Messages |-> 0]
    /\ requeues = [m \in Messages |-> 0]
    /\ confirms = [m \in Messages |-> 0]
    /\ faults = 0

----------------------------------------------------------------------------
(* Enqueue.  The row is 'queued', or 'skipped' when the organization is    *)
(* inactive or (not for push) the client's preferences refuse it.  A       *)
(* skipped row keeps its body.  A dedupe_key seen before inserts nothing.  *)

Enqueue(m) ==
    /\ row[m].status = "none"
    /\ \E status \in {"queued", "skipped"} :
         /\ ~org.active => status = "skipped"
         /\ org.active /\ Channel[m] = "push" => status = "queued"
         /\ row' = [row EXCEPT ![m].status = status,
                               ![m].epoch = org.epoch, ![m].body = TRUE]
         /\ \/ job' = job
            \/ status = "queued" /\ job' = job \cup {m}
    /\ UNCHANGED <<org, worker, sweep, reported, history, faults>>

----------------------------------------------------------------------------
(* Reading a row to deliver.  The local copy keeps the attempts read.      *)

Holding(w, m, attempts) ==
    worker' = [worker EXCEPT ![w] =
                 [pc |-> "read", msg |-> m, attempts |-> attempts,
                  res |-> "none"]]

(* deliverNow, the job: only a queued row that is due. *)
DeliverNow(w, m) ==
    /\ worker[w].pc = "idle" /\ m \in job
    /\ job' = job \ {m}
    /\ IF row[m].status = "queued" /\ row[m].due
         THEN Holding(w, m, row[m].attempts)
         ELSE UNCHANGED worker
    /\ UNCHANGED <<row, org, sweep, reported, history, faults>>

(* sendNow, after its enqueue (which may have found an earlier row with    *)
(* the same dedupe_key): a queued row, due or not.                         *)
SendNow(w, m) ==
    /\ worker[w].pc = "idle"
    /\ row[m].status = "queued"
    /\ Holding(w, m, row[m].attempts)
    /\ UNCHANGED <<row, org, sweep, job, reported, history, faults>>

----------------------------------------------------------------------------
(* The sweep: processCurrentQueue *)

RequeuedClaim(m) ==
    IF row[m].status = "claimed" /\ row[m].age >= ClaimStale
      THEN [row[m] EXCEPT !.status = "queued", !.age = 0] ELSE row[m]

(* Mutant of RecoveredRow: stale 'sending' rows are forgotten. *)
RecoveredClaimOnly(m) == RequeuedClaim(m)

RecoveredRow(m) ==
    IF row[m].status = "sending" /\ row[m].age >= SendingStale
      THEN [row[m] EXCEPT !.status = "outcome_unknown"]
      ELSE RequeuedClaim(m)

RecoverStale ==
    /\ worker[Sweeper].pc = "idle" /\ sweep.pc = "recover"
    /\ row' = [m \in Messages |-> RecoveredRow(m)]
    /\ sweep' = [sweep EXCEPT !.pc = "select"]
    /\ UNCHANGED <<org, worker, job, reported, history, faults>>

DueRows == {m \in Messages : row[m].status = "queued" /\ row[m].due}

SentThisMinute(c) ==
    {m \in Messages : /\ Channel[m] = c
                      /\ row[m].status = "sent" /\ row[m].age < OverAMinute}

(* SELECT the due rows, and per channel how many were sent in the minute. *)
SelectDue ==
    /\ worker[Sweeper].pc = "idle" /\ sweep.pc = "select"
    /\ sweep' =
         IF DueRows = {}
           THEN EmptySweep
           ELSE [pc |-> "deliver",
                 batch |-> DueRows,
                 seen |-> [m \in Messages |->
                             IF m \in DueRows THEN row[m].attempts ELSE 0],
                 used |-> [c \in Channels |-> Cardinality(SentThisMinute(c))]]
    /\ UNCHANGED <<row, org, worker, job, reported, history, faults>>

OverBudget(m) == sweep.used[Channel[m]] >= RateLimit

Without(m) == [sweep EXCEPT !.batch = @ \ {m}, !.seen[m] = 0]

(* Out of budget: wait for the next minute. *)
Defer(m) ==
    /\ worker[Sweeper].pc = "idle" /\ m \in sweep.batch
    /\ OverBudget(m)
    /\ row' = IF row[m].status = "queued"
                THEN [row EXCEPT ![m].due = FALSE] ELSE row
    /\ sweep' = Without(m)
    /\ UNCHANGED <<org, worker, job, reported, history, faults>>

(* The next row of the batch goes to deliverRow as it was SELECTed. *)
PickDue(m) ==
    /\ worker[Sweeper].pc = "idle" /\ m \in sweep.batch
    /\ ~OverBudget(m)
    /\ Holding(Sweeper, m, sweep.seen[m])
    /\ sweep' = Without(m)
    /\ UNCHANGED <<row, org, job, reported, history, faults>>

(* The sweep is over when its last row is. *)
EndPass ==
    /\ worker[Sweeper].pc = "idle"
    /\ sweep.pc = "deliver" /\ sweep.batch = {}
    /\ sweep' = EmptySweep
    /\ UNCHANGED <<row, org, worker, job, reported, history, faults>>

----------------------------------------------------------------------------
(* deliverRow *)

Goto(w, pc) == worker' = [worker EXCEPT ![w].pc = pc]

(* The claim is refused unless the row is still queued.  The local copy    *)
(* counts from the attempts it read; the row counts from its own.          *)
Claim(w) ==
    LET m == worker[w].msg IN
    /\ worker[w].pc = "read"
    /\ IF row[m].status = "queued"
         THEN /\ row' = [row EXCEPT ![m].status = "claimed", ![m].age = 0,
                                    ![m].attempts = @ + 1]
              /\ worker' = [worker EXCEPT ![w].pc = "claimed",
                                          ![w].attempts = @ + 1]
         ELSE /\ worker' = [worker EXCEPT ![w] = Idle]
              /\ UNCHANGED row
    /\ UNCHANGED <<org, sweep, job, reported, history, faults>>

ReadOwner(w) ==
    /\ worker[w].pc = "claimed"
    /\ Goto(w, IF org.active /\ org.epoch = row[worker[w].msg].epoch
                 THEN "allowed" ELSE "blocked")
    /\ UNCHANGED <<row, org, sweep, job, reported, history, faults>>

(* claimed -> sending for a blocked message: the result is not looked at. *)
MarkBlocked(w) ==
    LET m == worker[w].msg IN
    /\ worker[w].pc = "blocked"
    /\ row' = IF row[m].status = "claimed"
                THEN [row EXCEPT ![m].status = "sending"] ELSE row
    /\ worker' = [worker EXCEPT ![w].pc = "answered", ![w].res = "skipped"]
    /\ UNCHANGED <<org, sweep, job, reported, history, faults>>

(* Mutant of MarkSending: the update's affectedRows is not looked at. *)
MarkSendingUnchecked(w) ==
    /\ worker[w].pc = "allowed"
    /\ row' = IF row[worker[w].msg].status = "claimed"
                THEN [row EXCEPT ![worker[w].msg].status = "sending"] ELSE row
    /\ Goto(w, "calling")
    /\ UNCHANGED <<org, sweep, job, reported, history, faults>>

(* claimed -> sending just before the provider call; lost when the claim   *)
(* is gone.                                                                *)
MarkSending(w) ==
    LET m == worker[w].msg IN
    /\ worker[w].pc = "allowed"
    /\ IF row[m].status = "claimed"
         THEN /\ row' = [row EXCEPT ![m].status = "sending"]
              /\ Goto(w, "calling")
         ELSE /\ worker' = [worker EXCEPT ![w] = Idle]
              /\ UNCHANGED row
    /\ UNCHANGED <<org, sweep, job, reported, history, faults>>

(* Mutants of the answers: no answer read as success; a timeout of an SMS  *)
(* that was taken read as a retryable failure.                             *)
UnsentAnswersHopeful(channel) == {"skipped", "retry", "failed", "unknown", "sent"}
AcceptedAnswersRetryAll(channel) == {"sent", "retry", "unknown"}

(* What an adapter may answer when the provider has not taken the message  *)
(* (consent or the organization refuses it, an error status, no            *)
(* connection, a timeout, a throw) and when it has.  smsTransport reports  *)
(* unsent only for a failure that proves it; the email transport answers   *)
(* a timeout with a retryable failure.                                     *)
UnsentAnswers(channel) ==
    CASE channel = "push" -> {"skipped", "retry", "unknown"}
      [] OTHER -> {"skipped", "retry", "failed", "unknown"}

AcceptedAnswers(channel) ==
    CASE channel = "sms" -> {"sent", "unknown"}
      [] OTHER -> {"sent", "retry", "unknown"}

ProviderAccepts(w) ==
    /\ worker[w].pc = "calling"
    /\ accepted' = [accepted EXCEPT ![worker[w].msg] = @ + 1]
    /\ Goto(w, "accepted")
    /\ UNCHANGED <<row, org, sweep, job, reported, requeues, confirms, faults>>

Answer(w) ==
    /\ \/ /\ worker[w].pc = "calling"
          /\ \E res \in UnsentAnswers(Channel[worker[w].msg]) :
               worker' = [worker EXCEPT ![w].pc = "answered", ![w].res = res]
       \/ /\ worker[w].pc = "accepted"
          /\ \E res \in AcceptedAnswers(Channel[worker[w].msg]) :
               worker' = [worker EXCEPT ![w].pc = "answered", ![w].res = res]
    /\ UNCHANGED <<row, org, sweep, job, reported, history, faults>>

(* Mutant of FinishStatus: the outcome's word is stored as the status. *)
FinishStatusRaw(res, attempts) == IF res = "unknown" THEN "outcome_unknown" ELSE res

(* finish: the status the answer stands for, by the local attempts. *)
FinishStatus(res, attempts) ==
    CASE res = "sent" -> "sent"
      [] res = "skipped" -> "skipped"
      [] res = "unknown" -> "outcome_unknown"
      [] res = "retry" /\ attempts < MaxAttempts -> "queued"
      [] OTHER -> "failed"

FinishWhere(w, from) ==
    LET m == worker[w].msg
        status == FinishStatus(worker[w].res, worker[w].attempts)
    IN
    /\ worker[w].pc = "answered"
    /\ IF row[m].status \in from
         THEN /\ row' = [row EXCEPT
                             ![m].status = status, ![m].age = 0,
                             ![m].due = IF status = "queued" THEN FALSE ELSE @]
              /\ worker' = [worker EXCEPT ![w] =
                   IF status = "queued"
                     THEN Idle
                     ELSE [@ EXCEPT !.pc = IF Sensitive[m] THEN "clearing"
                                                           ELSE "notifying",
                                    !.res = status]]
              /\ sweep' = IF w = Sweeper /\ status = "sent"
                            THEN [sweep EXCEPT !.used[Channel[m]] = @ + 1]
                            ELSE sweep
         ELSE /\ worker' = [worker EXCEPT ![w] = Idle]
              /\ UNCHANGED <<row, sweep>>
    /\ UNCHANGED <<org, job, reported, history, faults>>

(* Mutant of Finish: the UPDATE has no status condition. *)
FinishAnyStatus(w) == FinishWhere(w, Statuses)

(* Only a row still 'sending' is finished; otherwise the result is lost. *)
Finish(w) == FinishWhere(w, {"sending"})

ClearSensitive(w) ==
    /\ worker[w].pc = "clearing"
    /\ row' = [row EXCEPT ![worker[w].msg].body = FALSE]
    /\ Goto(w, "notifying")
    /\ UNCHANGED <<org, sweep, job, reported, history, faults>>

NotifyOutcome(w) ==
    /\ worker[w].pc = "notifying"
    /\ reported' = [reported EXCEPT ![worker[w].msg] = worker[w].res]
    /\ worker' = [worker EXCEPT ![w] = Idle]
    /\ UNCHANGED <<row, org, sweep, job, history, faults>>

DeliverStep(w) ==
    \/ Claim(w) \/ ReadOwner(w) \/ MarkBlocked(w) \/ MarkSending(w)
    \/ ProviderAccepts(w) \/ Answer(w) \/ Finish(w)
    \/ ClearSensitive(w) \/ NotifyOutcome(w)

(* A statement throws and deliverRow is left: the sweep goes on with its   *)
(* next row.  Or the process stops: the worker is gone with everything it  *)
(* held in memory, and a sweep with its whole batch.                       *)
Crash(w) ==
    /\ faults < MaxFaults
    /\ worker[w].pc # "idle"
    /\ faults' = faults + 1
    /\ worker' = [worker EXCEPT ![w] = Idle]
    /\ \/ sweep' = sweep
       \/ w = Sweeper /\ sweep' = EmptySweep
    /\ UNCHANGED <<row, org, job, reported, history>>

----------------------------------------------------------------------------
(* Staff.  Both read the row and then update it only if the status is      *)
(* still the one read, which is one step of the row.                       *)

Requeue(m, confirmPossibleDuplicate) ==
    /\ row[m].status \in RETRYABLE_FROM
    /\ row[m].status = "outcome_unknown" => confirmPossibleDuplicate
    /\ IF row[m].status = "failed"
         THEN /\ accepted[m] < MaxHandOvers
              /\ UNCHANGED <<requeues, confirms>>
         ELSE /\ requeues[m] < MaxRequeues
              /\ requeues' = [requeues EXCEPT ![m] = @ + 1]
              /\ confirms' = IF confirmPossibleDuplicate
                               THEN [confirms EXCEPT ![m] = @ + 1]
                               ELSE confirms
    /\ row' = [row EXCEPT ![m].status = "queued", ![m].attempts = 0,
                          ![m].due = TRUE, ![m].age = 0]
    /\ UNCHANGED <<org, worker, sweep, job, reported, accepted, faults>>

(* Mutant of Retry: secret messages are not refused. *)
RetryAnySecrecy(m, confirmPossibleDuplicate) == Requeue(m, confirmPossibleDuplicate)

Retry(m, confirmPossibleDuplicate) ==
    /\ ~Sensitive[m]
    /\ Requeue(m, confirmPossibleDuplicate)

(* Mutant of CancelRow: the secret is not cleared. *)
CancelRowKeepingBody(w, m, from) ==
    /\ worker[w].pc = "idle"
    /\ row[m].status \in from
    /\ row' = [row EXCEPT ![m].status = "cancelled", ![m].age = 0]
    /\ worker' = [worker EXCEPT ![w] =
         [pc |-> "notifying",
          msg |-> m, attempts |-> 0, res |-> "cancelled"]]
    /\ UNCHANGED <<org, sweep, job, reported, history, faults>>

CancelRow(w, m, from) ==
    /\ worker[w].pc = "idle"
    /\ row[m].status \in from
    /\ row' = [row EXCEPT ![m].status = "cancelled", ![m].age = 0]
    /\ worker' = [worker EXCEPT ![w] =
         [pc |-> IF Sensitive[m] THEN "clearing" ELSE "notifying",
          msg |-> m, attempts |-> 0, res |-> "cancelled"]]
    /\ UNCHANGED <<org, sweep, job, reported, history, faults>>

Cancel(w, m) == CancelRow(w, m, CANCELLABLE_FROM)

(* The producer withdraws what is still queued (a cancelled campaign). *)
CancelQueuedBySource(w, m) == CancelRow(w, m, {"queued"})

----------------------------------------------------------------------------
(* Environment: the organization is suspended or reactivated (the trigger  *)
(* bumps its epoch), and time passes.                                      *)

ToggleOrganization ==
    /\ org.epoch < MaxEpoch
    /\ org' = [active |-> ~org.active, epoch |-> org.epoch + 1]
    /\ UNCHANGED <<row, worker, sweep, job, reported, history, faults>>

(* Some worker is between its claim of m and its finish. *)
Attended(m) ==
    \E w \in Workers :
        /\ worker[w].msg = m
        /\ worker[w].pc \in {"claimed", "allowed", "blocked", "calling",
                             "accepted", "answered"}

(* A wait or a minute elapses, or claimed_at grows old.  Under a live worker a claim   *)
(* grows that old only if the worker stalls (a paused process, a starved   *)
(* connection pool), which is a fault.                                     *)
TimePasses(m) ==
    /\ \/ /\ row[m].status = "queued" /\ ~row[m].due
          /\ row' = [row EXCEPT ![m].due = TRUE]
          /\ UNCHANGED faults
       \/ /\ row[m].status = "sent" /\ row[m].age < OverAMinute
          /\ row' = [row EXCEPT ![m].age = OverAMinute]
          /\ UNCHANGED faults
       \/ /\ row[m].status \in {"claimed", "sending"}
          /\ \E age \in ClaimStale..SendingStale :
               age > row[m].age /\ row' = [row EXCEPT ![m].age = age]
          /\ IF Attended(m)
               THEN faults < MaxFaults /\ faults' = faults + 1
               ELSE UNCHANGED faults
    /\ UNCHANGED <<org, worker, sweep, job, reported, history>>

----------------------------------------------------------------------------
SweepStep ==
    \/ RecoverStale \/ SelectDue \/ EndPass
    \/ \E m \in Messages : Defer(m) \/ PickDue(m)

RequestStep ==
    \E w \in Requests, m \in Messages :
        DeliverNow(w, m) \/ SendNow(w, m)
        \/ Cancel(w, m) \/ CancelQueuedBySource(w, m)

StaffRetry ==
    \E m \in Messages, confirm \in BOOLEAN : Retry(m, confirm)

Next ==
    \/ \E m \in Messages : Enqueue(m)
    \/ SweepStep
    \/ RequestStep
    \/ StaffRetry
    \/ \E w \in Workers : DeliverStep(w)
    \/ \E w \in Workers : Crash(w)
    \/ ToggleOrganization
    \/ \E m \in Messages : TimePasses(m)

(* The scheduler runs the sweep every minute, a started worker goes on     *)
(* (every provider call has a timeout), and time passes.  Nothing else is  *)
(* promised: jobs may be lost, staff may do nothing.                       *)
Fairness ==
    /\ WF_vars(SweepStep)
    /\ \A w \in Workers : WF_vars(DeliverStep(w))
    /\ \A m \in Messages : WF_vars(TimePasses(m))

SafetySpec == Init /\ [][Next]_vars

Spec == SafetySpec /\ Fairness

----------------------------------------------------------------------------
(* Correctness *)

AtMostOnce == {m \in Messages : Channel[m] = "sms"}

(* The workers that could still make, or report as not made, a provider    *)
(* call for m.                                                             *)
Rights(m) ==
    {w \in Workers :
        /\ worker[w].msg = m
        /\ \/ worker[w].pc = "calling"
           \/ worker[w].pc = "answered" /\ worker[w].res \in {"retry", "failed"}}

(* The row itself still stands for a call not made. *)
RowRight(m) ==
    IF row[m].status \in {"none", "queued", "claimed", "failed"} THEN 1 ELSE 0

(* The right to call the provider for an SMS is never duplicated: it is    *)
(* with the row, with one worker in its call, or spent on an acceptance,   *)
(* and only a staff retry of a cancelled or unknown row (retry()) makes a  *)
(* new one.  In particular the provider takes an SMS at most once per such *)
(* retry plus one, and a 'failed' SMS staff never retried reached nobody,  *)
(* whatever stale claims recoverStale hands to a second worker.            *)
SendRightConserved ==
    \A m \in AtMostOnce :
        accepted[m] + Cardinality(Rights(m)) + RowRight(m) <= 1 + requeues[m]

(* A row says 'sent' only when the provider has taken the message: a late  *)
(* finish() of another worker cannot claim it.                             *)
SentWasAccepted ==
    \A m \in Messages : row[m].status = "sent" => accepted[m] >= 1

(* A message that can still be delivered has its body: clearSensitive of a *)
(* slow worker never empties a row that is queued or claimed again.        *)
BodyWhileDeliverable ==
    \A m \in Messages :
        row[m].status \in {"queued", "claimed"} => row[m].body

(* A final row changes only by a staff retry or cancel: a late answer      *)
(* (finish's WHERE status = 'sending') and the sweep leave it alone, so    *)
(* an outcome_unknown message is resent by staff only.                     *)
FinalByStaffOnly ==
    [][\A m \in Messages :
          row[m].status \in Final =>
              \/ row'[m].status = row[m].status
              \/ row'[m].status = "cancelled"
              \/ row'[m].status = "queued" /\ ~Sensitive[m] /\ row'[m].attempts = 0
      ]_vars

(* Every enqueued message reaches a final status, whoever faults: stale   *)
(* claims are requeued, stale sends are settled, retries run out.          *)
EventuallyFinal ==
    \A m \in Messages :
        row[m].status \in {"queued", "claimed", "sending"}
            ~> row[m].status \in Final

(* What the producers see of a row. *)
PhaseOf(status) ==
    CASE status = "none" -> "absent"
      [] status \in {"queued", "claimed", "sending"} -> "pending"
      [] status = "sent" -> "delivered"
      [] status = "failed" -> "undelivered"
      [] status = "outcome_unknown" -> "unknown"
      [] OTHER -> "closed"

Contract ==
    INSTANCE DeliveryContract WITH
        phase <- [m \in Messages |-> PhaseOf(row[m].status)],
        rights <- [m \in Messages |->
                     IF m \in AtMostOnce THEN 1 + requeues[m] - accepted[m]
                                         ELSE 1 + requeues[m]],
        taken <- accepted

(* The outbox keeps its promise to producers: seen from outside, claims,   *)
(* sweeps, recoveries and late answers are steps of the contract or none.  *)
ImplementsContract == Contract!Spec

(* messageOutbox.js, retry(): "retrying it needs confirmPossibleDuplicate".*)
(* Without a confirmed duplicate an SMS reaches the provider once.         *)
DuplicateOnlyIfConfirmed ==
    \A m \in AtMostOnce : accepted[m] <= 1 + confirms[m]

(* clearSensitive: "A secret-bearing message keeps no body once it is      *)
(* final", unless a worker is about to clear it or stopped before.  A      *)
(* message skipped at enqueue, or recovered as unknown, keeps it.          *)
SensitiveBodyCleared ==
    faults = 0 =>
      \A m \in Messages :
         /\ Sensitive[m] /\ row[m].body
         /\ row[m].status \in Final \ {"skipped", "outcome_unknown"}
         => \E w \in Workers : worker[w].pc = "clearing" /\ worker[w].msg = m

=============================================================================
