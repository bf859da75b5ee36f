# TLA+ models of the platform's money and message paths

The repository is a platform for internet providers: billing, payments,
Mexican tax documents, network access, support and messaging, as one Node.js
service over MySQL, with a scheduler and optional Redis workers. This
directory holds TLA+ specifications of the parts where several actors meet
over shared rows, the TLC runs that check them and the TLAPS proofs about them.
`PROJECT.json` maps every definition to the lines it models.

    tlc -workers 2 -config MCOutboxSms.cfg MCMessageOutbox
    tlapm MessageOutboxProofs.tla

## Inventory

| Component | State it keeps | Operations | What is hard | What makes it correct |
|---|---|---|---|---|
| Message outbox (`messageOutbox.js`, transports) | `message_outbox` rows: status, attempts, next attempt, claim time, body | enqueue, sweep, job, sendNow, finish, recover, retry, cancel | several deliverers, stops in mid-call, late answers, stale copies | an SMS is not sent twice by itself; nothing is stuck; final means final |
| Payment allocation (`payments.js`, `paymentAllocationService.js`, `billingService.js`) | payments, allocations, invoice status, balance ledger | allocate, auto, reallocate, unapply, reassign, edit, delete, restore, void, SAT cancel | snapshots against row locks, autocommit sequences, amounts nobody validates | no payment spent twice, no invoice over-collected, only real money settles, the ledger credit mirrors the payment |
| Campaigns (`campaignService.js`, `outboxOutcomeHandlers.js`) | campaign and message status, counters | dispatch, send, cancel, outcomes, callbacks | cancel and dispatch again around the outbox, late outcomes, manual runs beside the scheduler's | one owner per message, everything counted once, the campaign ends |
| Gateway reconciliation (`paymentGatewayService.js`, `checkoutService.js`) | transactions, webhook events, chargebacks, the payment posted | charge, checkout, webhook, refund, sweep | the same charge told twice, out of order, answers lost | payment, ledger and the provider's money agree |
| Autopay and payment retries (`checkoutService.js`, `paymentRetryService.js`) | transactions, idempotency keys, retry schedules | daily charge, hourly retry, cancel | undecided and failed charges, stale copies, stopped runs, overlapping tasks | the card is charged once for what is owed, and no invoice is forgotten |
| Scheduler, locks, workers (`scheduler.js`, `advisoryLock.js`, `taskRunner.js`, `jobQueueService.js`) | task rows, advisory locks, jobs | tick, run, drain | two processes, long runs | a task runs once at a time |
| Reseller collection and ledger | reseller entries, payments | collect, void, settle | void against staff actions | the ledger matches the payments |
| Credit notes, REP, refunds | applications, documents | apply, release, issue | interplay with allocation and void | applied credit fits the note and the invoice |
| Suspension, contracts, lifecycle | contract status, RADIUS state | suspend, reconnect, activate, change plan | payment racing suspension | a paid client is not left cut off |
| Auth and sessions | tokens, session versions | login, refresh, revoke | refresh racing revoke | a revoked session stays revoked |
| IP pools, inventory serials | assignments | assign, release | two assignments at once | one owner |
| Webhooks, automation, CFDI, ACS, RADIUS, monitoring, WireGuard, tenancy, realtime, reports, frontend | see `PROJECT.json` | | mostly I/O and protocol handling | not planned |

How they interact: producers (campaigns, reminders, auth, support) put rows in
the outbox and are told outcomes by `onOutcome` handlers; the scheduler calls
`processQueue` under an advisory lock; routes, the gateway and the reseller app
share `paymentAllocationService` to write allocations; `cfdiService` calls
`cancelInvoiceForSat` when SAT accepts a cancellation; allocation asks
suspension to reconnect after its commit.

## Modules

`MessageOutbox` models the outbox. One worker is the sweep, the others are job
runs and HTTP requests. A worker's local state (`pc`, message, attempts read,
result) is the position inside `deliverRow`/`finish`; every SQL statement of the
code is an action, because each is its own transaction. `row` is the table (one
row per dedupe key; `due` is `next_attempt_at <= NOW()`, `age` is how old
`claimed_at` or `sent_at` is as far as any query tells), `org` the lifecycle
epoch of the owner, `job` the queued jobs, `reported` the last outcome told to
the producer. `accepted`, `requeues` and `confirms` are history. An adapter is
the set of answers it can give when the provider has, or has not, taken the
message. Simplifications: the two UPDATEs of `recoverStale` are one step (they
touch different statuses); a staff action's read and compare-and-set is one
step; consent and organization checks inside the transports appear as the
answer "skipped"; the batch is delivered in any order, and its limit of 100 is
not reached; an HTTP error status is taken as "not sent", as `provablyUnsent`
does.

`DeliveryContract` is what producers may rely on, without workers or claims: a
right to hand over, spent by a hand-over, renewed only by resending a closed or
unknown message. `MessageOutbox!Contract` is the refinement mapping. `LoseTrack`
is of a set of messages, because one statement of `recoverStale` gives up every
stale row there is.

`PaymentAllocation` models the allocation routes over an InnoDB database under
REPEATABLE READ, as `ARCHITECTURE.md` 626-632 and the comment above
`lockInvoicesForAllocation` describe it: `FOR UPDATE` and `UPDATE` see and lock
the latest row, a plain read (also in a trigger) sees the snapshot fixed by the
transaction's first plain read plus its own writes. A request carries its
position, its locks (`held`, and its payment while `HoldsPayment`) and its
snapshot. In every route the writes come after the last lock, so writes and
commit are one action whose guards use the snapshot. `unapply`, `reassign` and
the refresh after a commit lock nothing up front, void and SAT cancellation are
autocommit statements: each read and write of those is a separate action.
`Abandon` is a refusal, an error, a deadlock victim or a stopped process.
Amounts are whole and of any sign where the code lets them be: payments and
`/allocate` take 0 and more (`schemas/payments.js`), `reallocate` takes what
`parseFloat` makes of its body (`payments.js` 556, `Moves`), the column is
signed and the guard triggers look upward only. A sum of such rows is the
difference of two counts (`SumOf`). The triggers of a transaction that writes
several rows are one condition on the rows as they end up; where some of them
are negative, an order of writing that a trigger refuses is an `Abandon`.
Simplifications: one currency and organization; amounts are whole cents, so the
code's tolerance of 0.005 against the triggers' exact comparison plays no part;
`issued` stands for issued, sent and overdue; a payment is completed or not;
payments exist, credited, from the start; the guard against draft and live REPs
is an `Abandon`; credit notes, invoice debits and reconnection are left out; the
release of a settled invoice reads and updates in one step.

`GatewayReconcile` models one `payment_transactions` row from charge or checkout
to refund or dispute. Beside the row (`tx`) it keeps what was posted from it
(`books`), what the provider really did (`money`), the events the provider sent
(`sent`, of those it is `subscribed` to), `webhook_events` and `chargebacks`. A
sent event may be delivered at any time and again; each statement of
`processWebhookEvent`, `refund` and `charge` is a step. `reconcilePayment` and
`reverseRefund` hold the row, so each is one step. `slips` is history: it names
the three ways in which status and money come apart in this code, and the
properties say that there is no fourth: `overtaken` (the webhook's update, which
does not look at the status again, came after another one), `lost` (a stop, or
an error `reverseRefund` swallows, after the event was marked or the refund
claimed), `released` (a refund took effect, its answer was lost, and the event
that says so was already refused). `charge`'s catch is none: its 'failed' never
reaches the row, because the same UPDATE writes plain text to the JSON column
`raw_response` (`paymentGatewayService.js` 259-263, `schema.sql` 6791) and MySQL
refuses it; `FailCharge` leaves the row pending. Any statement of a claimed
event may fail (`HookThrows`), and `MarkFailed` opens it to a redelivery.
Simplifications: Stripe's references stand for both providers; whole refunds
only, as in the code; what a posting does to invoices is `PaymentAllocation`'s
subject; card enrolment and REP flags are left out.

`Campaign` models one campaign over `DeliveryContract` (`Outbox`), not over the
whole outbox: `Finishes`, `Withdraw`, `StaffRetries`, `StaffCancels` and
`RecoveredStale` are the contract's steps together with what the outbox tells
the handler (`notices`), late and in any order. A message is a client and the
dispatch that inserted it; `msg` joins `status` with the markers of
`error_message`. Counters are kept per message (`tally`, `owed`), so that
counting twice shows. Statements are steps; dispatch and hand-off are
transactions. Cancelling or deleting (`SetAside`) commits first; its hook
SELECTs the ids to withdraw in a later statement, so it may withdraw messages of
a dispatch made in between. Simplifications: of the statuses and counters a PUT
or PATCH can write (the columns are fillable and `validate` does not strip
them), only `cancelled` is modelled. A PATCH to `draft` makes the next dispatch
skip the superseding, and one to `sent` or of a counter says what it likes:
`OneQueuedPerClient`, `SentIsOver` and the counting properties are about
campaigns whose status and counters only the service and a cancellation write.
Restoring a deleted campaign (POST /:id/restore) is not modelled either; a
`campaign_messages` row with the pre-outbox marker 'Delivery claimed' is never
written any more and is left out; callbacks are for messages the outbox reported
as sent (before that the row has no provider id).

`Autopay` models the automatic collection of one invoice from one card. A charge
is named by its idempotency key, `recurring` per day and `retry` per attempt:
`tx` is its transaction, `stored` its cached answer, `charge` what the provider
made of it, `calls` how often the provider acted. Each statement of
`chargeRecurringProfile`, `executeRetry` and `charge` is a step of a run that
may stop; `Begin` is the scheduler's lock, which a manual run does not take.
`Webhook` and `Post` are one step each, `GatewayReconcile` has their detail; an
event that comes before the reference is stored is left to it too. A charge the
provider declines, refuses or does not answer is not recorded as failed:
`charge`'s catch writes plain text to a JSON column and throws
(`FailureThrows`), so its row stays pending without a reference, no answer is
stored for its key, the daily task ends before `scheduleRetry`, and
`executeRetry` counts a failed attempt. A failed row comes only from a webhook
or a profile without a token (`InsertTokenless`). Simplifications: a charge is
for the whole invoice; the card or gateway found inactive is a choice of
`CheckBalance` and `ChargeThrows`; a cached answer may have expired or be
missing (`ChargeThrows`).

`MCMessageOutbox`, `MCPaymentAllocation`, `MCGatewayReconcile`, `MCCampaign` and
`MCAutopay` give the instances values. The theorems are in `MessageOutboxProofs`
and `OutboxContractProofs`, which goes on from it; in `PaymentAllocationProofs`
(the locks), `PaymentSumsProofs` (the money) and `PaymentViewProofs` (what a
transaction's view is good for), each going on from the one before; and in
`GatewayReconcileProofs`, `CampaignProofs` and `AutopayProofs`.

## Runs

| Run | Result | Shows |
|---|---|---|
| `outbox_sms` | holds | `SendRightConserved`: the right to call the SMS provider is with the row, with one worker, or spent, whatever stale claims are recovered; `SentWasAccepted`, `FinalByStaffOnly`; the outbox implements `DeliveryContract` |
| `outbox_shared` | holds | `BodyWhileDeliverable` beside `SensitiveBodyCleared`; `EventuallyFinal` with a budget, deferral and a fault |
| `outbox_confirm` | violated | cancel, then retry, resends an unknown SMS without confirmation |
| `payments` | holds | with reallocations of a negative amount among them: `PaymentNotOverspent`, `InvoiceNotOvercollected` and `OnlySettledMoney` for the payments and invoices that never had a negative row, the waterfall of allocate-auto fits the payment and the invoices (`WaterfallFits`), and why: `SnapshotCoversPayment`, `SnapshotCoversInvoices`; the guard triggers refuse nothing that was planned (`ChecksSuffice`), and an invoice that an allocation covered or uncovered is marked so, now or by the statement that follows (`StatusFollowsCover`); the ledger credit mirrors the payment unless a reassign read it too early (`CreditFollowsPayment`) |
| `payments_restore` | violated | a restore locks no invoice and over-collects beside an allocation |
| `payments_terminal` | violated | restoring a payment turns a void invoice paid |
| `payments_release` | violated | a stop between cancelling and releasing leaves money on the invoice for good |
| `gateway` | holds | whatever order and number of deliveries: posted and reversed once (`LedgerMatchesPayment`), only what was returned is reversed (`ReversedWasReturned`) and what was returned is reversed (`BooksFollowMoney`), a capture is not demoted (`CapturedNotDemoted`), one refund and one delivery at a time, a dispute's outcome stays |
| `campaign` | holds | a message has one owner (`OwnedByOne`), one is queued per client (`OneQueuedPerClient`), all is counted once (`CountedOnce`, `CountedAll`), 'sent' is true of messages (`SentWasTaken`) and of campaigns (`SentIsOver`), a client gets one copy per dispatch and staff resend (`OneCopyPerDispatch`), and the campaign ends unless an outcome was never told (`CampaignEnds`) |
| `campaign_redispatch` | violated | the check for unresolved outcomes does not look at messages handed to the outbox: cancel and dispatch again, and the client gets two |
| `autopay` | holds | the provider acts once per key (`OneCallPerKey`), nothing is charged beside a charge taken or undecided, but for the attempt a retry took for a failure (`UndecidedNotRecharged`), a schedule that succeeded had a charge (`SucceededWasCharged`), and without a fault the daily task passes an unpaid invoice over for good only after a failure that took no money (`PassedOverOnlyByFailure`) |
| `autopay_twice` | violated | the balance is read before the check for charges in flight: a payment posted in between is seen by neither, and the card is charged again |

Bounds. `outbox_sms`: one SMS, two workers, two attempts, one staff requeue, two
accepts through failed retries, two faults, one organization change: a stale
claim handed over twice needs two faults, and the properties speak of one
message at a time. Several rows given up by one recovery do not occur there;
`ContractTheorem` has them. `outbox_shared`: two emails are the fewest that
compete for a budget of one; one attempt, no requeues of closed rows and one
fault keep the liveness graph small. `payments`: two concurrent requests are the
fewest that race, four in all let a third and a fourth use what they left, three
rows hold every allocation four requests make, totals 2 and 1 with payments of 2
and 1 let a payment end on, before and after an invoice, a reallocation
moves the whole allocation or -1, which makes room that an unapply takes back,
and invoice 1 has a CFDI so both ends of an invoice occur; requests are symmetric
(1 million states). Two instances were checked apart and are not kept as runs:
reallocations of -1, 0 and 1, which also do nothing and move a part (1.7
million), and, with these, allocating and paying 0, with payments of 1 (2.6
million). The run stops
where all requests have been made, so deadlock is not checked there. The violated
runs use smaller instances where the trace stays readable, and move whole
allocations only: what they show needs no negative row.

`gateway`: two deliveries and two refunds are the fewest that race, and both are
symmetric; one fault. The four sets of subscribed events pair captures with
refunds and with a dispute that is opened and lost, declines with captures and
refunds, and a dispute's opening with each outcome; a refund beside a dispute
was checked apart (7.4 million states) and is not kept as a run. A transaction
never meets another: every query names it. `campaign`: only dispatch,
batches and completion relate clients; one client with two dispatches has the
races around a redispatch, with one incident (fault or staff action) at a time.
The safety properties also held apart with two clients and one dispatch, where
batches are worked off in part (0.8 million states), and with two incidents (8.4
million). `autopay`: two days let a recurring key be replayed and a
second one be made, two attempts let a schedule go on and end, one schedule is
live at a time by `scheduleRetry`, and a manual retry run beside the scheduled
one is the incident that overlaps; a run of the daily task beside itself differs
only by its key, which is the same that day. These three systems may rest
whenever nobody acts, so deadlock is not checked in them.

Fairness (`MessageOutbox!Spec`): the sweep goes on (the scheduler starts it
every minute), a worker in `deliverRow` goes on (its statements return and
provider calls have timeouts), and time passes. Jobs may be lost and staff need
do nothing. A stop or a stall is bounded by `MaxFaults`: without a bound every
delivery could be stopped for ever. `Campaign!Spec`: the scheduled run goes on
(`campaign_send` is a scheduled task), the outbox finishes what it took, which
is what `EventuallyFinal` shows of it, and its worker goes on to call the
handler; staff, callbacks and withdrawals are not fair. Payments have no
liveness property: nothing in that code promises that a request succeeds.

## Known differences without a run

Seen while modelling; the models have the behaviour, and the properties above
are stated so that they name it.

* A secret message that is skipped at enqueue, or recovered as unknown, keeps
  its body (`messageOutbox.js` 352 says it does not). `SensitiveBodyCleared`
  excludes these two statuses.
* `reallocate` lets a negative allocation in, against the triggers' purpose
  ("Prevent over-allocation of a payment and over-application to an invoice at
  the database level", `schema.sql` 8411). Its row makes room on the payment and
  on the invoice; once the room is used and the row unapplied, the payment is
  overspent or the invoice over-collected, and nothing refuses that: the
  update's trigger counts the row as if it stayed. Rows that balance to 0 let
  `assertPaymentEditKeepsMoneyConsistent` pass an edit to refunded while they
  stand. While such a row is in a snapshot, the refresh may take a covered
  invoice for uncovered. The properties say `NeverNegative` for this.
* An ordinary decline of the daily charge ends the collection of its invoice
  without a fault: `charge`'s catch throws (see `Autopay` above), no retry is
  scheduled, and `hasChargeInFlight` finds the pending row every day from then
  on. The comment at `checkoutService.js` 441-446 wants the opposite: it "must feed
  the retry scheduler exactly like a hard failure so a stuck/declined profile
  doesn't silently stop collecting forever with nobody notified".
  `PassedOverOnlyByFailure` says what is left: no money was taken by such a row.
* `reassign` reads the payment without a lock and credits the amount it read: an
  edit or a delete in between leaves a credit that is not the payment's
  (`CreditFollowsPayment` names it).
* The sweep's older copy of a row is claimed without a look at
  `next_attempt_at`: a retry can jump its backoff.
* A webhook that judged a transition is not stopped by a refund's claim that
  commits before its update (`overtaken`): the claim is lost, and a second
  refund can be asked for.
* An event left `processing` by a stopped process is never taken up again
  (`lost`). For a capture the sweep posts it; a reversal is not made.
* A daily charge answered `pending` gets a retry after four hours, and
  `executeRetry` does not ask `hasChargeInFlight`.
* `executeRetry`'s update to `processing` is unconditional: a schedule that was
  cancelled after the batch's SELECT (a revoked card, a paid invoice) is charged
  all the same.
* A stopped run leaves its schedule `processing` or its transaction `pending`
  with a provisional reference; nothing takes them up, and the daily task passes
  the invoice over from then on.

## Proofs

Proved by TLAPS for all values of the constants that meet `OutboxAssumption`,
`PaymentAssumption`, `GatewayAssumption`, `CampaignAssumption` or
`AutopayAssumption`. These say that the sets of messages, clients and so on are
finite where something is counted over them, that amounts and bounds are natural
numbers, and that there is a message, a payment, an invoice or a day where an
idle worker's state names one. Every invariant and every action property that a
passing run checks has a theorem; each is about the specification without
fairness (`SafetySpec` where the module has both). A property that is not
inductive is proved from one that is:

Outbox (`MessageOutboxProofs`, `OutboxContractProofs`)

* `TypeCorrect`: `TypeOK`.
* `SendRightTheorem`: `SendRightConserved` with the type and `AnswersKnown` (a
  worker's answer is one the adapter can give for what the provider did). Each
  action moves a right between row, worker and provider, or, for `Retry`, grants
  one together with `requeues`.
* `SentTheorem`: `SentInv` adds that a worker about to write 'sent' had the
  message accepted.
* `BodyTheorem`: `BodyInv` adds that a worker about to clear a body has a final
  row of a secret message, and that such a row stays final (`SecretStaysFinal`),
  however late the worker is; rows of other messages are never emptied.
* `SecretTheorem`: `SensitiveBodyCleared` is inductive given the type, because
  whoever makes a secret message final goes on to clear it (`FinalIsCleared`).
* `FinalTheorem`: `FinalByStaffOnly`, the action property, from the ways a row
  may move (`RowMoves`).
* `ContractTheorem`: the refinement of `DeliveryContract`, action by action.
  Enqueue submits, the provider's acceptance hands over, `finish` settles,
  recovery loses track of a set of rows, cancel closes, a staff retry of a failed
  row retries and of a closed or unknown one resends, and all else stutters. That
  a hand-over finds a right to spend, and a failure keeps one, is
  `SendRightConserved` again.

Payment allocation, the locks (`PaymentAllocationProofs`)

* `PaymentSnapshotTheorem`, `InvoiceSnapshotTheorem`: what a transaction sums
  after its locks misses no live allocation of its payment, or of an invoice it
  locked (restores aside). The inductive invariant `IInv` says, per request,
  what its locks and snapshot still guarantee (`LocalOK`), that no two requests
  hold the same payment or invoice (`Apart`), and that a deleted payment has no
  live row. Every commit satisfies `RowStep` (rows may be deleted by anybody;
  rows become live only under the payment's lock, on invoices locked or
  revived), and `OthersKeep` shows once that such steps disturb nobody.
* `NoMoneyOfDeletedPayments`: a deleted payment has no live row.

Payment allocation, the money (`PaymentSumsProofs`)

* A sum of amounts that are not negative is the number of cents in it (`SumOver`,
  the cardinality of `Cents`), any other the difference of two (`SumOf`). That no
  rows sum to 0, that a row adds its amount (`SumAdds`) and that two groups of
  rows sum to the sum of their sums (`RowsInParts`) are then facts about finite
  sets, and no induction is needed. That fewer rows sum to no more
  (`RowsMonotone`) holds only where no row is negative, and is where the theorems
  need their exception.
* `PaymentsTyped`: `TypeOK`; `TypeInv` also types the snapshots and plans
  requests work with.
* `SnapsKeptHolds`: a row that a snapshot shows in use is still in use, with its
  payment, invoice and amount. So a payment or invoice that never had a negative
  row (`PlainOf`, `PlainOn`) has none in any snapshot either.
* `InvoiceTheorem`: `InvoiceNotOvercollected`. A step only removes rows or is a
  commit that satisfies `Writing`: it makes rows live after the guard triggers
  passed on the snapshot with those rows. By `InvoiceSnapshotTheorem`'s
  invariant that view misses no live row of the invoice, and the rows it has
  beyond those are not negative, so the sum checked bounds the true one.
* `PaymentTheorem`: `PaymentNotOverspent`, the same argument on the payment's
  side; it needs `Knows`: whoever holds a payment has its current amount in the
  snapshot, because an edit takes the same lock.
* `SettledTheorem`: `OnlySettledMoney`, from `Knows` too: a holder's payment is
  completed as long as it holds it, and an edit that finds nothing allocated finds
  no row of any amount where none is negative.
* `CreditTheorem`: `CreditFollowsPayment`, the action property. Four kinds of
  commit write a payment or its credit; edit, delete and restore renew the credit
  from what they write (`CreditRenewed`), a reassign from what it read.
* `WaterfallTheorem`: `WaterfallFits`. The shares of allocate-auto's loop go to
  stretches of the payment's rest one after another (`SharesBefore`), so together
  they fit in it (`SharesFit`), and each fits what its invoice owes.

Payment allocation, the views (`PaymentViewProofs`)

* `StatusTheorem`: `StatusFollowsCover`, the action property, from `SnapsKept`
  and `StatusInv`: a snapshot collects too much of no invoice without negative
  rows (restored rows aside). An allocation that brings an invoice to its total
  does so in its own view, which then misses no row of it, so it marks it paid;
  a delete leaves less than the total and reopens it; the others refresh the
  invoice in their next statement (`RefreshAhead`), and a restore's rows count
  as revived.
* `ChecksTheorem`: `ChecksSuffice`. The new rows share out the plan, each row
  another share (`PlacedSum`), so the view's sums are at most those of the plan
  and of the snapshot (`ViewParts`), which the checks before it compared with
  the same amounts (`Knows`).

Gateway (`GatewayReconcileProofs`)

* `GatewayTyped`: `TypeOK`, with `BusyKnows` (a busy delivery has an event, an
  arrived answer is one).
* `LedgerTheorem`: `LedgerMatchesPayment` is inductive once every step is shown
  to post, to reverse or to leave the books alone (`BooksStep`).
* `OneDeliveryTheorem`: the invariant `ClaimInv` adds what the event's row says
  while a delivery holds it (`processing` up to the mark, `processed` until a
  failed posting is marked) and extends the exclusion to those later positions,
  since a delivery about to mark an event `failed` opens it to others.
* `ReversedTheorem`: the invariant `ReturnInv` adds that the provider's word for
  a return is the return, that a delivery is of a sent event and a reversing one
  of a return, that a refund request goes on only on the provider's answer, and
  that no money exists before the charge, so that a return is never undone.
* `OneRefundTheorem`: `ClaimsHold` (a request with the provider finds its claim
  in the row, which only that request gives back) needs `Unfindable`: until the
  provider's answer is stored, no delivery and no refund finds the row, so
  `RecordAnswer`, which does not look at the status, takes no claim away.
* `CapturedTheorem`: `CaptureInv` ties a processed success event to the row: as
  long as nothing slipped the row counts as captured, already when a delivery is
  about to mark the event; the steps that take a capture back are slips.
* `OutcomeTheorem`: `OutcomeKept`, the action property of chargebacks.
* `BooksTheorem`: `ReturnFollowed` (returned money that the row does not show is
  awaited: by a delivery, a refund request or an event still to come) together
  with `EventsSent`, `ReturnInv`, `ClaimInv`, `Unfindable` and `ClaimsHold`.

Campaign (`CampaignProofs`)

* `CampaignTyped`: `TypeOK`.
* `OneQueuedTheorem`, `OwnedTheorem`: `Numbered` says that only the last
  dispatch has messages that wait, and that those of later ones do not exist.
* `SentWasTakenTheorem`: `TakenInv` adds that an outcome 'sent' on its way was
  taken by the provider, and taken is for good.
* `CampaignContractTheorem`: every step of a campaign is one of
  `DeliveryContract` or leaves the outbox alone. With `ContractTheorem`, what the
  campaign is modelled against is what `MessageOutbox` does.
* `OneCopyTheorem`: `CopiesInv`, copies taken and rights left are together at
  most one more than the staff actions, because a hand-over uses a right up and
  only a staff resend grants one; a message the outbox never had is `OwnedByOne`.
* `SentIsOverTheorem`: `SentIsOver` is inductive given the type.
* `CountedOnceTheorem`, `CountedAllTheorem`: `CountInv` says which counters a
  message in each state may have been counted in (`MayCount`), that a counter
  owed is not yet added, and that a run counting a skipped message is the only
  one; `Single` that it counts one at a time.

Autopay (`AutopayProofs`)

* `AutopayTyped`: `TypeOK`, with `Shapes` (what a run holds at each of its
  steps) and `AttemptLeft` (a pending schedule has an attempt left).
* `OneCallTheorem`: `InsertedOnce`, the insert of a transaction under a unique
  key happens once, and only the run that inserted it calls.
* `SucceededTheorem`: `AnswerMeant` (a cached or held answer of success is of a
  charge the provider made) and `AttemptMade`.
* `PassedOverTheorem`: `Awaited`, without a fault a taken or undecided charge
  without a reference has a run about to record it, and a schedule in processing
  one that is at it.
* `UndecidedTheorem`: `Undisturbed`: while the invoice is owed and no two runs
  of a task overlapped, `Orderly` says what each run knows that its reads made
  sure of and that the others keep: earlier attempts have no reference
  (`Unanswered`), later ones are not made, and a daily run about to charge has
  nothing beside it. `Unscheduled` and `PostedPaid` cover the schedules not made
  and the invoice once it is paid.

What the proofs changed in the models. `LoseTrack` was of one message, although
one statement of `recoverStale` gives up several rows: no run had two stale rows
in the contract's view, the proof did not go through. Some cases of
`Campaign!CountedAs`, `GatewayReconcile!RecordChargeback` and
`Autopay!AfterAttempt` overlapped, and TLC took the first where a prover may take
any; they are disjoint now. `AutopayAssumption` asks for a first day. The sums of
`PaymentAllocation` are stated in cents.

Only model-checked: the liveness properties `EventuallyFinal` and
`CampaignEnds`, which rest on fairness and on when steps are enabled, out of
the prover's reach; and the violated runs, which are refutations.

## Plan

1. Done: `MessageOutbox` with `DeliveryContract`; `PaymentAllocation`;
   `GatewayReconcile`; `Campaign` over `DeliveryContract`; `Autopay`.
2. Done: the proofs of every safety property of the passing runs, of the
   refinement, and that a campaign keeps to the contract it is modelled against.
3. Done: reassign, edit, delete and restore against the payment's credit. Open:
   its creation; a void that strips an allocation it should have refused; credit
   notes as a second source of cover; restored campaigns.
4. `TaskLock`: advisory lock, claims and overlapping runs, with an abstract
   "one run at a time" that justifies `Begin` and the single sweep.

## Not modelled

The repository has about 290,000 lines. Most of them are request handlers that
read or write one row, user interface, API descriptions, reports, document
layout and device drivers: their state changes are single statements, for which
a model would repeat the code and show nothing. The models cover the paths where
several actors change the same money or messages. Suspension and reconnection,
sessions, address pools, webhook deliveries to third parties and reseller
settlement have such paths as well and are candidates for later modules;
numeric tax rules are one function each, and better tested.
