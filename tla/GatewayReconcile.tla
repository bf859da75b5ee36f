-------------------------- MODULE GatewayReconcile --------------------------
(***************************************************************************)
(* One payment_transactions row from charge or checkout to refund          *)
(* (src/src/services/paymentGatewayService.js), with the provider that     *)
(* really moves the money, the events it sends (late, repeated and in any  *)
(* order), the webhook deliveries that process them, staff refunds, the    *)
(* reconcile sweep, and the payment and ledger entries posted from it.     *)
(* The code locks the row only while it posts or reverses; elsewhere every *)
(* statement is its own transaction, and so an action of its own here.     *)
(*                                                                         *)
(* Every query names its transaction by id or reference, so transactions   *)
(* do not meet and one row is enough.                                      *)
(***************************************************************************)
EXTENDS Integers, FiniteSets

CONSTANTS
    Hooks,          \* webhook deliveries being processed at the same time
    Refunders,      \* staff refund requests
    Subscriptions,  \* sets of events a webhook endpoint may be subscribed to
    MaxFaults       \* bound: stopped processes, lost answers, failed postings

(* The events of mapProviderEvent, by the names of what they report.       *)
Events == {"session_paid", "intent_paid", "declined", "refunded",
           "disputed", "dispute_won", "dispute_lost"}

ASSUME GatewayAssumption ==
    /\ Subscriptions \subseteq SUBSET Events
    /\ IsFiniteSet(Refunders)
    /\ MaxFaults \in Nat

VARIABLES
    tx,         \* payment_transactions: gateway_status, reference, metadata
    books,      \* the payment posted from it and its ledger entries
    money,      \* the provider's truth
    subscribed, \* the events the provider sends here
    sent,       \* the ones it has sent at least once
    event,      \* webhook_events.status, by event
    chargeback, \* chargebacks.status of the transaction
    maker,      \* the request that creates the transaction
    hook,       \* each webhook delivery's position and what it read
    refunder,   \* each refund request's position and what it read
    sweep,      \* the reconcile_gateway_payments task
    slips,      \* history: the ways in which status and money came apart
    faults      \* how many faults have happened

provider == <<money, subscribed, sent>>
vars == <<tx, books, provider, event, chargeback, maker, hook, refunder,
          sweep, slips, faults>>

----------------------------------------------------------------------------
(* Values *)

GatewayStatuses == {"absent", "pending", "succeeded", "failed", "refunded",
                    "disputed"}
References == {"provisional", "session", "intent", "refund"}
EventStatuses == {"none", "processing", "processed", "failed", "ignored",
                  "no_match"}

(* Mutant of NewStatus: not a value of gateway_status. *)
NewStatusMisspelt(e) == IF e = "declined" THEN "fail" ELSE "succeeded"

(* mapProviderEvent: what an event makes of the transaction.               *)
NewStatus(e) ==
    CASE e \in {"session_paid", "intent_paid"} -> "succeeded"
      [] e = "declined" -> "failed"
      [] e \in {"disputed", "dispute_won"} -> "disputed"
      [] OTHER -> "refunded"

(* The reference an event is looked up by, and the events whose object     *)
(* carries the metadata given at checkout (a dispute's does not).          *)
RefOf(e) == IF e = "session_paid" THEN "session" ELSE "intent"
WithMetadata == {"session_paid", "intent_paid", "declined", "refunded"}

Found(e) == \/ tx.ref = RefOf(e)
            \/ tx.meta /\ e \in WithMetadata

(* Mutant of isAllowedGatewayTransition: 'succeeded' is open. *)
TransitionsWithoutSucceeded(from, to) ==
    CASE from = "disputed" -> to \in {"disputed", "refunded"}
      [] from = "refunded" -> to = "refunded"
      [] OTHER -> TRUE

(* Mutant of isAllowedGatewayTransition: 'refunded' is not final. *)
TransitionsWithoutRefunded(from, to) ==
    CASE from = "succeeded" -> to \in {"succeeded", "refunded", "disputed"}
      [] from = "disputed" -> to \in {"disputed", "refunded"}
      [] OTHER -> TRUE

isAllowedGatewayTransition(from, to) ==
    CASE from = "succeeded" -> to \in {"succeeded", "refunded", "disputed"}
      [] from = "disputed" -> to \in {"disputed", "refunded"}
      [] from = "refunded" -> to = "refunded"
      [] OTHER -> TRUE

TypeOK ==
    /\ tx \in [status : GatewayStatuses, ref : References, meta : BOOLEAN]
    /\ books \in [payment : {"none", "completed", "refunded"},
                  credits : Nat, debits : Nat]
    /\ money \in {"none", "open", "captured", "returned"}
    /\ subscribed \in Subscriptions
    /\ sent \subseteq subscribed
    /\ event \in [Events -> EventStatuses]
    /\ chargeback \in {"none", "received", "won", "lost"}
    /\ maker \in [pc : {"start", "calling", "answered", "storing", "failing",
                        "done"},
                  res : {"none", "succeeded", "pending"}]
    /\ hook \in [Hooks -> [pc : {"idle", "insert", "reclaim", "match",
                                 "update", "mark", "post", "reverse",
                                 "chargeback", "failed"},
                           ev : Events \cup {"none"}]]
    /\ refunder \in [Refunders -> [pc : {"idle", "claim", "call", "release",
                                         "record", "reverse"},
                                   ref : References]]
    /\ sweep \in {"idle", "post"}
    /\ slips \subseteq {"overtaken", "lost", "released"}
    /\ faults \in 0..MaxFaults

IdleHook == [pc |-> "idle", ev |-> "none"]
IdleRefunder == [pc |-> "idle", ref |-> "provisional"]

Init ==
    /\ tx = [status |-> "absent", ref |-> "provisional", meta |-> FALSE]
    /\ books = [payment |-> "none", credits |-> 0, debits |-> 0]
    /\ money = "none"
    /\ subscribed \in Subscriptions
    /\ sent = {}
    /\ event = [e \in Events |-> "none"]
    /\ chargeback = "none"
    /\ maker = [pc |-> "start", res |-> "none"]
    /\ hook = [h \in Hooks |-> IdleHook]
    /\ refunder = [r \in Refunders |-> IdleRefunder]
    /\ sweep = "idle"
    /\ slips = {}
    /\ faults = 0

Fault == faults < MaxFaults /\ faults' = faults + 1

Send(es) == sent' = sent \cup (es \cap subscribed) /\ UNCHANGED subscribed

----------------------------------------------------------------------------
(* Posting and reversing.  Each is one database transaction that holds the *)
(* payment_transactions row, so each is one step.                          *)

reconcilePayment ==
    IF books.payment = "none" /\ tx.status = "succeeded"
      THEN books' = [books EXCEPT !.payment = "completed", !.credits = @ + 1]
      ELSE UNCHANGED books

(* Mutant of reverseRefund: without its check of the payment. *)
reverseRefundAgain ==
    IF books.payment # "none"
      THEN books' = [books EXCEPT !.payment = "refunded", !.debits = @ + 1]
      ELSE UNCHANGED books

reverseRefund ==
    IF books.payment = "completed"
      THEN books' = [books EXCEPT !.payment = "refunded", !.debits = @ + 1]
      ELSE UNCHANGED books

----------------------------------------------------------------------------
(* Creating the transaction *)

Making(from, to) == maker.pc = from /\ maker' = [maker EXCEPT !.pc = to]

notMaker == <<books, event, chargeback, hook, refunder, sweep>>

(* createCheckoutSession.  Nobody can pay before the URL is returned, so   *)
(* its statements meet nobody.  The session's metadata names the           *)
(* transaction; an event on the install-wide route ignores it.             *)
Checkout ==
    /\ Making("start", "done")
    /\ \E scoped \in BOOLEAN :
         \/ /\ tx' = [status |-> "pending", ref |-> "session", meta |-> scoped]
            /\ money' = "open"
         \/ /\ tx' = [status |-> "failed", ref |-> "provisional", meta |-> scoped]
            /\ UNCHANGED money
    /\ UNCHANGED <<subscribed, sent, notMaker, slips, faults>>

(* charge: the pending row, inserted before the provider is called.        *)
InsertCharge ==
    /\ Making("start", "calling")
    /\ tx' = [status |-> "pending", ref |-> "provisional", meta |-> FALSE]
    /\ UNCHANGED <<provider, notMaker, slips, faults>>

(* The provider captures, leaves the charge pending or refuses; its answer *)
(* may be lost to the 30 second timeout.                                   *)
CallProvider ==
    /\ maker.pc = "calling"
    /\ \/ /\ money' = "none"
          /\ Send({"declined"})
          /\ maker' = [maker EXCEPT !.pc = "failing"]
          /\ UNCHANGED faults
       \/ /\ \E res \in {"succeeded", "pending"} :
               /\ IF res = "succeeded"
                    THEN money' = "captured" /\ Send({"intent_paid"})
                    ELSE money' = "open" /\ UNCHANGED <<subscribed, sent>>
               /\ \/ maker' = [pc |-> "answered", res |-> res] /\ UNCHANGED faults
                  \/ maker' = [maker EXCEPT !.pc = "failing"] /\ Fault
    /\ UNCHANGED <<tx, notMaker, slips>>

RecordAnswer ==
    /\ Making("answered", "storing")
    /\ tx' = [tx EXCEPT !.ref = "intent", !.status = maker.res]
    /\ UNCHANGED <<provider, notMaker, slips, faults>>

(* storeIdempotencyKey; when it throws, charge's catch takes over.         *)
StoreKey ==
    /\ \/ Making("storing", "done") /\ UNCHANGED faults
       \/ Making("storing", "failing") /\ Fault
    /\ UNCHANGED <<tx, provider, notMaker, slips>>

(* charge's catch writes plain text to raw_response, a JSON column, with   *)
(* its 'failed': MySQL refuses the UPDATE and the row stays as it was.     *)
FailCharge ==
    /\ Making("failing", "done")
    /\ UNCHANGED <<tx, provider, notMaker, slips, faults>>

CrashMaker ==
    /\ maker.pc \notin {"start", "done"}
    /\ maker' = [maker EXCEPT !.pc = "done"]
    /\ Fault
    /\ UNCHANGED <<tx, provider, notMaker, slips>>

Maker == \/ Checkout \/ InsertCharge \/ CallProvider \/ RecordAnswer
         \/ StoreKey \/ FailCharge \/ CrashMaker

----------------------------------------------------------------------------
(* The provider: what happens to the money there, and what it says of it.  *)

notProvider == <<tx, books, event, chargeback, maker, hook, refunder, sweep,
                 slips, faults>>

CustomerPays ==
    /\ money = "open"
    /\ money' = "captured"
    /\ Send(IF tx.ref = "session" THEN {"intent_paid", "session_paid"}
                                  ELSE {"intent_paid"})
    /\ UNCHANGED notProvider

AttemptDeclined ==
    /\ money = "open"
    /\ Send({"declined"})
    /\ UNCHANGED <<money, notProvider>>

(* A refund made at the provider, or a dispute the merchant loses, that an *)
(* event reports: of another one this installation can know nothing.       *)
MoneyReturned(e) ==
    /\ money = "captured"
    /\ e \in subscribed
    /\ money' = "returned"
    /\ Send({e})
    /\ UNCHANGED notProvider

DisputeMoves(e) ==
    /\ money = "captured"
    /\ Send({e})
    /\ UNCHANGED <<money, notProvider>>

Provider == \/ CustomerPays \/ AttemptDeclined
            \/ \E e \in {"refunded", "dispute_lost"} : MoneyReturned(e)
            \/ \E e \in {"disputed", "dispute_won"} : DisputeMoves(e)

----------------------------------------------------------------------------
(* processWebhookEvent.  A sent event may be delivered at any time and any *)
(* number of times.                                                        *)

InHook(h, from) == hook[h].pc = from
HookTo(h, to) == hook' = [hook EXCEPT ![h].pc = to]
LeaveHook(h) == hook' = [hook EXCEPT ![h] = IdleHook]
MarkEvent(h, status) == event' = [event EXCEPT ![hook[h].ev] = status]

notHook == <<provider, maker, refunder, sweep>>

(* The SELECT of the webhook_events row.  A delivery of an event that is   *)
(* processing or done is answered 'duplicate' and changes nothing.         *)
Receive(h, e) ==
    /\ InHook(h, "idle")
    /\ e \in sent
    /\ event[e] \in {"none", "failed", "no_match"}
    /\ hook' = [hook EXCEPT ![h] =
                  [pc |-> IF event[e] = "none" THEN "insert" ELSE "reclaim",
                   ev |-> e]]
    /\ UNCHANGED <<tx, books, event, chargeback, notHook, slips, faults>>

(* Mutant of ClaimEvent: without the check on the claim. *)
ClaimEventUnchecked(h) ==
    /\ hook[h].pc \in {"insert", "reclaim"}
    /\ MarkEvent(h, "processing") /\ HookTo(h, "match")
    /\ UNCHANGED <<tx, books, chargeback, notHook, slips, faults>>

(* The INSERT, refused by the unique key when another delivery was first,  *)
(* and the compare-and-set that claims a failed event again.               *)
ClaimEvent(h) ==
    /\ hook[h].pc \in {"insert", "reclaim"}
    /\ IF event[hook[h].ev] \in
            (IF InHook(h, "insert") THEN {"none"} ELSE {"failed", "no_match"})
         THEN MarkEvent(h, "processing") /\ HookTo(h, "match")
         ELSE LeaveHook(h) /\ UNCHANGED event
    /\ UNCHANGED <<tx, books, chargeback, notHook, slips, faults>>

(* Finding the transaction and judging the move by the status just read.   *)
Match(h) ==
    /\ InHook(h, "match")
    /\ IF Found(hook[h].ev)
            /\ isAllowedGatewayTransition(tx.status, NewStatus(hook[h].ev))
         THEN HookTo(h, "update") /\ UNCHANGED event
         ELSE /\ MarkEvent(h, IF Found(hook[h].ev) THEN "ignored" ELSE "no_match")
              /\ LeaveHook(h)
    /\ UNCHANGED <<tx, books, chargeback, notHook, slips, faults>>

(* The update does not look at the status again.                           *)
UpdateStatus(h) ==
    /\ InHook(h, "update")
    /\ LET to == NewStatus(hook[h].ev) IN
         /\ tx' = [tx EXCEPT !.status = to,
                   !.ref = IF hook[h].ev = "session_paid" THEN "intent" ELSE @]
         /\ slips' = slips \cup IF isAllowedGatewayTransition(tx.status, to)
                                  THEN {} ELSE {"overtaken"}
    /\ HookTo(h, "mark")
    /\ UNCHANGED <<books, event, chargeback, notHook, faults>>

(* The event is marked processed before its consequences are drawn.        *)
MarkProcessed(h) ==
    /\ InHook(h, "mark")
    /\ MarkEvent(h, "processed")
    /\ CASE NewStatus(hook[h].ev) = "succeeded" -> HookTo(h, "post")
         [] NewStatus(hook[h].ev) = "refunded" -> HookTo(h, "reverse")
         [] NewStatus(hook[h].ev) = "disputed" -> HookTo(h, "chargeback")
         [] OTHER -> LeaveHook(h)
    /\ UNCHANGED <<tx, books, chargeback, notHook, slips, faults>>

HookPosts(h) ==
    /\ InHook(h, "post")
    /\ reconcilePayment
    /\ LeaveHook(h)
    /\ UNCHANGED <<tx, event, chargeback, notHook, slips, faults>>

(* A statement of a claimed event fails, or the posting does.              *)
HookThrows(h) ==
    /\ hook[h].pc \in {"match", "update", "mark", "post"}
    /\ HookTo(h, "failed")
    /\ Fault
    /\ UNCHANGED <<tx, books, event, chargeback, notHook, slips>>

(* The catch: the receiver answers 500 and the provider delivers again.    *)
MarkFailed(h) ==
    /\ InHook(h, "failed")
    /\ MarkEvent(h, "failed")
    /\ LeaveHook(h)
    /\ UNCHANGED <<tx, books, chargeback, notHook, slips, faults>>

(* reverseRefund logs its failure and throws nothing.                      *)
HookReverses(h) ==
    /\ InHook(h, "reverse")
    /\ IF hook[h].ev = "dispute_lost" THEN HookTo(h, "chargeback") ELSE LeaveHook(h)
    /\ \/ reverseRefund /\ UNCHANGED <<slips, faults>>
       \/ UNCHANGED books /\ Fault /\ slips' = slips \cup {"lost"}
    /\ UNCHANGED <<tx, event, chargeback, notHook>>

(* Mutant of RecordChargeback: the stored outcome is overwritten. *)
RecordChargebackPlainly(h) ==
    /\ InHook(h, "chargeback")
    /\ chargeback' = CASE hook[h].ev = "dispute_won" -> "won"
                      [] hook[h].ev = "dispute_lost" -> "lost"
                      [] OTHER -> "received"
    /\ LeaveHook(h)
    /\ UNCHANGED <<tx, books, event, notHook, slips, faults>>

(* The upsert keeps an outcome from a late 'received'.                     *)
RecordChargeback(h) ==
    /\ InHook(h, "chargeback")
    /\ chargeback' = CASE hook[h].ev = "dispute_won" -> "won"
                      [] hook[h].ev = "dispute_lost" -> "lost"
                      [] OTHER -> IF chargeback = "none" THEN "received"
                                                         ELSE chargeback
    /\ LeaveHook(h)
    /\ UNCHANGED <<tx, books, event, notHook, slips, faults>>

(* The process stops.  Once the event is claimed nobody takes it up again. *)
CrashHook(h) ==
    /\ ~InHook(h, "idle")
    /\ LeaveHook(h)
    /\ Fault
    /\ slips' = slips \cup
         IF hook[h].pc \in {"insert", "reclaim"} THEN {} ELSE {"lost"}
    /\ UNCHANGED <<tx, books, event, chargeback, notHook>>

Hook(h) == \/ \E e \in Events : Receive(h, e)
           \/ ClaimEvent(h) \/ Match(h) \/ UpdateStatus(h) \/ MarkProcessed(h)
           \/ HookPosts(h) \/ HookThrows(h) \/ MarkFailed(h)
           \/ HookReverses(h) \/ RecordChargeback(h) \/ CrashHook(h)

----------------------------------------------------------------------------
(* refund *)

RefundTo(r, to) == refunder' = [refunder EXCEPT ![r].pc = to]
LeaveRefund(r) == refunder' = [refunder EXCEPT ![r] = IdleRefunder]

notRefund == <<event, chargeback, maker, hook, sweep>>

ReadRefundable(r) ==
    /\ refunder[r].pc = "idle"
    /\ tx.status = "succeeded"
    /\ refunder' = [refunder EXCEPT ![r] = [pc |-> "claim", ref |-> tx.ref]]
    /\ UNCHANGED <<tx, books, provider, notRefund, slips, faults>>

(* Mutant of ClaimRefund: without the check on the claim. *)
ClaimRefundUnchecked(r) ==
    /\ refunder[r].pc = "claim"
    /\ tx' = [tx EXCEPT !.status = "refunded"] /\ RefundTo(r, "call")
    /\ UNCHANGED <<books, provider, notRefund, slips, faults>>

ClaimRefund(r) ==
    /\ refunder[r].pc = "claim"
    /\ IF tx.status = "succeeded"
         THEN tx' = [tx EXCEPT !.status = "refunded"] /\ RefundTo(r, "call")
         ELSE UNCHANGED tx /\ LeaveRefund(r)
    /\ UNCHANGED <<books, provider, notRefund, slips, faults>>

(* Mutant of CallRefund: an error is taken as a refund. *)
CallRefundIgnoringErrors(r) ==
    /\ refunder[r].pc = "call"
    /\ \/ UNCHANGED provider
       \/ /\ money = "captured" /\ refunder[r].ref = "intent"
          /\ money' = "returned"
          /\ Send({"refunded"})
    /\ RefundTo(r, "record")
    /\ UNCHANGED <<tx, books, notRefund, slips, faults>>

(* Only a captured PaymentIntent can be refunded, and once.  The provider  *)
(* may refuse, and its answer may be lost.                                 *)
CallRefund(r) ==
    /\ refunder[r].pc = "call"
    /\ \/ RefundTo(r, "release") /\ UNCHANGED <<provider, faults>>
       \/ /\ money = "captured" /\ refunder[r].ref = "intent"
          /\ money' = "returned"
          /\ Send({"refunded"})
          /\ \/ RefundTo(r, "record") /\ UNCHANGED faults
             \/ RefundTo(r, "release") /\ Fault
    /\ UNCHANGED <<tx, books, notRefund, slips>>

(* An event that says the money went back has still to update the row, at  *)
(* once or when it is delivered again.                                     *)
Returning(pcs) == \E h \in Hooks : hook[h].ev \in {"refunded", "dispute_lost"}
                                    /\ hook[h].pc \in pcs
ReturnAwaited ==
    \/ \E e \in sent \cap {"refunded", "dispute_lost"} :
          event[e] \in {"none", "failed", "no_match"}
    \/ Returning({"match", "update", "failed"})

(* The catch gives the claim back, on the assumption that no money moved.  *)
ReleaseRefund(r) ==
    /\ refunder[r].pc = "release"
    /\ tx' = [tx EXCEPT !.status = IF @ = "refunded" THEN "succeeded" ELSE @]
    /\ LeaveRefund(r)
    /\ slips' = slips \cup IF money = "returned" /\ ~ReturnAwaited
                             THEN {"released"} ELSE {}
    /\ UNCHANGED <<books, provider, notRefund, faults>>

RecordRefund(r) ==
    /\ refunder[r].pc = "record"
    /\ tx' = [tx EXCEPT !.ref = "refund"]
    /\ RefundTo(r, "reverse")
    /\ UNCHANGED <<books, provider, notRefund, slips, faults>>

RefundReverses(r) ==
    /\ refunder[r].pc = "reverse"
    /\ LeaveRefund(r)
    /\ \/ reverseRefund /\ UNCHANGED <<slips, faults>>
       \/ UNCHANGED books /\ Fault /\ slips' = slips \cup {"lost"}
    /\ UNCHANGED <<tx, provider, notRefund>>

CrashRefund(r) ==
    /\ refunder[r].pc # "idle"
    /\ LeaveRefund(r)
    /\ Fault
    /\ slips' = slips \cup {"lost"}
    /\ UNCHANGED <<tx, books, provider, notRefund>>

Refund(r) == \/ ReadRefundable(r) \/ ClaimRefund(r) \/ CallRefund(r)
             \/ ReleaseRefund(r) \/ RecordRefund(r) \/ RefundReverses(r)
             \/ CrashRefund(r)

----------------------------------------------------------------------------
(* reconcileOutstandingForOrganization *)

notSweep == <<tx, provider, event, chargeback, maker, hook, refunder, slips>>

SweepSelect ==
    /\ sweep = "idle"
    /\ tx.status = "succeeded" /\ books.payment = "none"
    /\ sweep' = "post"
    /\ UNCHANGED <<books, notSweep, faults>>

(* A failed posting is counted and left to the next run.                   *)
SweepPosts ==
    /\ sweep = "post"
    /\ sweep' = "idle"
    /\ \/ reconcilePayment /\ UNCHANGED faults
       \/ UNCHANGED books /\ Fault
    /\ UNCHANGED notSweep

SweepStep == SweepSelect \/ SweepPosts

----------------------------------------------------------------------------

Next == \/ Maker \/ Provider \/ SweepStep
        \/ \E h \in Hooks : Hook(h)
        \/ \E r \in Refunders : Refund(r)

Spec == Init /\ [][Next]_vars

----------------------------------------------------------------------------
(* Properties *)

(* However many webhooks, redeliveries, sweeps and refunds meet, the       *)
(* payment is posted at most once and reversed at most once: the ledger    *)
(* carries exactly what the payment says (reconcilePayment, reverseRefund).*)
LedgerMatchesPayment ==
    /\ books.credits = (IF books.payment = "none" THEN 0 ELSE 1)
    /\ books.debits = (IF books.payment = "refunded" THEN 1 ELSE 0)

(* A payment is reversed only when the provider has really returned the    *)
(* money: never because a refund was merely claimed, nor refused.          *)
ReversedWasReturned ==
    books.payment = "refunded" => money = "returned"

(* While no process stopped half way, no update overtook another and no    *)
(* refund was released after it took effect, a payment still counted as    *)
(* completed after the provider returned the money is about to be          *)
(* reversed: an event still to be processed, or a refund request, does it. *)
BooksFollowMoney ==
    slips = {} /\ money = "returned" /\ books.payment = "completed"
      => \/ ReturnAwaited \/ Returning({"mark", "reverse"})
         \/ \E r \in Refunders : refunder[r].pc \in {"release", "record", "reverse"}

(* Once a success event was processed, no late decline takes the capture   *)
(* back, in whatever order the events come (isAllowedGatewayTransition):   *)
(* the only ways to lose it are the named slips.                           *)
CapturedNotDemoted ==
    slips = {} /\ (\E e \in {"session_paid", "intent_paid"} :
                     event[e] = "processed")
      => tx.status \in {"succeeded", "refunded", "disputed"}

(* Two refund requests never ask the provider at the same time, unless a   *)
(* stale webhook update gave the claim away.                               *)
OneRefundAtProvider ==
    "overtaken" \notin slips =>
      \A r, q \in Refunders :
         /\ refunder[r].pc \in {"call", "record"}
         /\ refunder[q].pc \in {"call", "record"}
         => r = q

(* An event is processed by one delivery at a time: concurrent deliveries  *)
(* are duplicates, also when a failed event is taken up again.             *)
OneDeliveryProcesses ==
    \A g, h \in Hooks :
       /\ hook[g].pc \in {"match", "update", "mark"}
       /\ hook[h].pc \in {"match", "update", "mark"}
       /\ hook[g].ev = hook[h].ev
       => g = h

(* A dispute's outcome is not overwritten by its late opening.             *)
OutcomeKept ==
    [][chargeback' = "received" => chargeback = "none"]_chargeback

=============================================================================
