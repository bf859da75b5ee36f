------------------------- MODULE PaymentAllocation -------------------------
(***************************************************************************)
(* Applying payments to invoices: the staff routes of                      *)
(* src/src/routes/payments.js, the shared writer                           *)
(* src/src/services/paymentAllocationService.js, the reversal and void     *)
(* paths of src/src/services/billingService.js and the guard triggers of   *)
(* src/database/schema.sql.                                                *)
(*                                                                         *)
(* Requests run transactions of an InnoDB database under REPEATABLE READ:  *)
(*   - SELECT ... FOR UPDATE and UPDATE see and lock the latest row;       *)
(*   - a plain SELECT, also inside a trigger, reads the snapshot fixed by  *)
(*     the transaction's first plain SELECT, plus its own writes;          *)
(*   - writes are seen by others when the transaction commits.             *)
(* The writes of a transaction follow its last lock, so they and the       *)
(* commit are one step, taken from the snapshot the transaction carries.   *)
(* A refusal, an error or a lost connection is Abandon.                    *)
(***************************************************************************)
EXTENDS Integers, FiniteSets, FiniteSetsExt

CONSTANTS
    Payments,
    Invoices,       \* numbers: the oldest first, which is also the lock order
    Clients,
    Requests,       \* concurrent requests
    Total,          \* Total[i]: invoices.total
    Billed,         \* Billed[i]: invoices.client_id
    Amounts,        \* amounts payments may have and allocate may ask for
    Moves,          \* amounts reallocate may ask for: nothing validates them
    Paid,           \* Paid[p]: the amount p was recorded with
    Payer,          \* Payer[p]: the client p was recorded for
    Stamped,        \* invoices with a CFDI in force at SAT
    MaxRows,        \* bound: rows of payment_allocations
    MaxStarted      \* bound: requests made in all

ASSUME PaymentAssumption ==
    /\ Payments # {}
    /\ Invoices \subseteq Nat \ {0} /\ Invoices # {} /\ IsFiniteSet(Invoices)
    /\ Total \in [Invoices -> Nat \ {0}]
    /\ Billed \in [Invoices -> Clients]
    /\ Amounts \subseteq Nat
    /\ Moves \subseteq Int
    /\ Paid \in [Payments -> Amounts]
    /\ Payer \in [Payments -> Clients]
    /\ Stamped \subseteq Invoices
    /\ MaxRows \in Nat
    /\ MaxStarted \in Nat

VARIABLES
    payment,    \* payments
    credit,     \* client_balance_ledger rows with reference_type 'payment'
    invoice,    \* invoices.status
    cfdi,       \* the invoices whose CFDI is in force
    rows,       \* payment_allocations, by id
    req,        \* what each request is doing
    revived,    \* history: invoices a restored payment was put back on
    started     \* how many requests were made so far

vars == <<payment, credit, invoice, cfdi, rows, req, revived, started>>

----------------------------------------------------------------------------
(* Rows, sums and views *)

RowIds == 1..MaxRows

(* 'issued' stands for PAYABLE_STATUSES: issued, sent and overdue. *)
Terminal == {"void", "cancelled"}
InvoiceStatuses == {"issued", "paid"} \cup Terminal

Row == [state : {"unused", "live", "deleted"}, pay : Payments,
        inv : Invoices, amt : Int]

AnyPayment == CHOOSE p \in Payments : TRUE
AnyInvoice == CHOOSE i \in Invoices : TRUE
AnyClient == CHOOSE c \in Clients : TRUE

Unused == [state |-> "unused", pay |-> AnyPayment, inv |-> AnyInvoice, amt |-> 0]

LiveOfPayment(rs, p) == {k \in RowIds : rs[k].state = "live" /\ rs[k].pay = p}
LiveOnInvoice(rs, i) == {k \in RowIds : rs[k].state = "live" /\ rs[k].inv = i}

(* A sum of the positive numbers of f, counted cent by cent; that of an    *)
(* allocation's amounts, which may be negative, is the difference of two.  *)
Cents(f) == UNION {{x} \X (1..f[x]) : x \in DOMAIN f}
SumOver(f) == Cardinality(Cents(f))

SumOf(rs, ids) == SumOver([k \in ids |-> rs[k].amt])
                    - SumOver([k \in ids |-> -rs[k].amt])

AllocatedOf(rs, p) == SumOf(rs, LiveOfPayment(rs, p))
AllocatedTo(rs, i) == SumOf(rs, LiveOnInvoice(rs, i))

Covered(rs, i) == AllocatedTo(rs, i) >= Total[i]

(* What a transaction sees: its snapshot, and the rows it wrote itself. *)
View(snap, written, ids) ==
    [k \in RowIds |-> IF k \in ids THEN written[k] ELSE snap.rows[k]]

(* The guard triggers, for every row of ids: the row's amount and all the  *)
(* other live rows fit the payment and the invoice.  rs is the view with   *)
(* the rows of ids live.  The rows are written one after the other; where  *)
(* some are negative this is that some order of them passes, and an order  *)
(* the triggers refuse is an Abandon.                                      *)
TriggersPass(snap, rs, ids) ==
    \A k \in ids :
        /\ AllocatedOf(rs, rs[k].pay) <= snap.amount[rs[k].pay]
        /\ AllocatedTo(rs, rs[k].inv) <= Total[rs[k].inv]

(* Mutant of RefreshedStatus: a status invoices.status does not have. *)
RefreshedStatusPartial(status, covered) ==
    IF covered THEN "paid" ELSE IF status = "paid" THEN "partial" ELSE status

(* refreshInvoicePaidStatus, once it knows whether the invoice is covered. *)
RefreshedStatus(status, covered) ==
    IF covered THEN "paid" ELSE IF status = "paid" THEN "issued" ELSE status

----------------------------------------------------------------------------
(* Requests and locks *)

Ops == {"idle", "allocate", "auto", "reallocate", "unapply", "reassign",
        "update", "delete", "restore", "void", "cancel"}

PCs == {"idle", "locking", "locked", "read", "checked", "settling",
        "releasing", "refresh", "refreshing"}

NoSnap == [rows |-> [k \in RowIds |-> Unused],
           invoice |-> [i \in Invoices |-> "issued"],
           amount |-> [p \in Payments |-> 0]]

Snapshot == [rows |-> rows, invoice |-> invoice,
             amount |-> [p \in Payments |-> payment[p].amount]]

Idle == [op |-> "idle", pc |-> "idle", pay |-> AnyPayment, inv |-> AnyInvoice,
         to |-> AnyInvoice, amt |-> 0, flag |-> FALSE, client |-> AnyClient,
         held |-> {}, snap |-> NoSnap]

(* The payment row stays locked from the first statement to the commit. *)
LocksPayment == {"allocate", "auto", "reallocate", "update", "delete", "restore"}

HoldsPayment(r, p) ==
    /\ req[r].op \in LocksPayment /\ req[r].pay = p
    /\ req[r].pc \in {"locking", "locked", "read"}

PaymentFree(p) == \A r \in Requests : ~HoldsPayment(r, p)

InvoiceFree(r, i) == \A s \in Requests \ {r} : i \notin req[s].held

Start(r, local) ==
    /\ req[r].op = "idle" /\ started < MaxStarted
    /\ started' = started + 1
    /\ req' = [req EXCEPT ![r] = local]

Continue(r, local) == req' = [req EXCEPT ![r] = local] /\ UNCHANGED started

Done(r) == Continue(r, Idle)

Goto(r, pc) == Continue(r, [req[r] EXCEPT !.pc = pc])

database == <<payment, credit, invoice, cfdi, rows, revived>>

TypeOK ==
    /\ payment \in [Payments -> [deleted : BOOLEAN, completed : BOOLEAN,
                                 amount : Amounts, client : Clients]]
    /\ credit \in [Payments -> SUBSET [client : Clients, amount : Amounts]]
    /\ invoice \in [Invoices -> InvoiceStatuses]
    /\ cfdi \subseteq Invoices
    /\ rows \in [RowIds -> Row]
    /\ req \in [Requests ->
         [op : Ops, pc : PCs, pay : Payments, inv : Invoices, to : Invoices,
          amt : Int, flag : BOOLEAN, client : Clients, held : SUBSET Invoices,
          snap : [rows : [RowIds -> Row],
                  invoice : [Invoices -> InvoiceStatuses],
                  amount : [Payments -> Nat]]]]
    /\ revived \subseteq Invoices
    /\ started \in 0..MaxStarted

(* Payments were recorded as completed and credited to their client. *)
Init ==
    /\ payment = [p \in Payments |-> [deleted |-> FALSE, completed |-> TRUE,
                                      amount |-> Paid[p], client |-> Payer[p]]]
    /\ credit = [p \in Payments |-> {[client |-> Payer[p], amount |-> Paid[p]]}]
    /\ invoice = [i \in Invoices |-> "issued"]
    /\ cfdi = Stamped
    /\ rows = [k \in RowIds |-> Unused]
    /\ req = [r \in Requests |-> Idle]
    /\ revived = {}
    /\ started = 0

----------------------------------------------------------------------------
(* Locks, then the snapshot *)

(* The payment is locked, live and completed (isPaymentSettled). *)
Settled(p) == ~payment[p].deleted /\ payment[p].completed

(* Mutant of BeginAllocate: the payment is read without FOR UPDATE. *)
BeginAllocateUnlocked(r, p, i, amt) ==
    /\ Settled(p)
    /\ Start(r, [Idle EXCEPT !.op = "allocate", !.pc = "locking", !.pay = p,
                             !.inv = i, !.to = i, !.amt = amt])
    /\ UNCHANGED database

BeginAllocate(r, p, i, amt) ==
    /\ PaymentFree(p) /\ Settled(p)
    /\ Start(r, [Idle EXCEPT !.op = "allocate", !.pc = "locking", !.pay = p,
                             !.inv = i, !.to = i, !.amt = amt])
    /\ UNCHANGED database

BeginAuto(r, p) ==
    /\ PaymentFree(p) /\ Settled(p)
    /\ Start(r, [Idle EXCEPT !.op = "auto", !.pc = "locking", !.pay = p])
    /\ UNCHANGED database

(* The amount is taken as it comes, zero and negative ones too; without    *)
(* one the whole allocation is moved.                                      *)
BeginReallocate(r, p, from, to, amt, whole) ==
    /\ from # to
    /\ PaymentFree(p) /\ Settled(p)
    /\ Start(r, [Idle EXCEPT !.op = "reallocate", !.pc = "locking",
                             !.pay = p, !.inv = from, !.to = to,
                             !.amt = amt, !.flag = whole])
    /\ UNCHANGED database

BeginDelete(r, p) ==
    /\ PaymentFree(p) /\ ~payment[p].deleted
    /\ Start(r, [Idle EXCEPT !.op = "delete", !.pc = "locked", !.pay = p])
    /\ UNCHANGED database

(* beforeRestore: only a completed payment comes back. *)
BeginRestore(r, p) ==
    /\ PaymentFree(p) /\ payment[p].deleted /\ payment[p].completed
    /\ Start(r, [Idle EXCEPT !.op = "restore", !.pc = "locked", !.pay = p])
    /\ UNCHANGED database

(* Mutant of BeginUpdate: the payment is read without FOR UPDATE. *)
BeginUpdateUnlocked(r, p, amt, completed) ==
    /\ ~payment[p].deleted
    /\ Start(r, [Idle EXCEPT !.op = "update", !.pc = "locked", !.pay = p,
                             !.amt = amt, !.flag = completed])
    /\ UNCHANGED database

BeginUpdate(r, p, amt, completed) ==
    /\ PaymentFree(p) /\ ~payment[p].deleted
    /\ Start(r, [Idle EXCEPT !.op = "update", !.pc = "locked", !.pay = p,
                             !.amt = amt, !.flag = completed])
    /\ UNCHANGED database

(* lockInvoicesForAllocation: the rows of one SELECT ... ORDER BY id FOR   *)
(* UPDATE are locked one after the other.                                  *)
Needed(r) ==
    CASE req[r].op = "allocate" -> {req[r].inv}
      [] req[r].op = "reallocate" -> {req[r].inv, req[r].to}
      [] OTHER -> {i \in Invoices : Billed[i] = payment[req[r].pay].client}

LockNext(r) ==
    LET left == Needed(r) \ req[r].held IN
    /\ req[r].pc = "locking"
    /\ IF left = {}
         THEN Goto(r, "locked")
         ELSE LET i == Min(left) IN
              /\ InvoiceFree(r, i)
              /\ Continue(r, [req[r] EXCEPT !.held = @ \cup {i}])
    /\ UNCHANGED database

(* Mutant of ReadSnapshot: a plain read comes before the invoice locks. *)
ReadSnapshotEarly(r) ==
    /\ \/ /\ req[r].pc = "locking" /\ req[r].snap = NoSnap
          /\ Continue(r, [req[r] EXCEPT !.snap = Snapshot])
       \/ /\ req[r].pc = "locked"
          /\ Continue(r, [req[r] EXCEPT !.pc = "read",
                                        !.snap = IF @ = NoSnap THEN Snapshot ELSE @])
    /\ UNCHANGED database

(* The first plain SELECT, with every lock held. *)
ReadSnapshot(r) ==
    /\ req[r].pc = "locked"
    /\ Continue(r, [req[r] EXCEPT !.pc = "read", !.snap = Snapshot])
    /\ UNCHANGED database

----------------------------------------------------------------------------
(* Allocating *)

(* plan[i]: what invoice i of DOMAIN plan is to receive from p.  The new   *)
(* rows take the next ids; at[k] is the invoice of row k, oldest first.    *)
NewIds(plan) ==
    LET unused == {k \in RowIds : rows[k].state = "unused"}
    IN {k \in unused : Cardinality({l \in unused : l < k}) < Cardinality(DOMAIN plan)}

Room(plan) == Cardinality(NewIds(plan)) = Cardinality(DOMAIN plan)

Placements(plan) ==
    {at \in [NewIds(plan) -> DOMAIN plan] :
        \A k, l \in NewIds(plan) : k < l => at[k] < at[l]}

Inserted(p, plan, at) ==
    [k \in RowIds |->
       IF k \in NewIds(plan)
         THEN [state |-> "live", pay |-> p, inv |-> at[k], amt |-> plan[at[k]]]
         ELSE rows[k]]

(* The unique key (payment_id, invoice_id, active_flag). *)
Applied(p, i) == LiveOfPayment(rows, p) \cap LiveOnInvoice(rows, i) # {}

(* finalizeIfFullyPaid for every invoice of the plan. *)
Finalized(plan, view) ==
    [i \in Invoices |-> IF i \in DOMAIN plan /\ Covered(view, i)
                          THEN "paid" ELSE invoice[i]]

Apply(r, plan) ==
    \E at \in Placements(plan) :
        LET snap == req[r].snap
            new == Inserted(req[r].pay, plan, at)
            view == View(snap, new, NewIds(plan))
        IN
        /\ Room(plan)
        /\ TriggersPass(snap, view, NewIds(plan))
        /\ rows' = new
        /\ invoice' = Finalized(plan, view)

CommitAllocate(r) ==
    LET p == req[r].pay
        i == req[r].inv
        snap == req[r].snap
    IN
    /\ req[r].op = "allocate" /\ req[r].pc = "read"
    /\ snap.invoice[i] = "issued"
    /\ Billed[i] = payment[p].client
    /\ req[r].amt <= payment[p].amount - AllocatedOf(snap.rows, p)
    /\ req[r].amt <= Total[i] - AllocatedTo(snap.rows, i)
    /\ ~Applied(p, i)
    /\ Apply(r, [x \in {i} |-> req[r].amt])
    /\ Done(r)
    /\ UNCHANGED <<payment, credit, cfdi, revived>>

(* Mutant of Waterfall: it goes on when nothing of the payment is left. *)
WaterfallNoBreak(r, chosen) ==
    LET p == req[r].pay
        snap == req[r].snap
        remainder == payment[p].amount - AllocatedOf(snap.rows, p)
        balance(i) == Total[i] - AllocatedTo(snap.rows, i)
        open == {i \in chosen : balance(i) > 0 /\ ~Applied(p, i)}
        before(i) == SumOver([j \in {k \in open : k < i} |-> balance(j)])
    IN [i \in open |-> Min({balance(i), remainder - before(i)})]

(* allocateAcrossInvoices: oldest first, each the rest of the payment or   *)
(* what it still owes; an invoice this payment already covers is skipped.  *)
Waterfall(r, chosen) ==
    LET p == req[r].pay
        snap == req[r].snap
        remainder == payment[p].amount - AllocatedOf(snap.rows, p)
        balance(i) == Total[i] - AllocatedTo(snap.rows, i)
        open == {i \in chosen : balance(i) > 0 /\ ~Applied(p, i)}
        before(i) == SumOver([j \in {k \in open : k < i} |-> balance(j)])
    IN [i \in {j \in open : before(j) < remainder} |->
          Min({balance(i), remainder - before(i)})]

(* The invoices chosen, or all, among the payable ones of the client. *)
CommitAuto(r) ==
    LET p == req[r].pay
        payable == {i \in Invoices : /\ invoice[i] = "issued"
                                     /\ Billed[i] = payment[p].client}
    IN
    /\ req[r].op = "auto" /\ req[r].pc = "read"
    /\ payment[p].amount > AllocatedOf(req[r].snap.rows, p)
    /\ \E chosen \in SUBSET payable : Apply(r, Waterfall(r, chosen))
    /\ Done(r)
    /\ UNCHANGED <<payment, credit, cfdi, revived>>

----------------------------------------------------------------------------
(* Moving and removing allocations *)

RowOf(snap, p, i) == LiveOfPayment(snap.rows, p) \cap LiveOnInvoice(snap.rows, i)

SoftDeleted(rs, ids) ==
    [k \in RowIds |-> IF k \in ids THEN [rs[k] EXCEPT !.state = "deleted"] ELSE rs[k]]

(* The committed part of reallocate; both invoices are refreshed after it, *)
(* outside the transaction.                                                *)
CommitReallocate(r) ==
    LET p == req[r].pay
        snap == req[r].snap
        old == RowOf(snap, p, req[r].inv)
        gone == {k \in old : rows[k].state = "live"}
        plan == [i \in {req[r].to} |->
                   IF req[r].flag THEN snap.rows[Min(old)].amt ELSE req[r].amt]
    IN
    /\ req[r].op = "reallocate" /\ req[r].pc = "read"
    /\ old # {}
    /\ snap.invoice[req[r].to] = "issued"
    /\ \A i \in {req[r].inv, req[r].to} : Billed[i] = payment[p].client
    /\ TriggersPass(snap, snap.rows, gone)
    /\ ~Applied(p, req[r].to)
    /\ Room(plan)
    /\ \E at \in Placements(plan) :
         LET new == SoftDeleted(Inserted(p, plan, at), gone) IN
         /\ TriggersPass(snap, View(snap, new, NewIds(plan) \cup gone), NewIds(plan))
         /\ rows' = new
    /\ Continue(r, [req[r] EXCEPT !.pc = "refresh", !.flag = FALSE, !.held = {},
                                  !.snap = NoSnap])
    /\ UNCHANGED <<payment, credit, invoice, cfdi, revived>>

(* unapply locks nothing: its first read is the snapshot. *)
BeginUnapply(r, p, i) ==
    /\ ~payment[p].deleted
    /\ RowOf(Snapshot, p, i) # {}
    /\ Start(r, [Idle EXCEPT !.op = "unapply", !.pc = "read", !.pay = p,
                             !.inv = i, !.to = i, !.snap = Snapshot])
    /\ UNCHANGED database

CommitUnapply(r) ==
    LET snap == req[r].snap
        old == RowOf(snap, req[r].pay, req[r].inv)
    IN
    /\ req[r].op = "unapply" /\ req[r].pc = "read"
    /\ TriggersPass(snap, snap.rows, old)
    /\ rows' = SoftDeleted(rows, old)
    /\ Continue(r, [req[r] EXCEPT !.pc = "refresh", !.snap = NoSnap])
    /\ UNCHANGED <<payment, credit, invoice, cfdi, revived>>

(* refreshInvoicePaidStatus after the commit: a read, then an update. *)
RefreshRead(r) ==
    /\ req[r].pc = "refresh"
    /\ Continue(r, [req[r] EXCEPT !.pc = "refreshing",
                                  !.flag = Covered(rows, req[r].inv)])
    /\ UNCHANGED database

RefreshWrite(r) ==
    LET i == req[r].inv IN
    /\ req[r].pc = "refreshing"
    /\ InvoiceFree(r, i)
    /\ invoice' = [invoice EXCEPT ![i] = RefreshedStatus(@, req[r].flag)]
    /\ IF req[r].to = i
         THEN Done(r)
         ELSE Continue(r, [req[r] EXCEPT !.pc = "refresh", !.flag = FALSE,
                                         !.inv = req[r].to])
    /\ UNCHANGED <<payment, credit, cfdi, rows, revived>>

----------------------------------------------------------------------------
(* The payment itself *)

(* reassign locks nothing: it reads the payment and that it has no live    *)
(* allocation, then moves it and its ledger credit by id.                  *)
BeginReassign(r, p, client) ==
    /\ ~payment[p].deleted
    /\ LiveOfPayment(rows, p) = {}
    /\ Start(r, [Idle EXCEPT !.op = "reassign", !.pc = "read", !.pay = p,
                             !.client = client, !.amt = payment[p].amount])
    /\ UNCHANGED database

CommitReassign(r) ==
    LET p == req[r].pay IN
    /\ req[r].op = "reassign" /\ req[r].pc = "read"
    /\ PaymentFree(p)
    /\ payment' = [payment EXCEPT ![p].client = req[r].client]
    /\ credit' = [credit EXCEPT ![p] = {[client |-> req[r].client,
                                         amount |-> req[r].amt]}]
    /\ Done(r)
    /\ UNCHANGED <<invoice, cfdi, rows, revived>>

(* Mutant of CommitUpdate: the credit is renewed for a new amount only. *)
CommitUpdateCreditOfAmount(r) ==
    LET p == req[r].pay
        allocated == AllocatedOf(req[r].snap.rows, p)
    IN
    /\ req[r].op = "update" /\ req[r].pc = "read"
    /\ req[r].amt >= allocated
    /\ ~req[r].flag => allocated <= 0
    /\ payment' = [payment EXCEPT ![p].amount = req[r].amt,
                                  ![p].completed = req[r].flag]
    /\ credit' = IF req[r].amt # payment[p].amount
                   THEN [credit EXCEPT ![p] = {[client |-> payment[p].client,
                                                amount |-> req[r].amt]}]
                   ELSE credit
    /\ Done(r)
    /\ UNCHANGED <<invoice, cfdi, rows, revived>>

(* Mutant of CommitUpdate: a status edit does not look at allocations. *)
CommitUpdateAnyStatus(r) ==
    LET p == req[r].pay IN
    /\ req[r].op = "update" /\ req[r].pc = "read"
    /\ req[r].amt >= AllocatedOf(req[r].snap.rows, p)
    /\ payment' = [payment EXCEPT ![p].amount = req[r].amt,
                                  ![p].completed = req[r].flag]
    /\ Done(r)
    /\ UNCHANGED <<credit, invoice, cfdi, rows, revived>>

(* assertPaymentEditKeepsMoneyConsistent and the update. *)
CommitUpdate(r) ==
    LET p == req[r].pay
        amountChanges == req[r].amt # payment[p].amount
        statusChanges == req[r].flag # payment[p].completed
        allocated == AllocatedOf(req[r].snap.rows, p)
    IN
    /\ req[r].op = "update" /\ req[r].pc = "read"
    /\ amountChanges => req[r].amt >= allocated
    /\ statusChanges /\ ~req[r].flag => allocated <= 0
    /\ payment' = [payment EXCEPT ![p].amount = req[r].amt,
                                  ![p].completed = req[r].flag]
    /\ credit' = IF amountChanges \/ statusChanges
                   THEN [credit EXCEPT ![p] =
                           IF req[r].flag
                             THEN {[client |-> payment[p].client,
                                    amount |-> req[r].amt]}
                             ELSE {}]
                   ELSE credit
    /\ Done(r)
    /\ UNCHANGED <<invoice, cfdi, rows, revived>>

(* The invoices of touched are refreshed inside the transaction. *)
RefreshTouched(r, touched, view) ==
    /\ \A i \in touched : InvoiceFree(r, i)
    /\ invoice' = [i \in Invoices |->
                     IF i \in touched
                       THEN RefreshedStatus(invoice[i], Covered(view, i))
                       ELSE invoice[i]]

(* reversePaymentCredit, reversePaymentAllocations, the soft delete. *)
CommitDelete(r) ==
    LET p == req[r].pay
        snap == req[r].snap
        seen == LiveOfPayment(snap.rows, p)
        ids == IF seen = {} THEN {} ELSE LiveOfPayment(rows, p)
        new == SoftDeleted(rows, ids)
    IN
    /\ req[r].op = "delete" /\ req[r].pc = "read"
    /\ TriggersPass(snap, snap.rows, ids)
    /\ rows' = new
    /\ RefreshTouched(r, {snap.rows[k].inv : k \in seen}, View(snap, new, ids))
    /\ payment' = [payment EXCEPT ![p].deleted = TRUE]
    /\ credit' = [credit EXCEPT ![p] = {}]
    /\ Done(r)
    /\ UNCHANGED <<cfdi, revived>>

(* The undelete, the credit, restorePaymentAllocations: every soft-deleted *)
(* allocation of the payment is live again.                                *)
CommitRestore(r) ==
    LET p == req[r].pay
        snap == req[r].snap
        deletedOf(rs) == {k \in RowIds : rs[k].state = "deleted" /\ rs[k].pay = p}
        seen == deletedOf(snap.rows)
        ids == IF seen = {} THEN {} ELSE deletedOf(rows)
        new == [k \in RowIds |-> IF k \in ids THEN [rows[k] EXCEPT !.state = "live"]
                                              ELSE rows[k]]
        view == View(snap, new, ids)
        touched == {snap.rows[k].inv : k \in seen}
    IN
    /\ req[r].op = "restore" /\ req[r].pc = "read"
    /\ \A k, l \in LiveOfPayment(new, p) : new[k].inv = new[l].inv => k = l
    /\ TriggersPass(snap, view, ids)
    /\ rows' = new
    /\ RefreshTouched(r, touched, view)
    /\ payment' = [payment EXCEPT ![p].deleted = FALSE]
    /\ credit' = [credit EXCEPT ![p] = {[client |-> payment[p].client,
                                         amount |-> payment[p].amount]}]
    /\ revived' = revived \cup touched
    /\ Done(r)
    /\ UNCHANGED cfdi

----------------------------------------------------------------------------
(* Voiding and SAT cancellation: autocommit statements, no transaction *)

(* voidInvoiceById: no CFDI in force, no live allocation. *)
CheckVoid(r, i) ==
    /\ i \notin cfdi
    /\ LiveOnInvoice(rows, i) = {}
    /\ Start(r, [Idle EXCEPT !.op = "void", !.pc = "checked", !.inv = i])
    /\ UNCHANGED database

(* SAT accepts the cancellation of i's CFDI: cancelInvoiceForSat. *)
AcceptCancellation(r, i) ==
    /\ i \in cfdi
    /\ cfdi' = cfdi \ {i}
    /\ Start(r, [Idle EXCEPT !.op = "cancel", !.pc = "checked", !.inv = i])
    /\ UNCHANGED <<payment, credit, invoice, rows, revived>>

(* settleInvoiceTerminal: read the invoice; flag is wasTerminal. *)
ReadExisting(r) ==
    LET status == invoice[req[r].inv] IN
    /\ req[r].pc = "checked"
    /\ IF req[r].op = "void" /\ status = "cancelled"
         THEN Done(r)
         ELSE Continue(r, [req[r] EXCEPT !.pc = "settling",
                                         !.flag = status \in Terminal])
    /\ UNCHANGED database

SettleTerminal(r) ==
    LET i == req[r].inv IN
    /\ req[r].pc = "settling"
    /\ InvoiceFree(r, i)
    /\ invoice' = [invoice EXCEPT ![i] =
                     IF req[r].op = "void" THEN "void" ELSE "cancelled"]
    /\ IF req[r].flag THEN Done(r) ELSE Goto(r, "releasing")
    /\ UNCHANGED <<payment, credit, cfdi, rows, revived>>

(* releaseInvoiceAllocations *)
Release(r) ==
    LET ids == LiveOnInvoice(rows, req[r].inv) IN
    /\ req[r].pc = "releasing"
    /\ TriggersPass(Snapshot, rows, ids)
    /\ rows' = SoftDeleted(rows, ids)
    /\ Done(r)
    /\ UNCHANGED <<payment, credit, invoice, cfdi, revived>>

(* A refusal or an error rolls the transaction back; a process that stops  *)
(* after a commit, or between autocommit statements, leaves the rest       *)
(* undone.                                                                 *)
Abandon(r) ==
    /\ req[r].op # "idle"
    /\ Done(r)
    /\ UNCHANGED database

----------------------------------------------------------------------------
Begin(r) ==
    \/ \E p \in Payments, i \in Invoices, amt \in Amounts :
         BeginAllocate(r, p, i, amt)
    \/ \E p \in Payments : BeginAuto(r, p) \/ BeginDelete(r, p) \/ BeginRestore(r, p)
    \/ \E p \in Payments, i, j \in Invoices :
         \/ \E amt \in Moves : BeginReallocate(r, p, i, j, amt, FALSE)
         \/ BeginReallocate(r, p, i, j, 0, TRUE)
    \/ \E p \in Payments, i \in Invoices : BeginUnapply(r, p, i)
    \/ \E p \in Payments, c \in Clients : BeginReassign(r, p, c)
    \/ \E p \in Payments, amt \in Amounts, completed \in BOOLEAN :
         BeginUpdate(r, p, amt, completed)
    \/ \E i \in Invoices : CheckVoid(r, i) \/ AcceptCancellation(r, i)

Commit(r) ==
    \/ CommitAllocate(r) \/ CommitAuto(r) \/ CommitReallocate(r)
    \/ CommitUnapply(r) \/ CommitReassign(r) \/ CommitUpdate(r)
    \/ CommitDelete(r) \/ CommitRestore(r)

Settle(r) == ReadExisting(r) \/ SettleTerminal(r) \/ Release(r)

Next ==
    \E r \in Requests :
        \/ Begin(r) \/ LockNext(r) \/ ReadSnapshot(r) \/ Commit(r)
        \/ RefreshRead(r) \/ RefreshWrite(r)
        \/ Settle(r) \/ Abandon(r)

Spec == Init /\ [][Next]_vars

----------------------------------------------------------------------------
(* Correctness *)

(* reallocate lets a negative allocation in.  Removing it, or spending the *)
(* room it made and then removing it, is refused by nothing, so the sums   *)
(* below are kept for the payments and invoices that never had one: every  *)
(* row, live or deleted, says so.                                          *)
NeverNegative(ids) == \A k \in ids : rows[k].amt >= 0
UsedOf(p) == {k \in RowIds : rows[k].state # "unused" /\ rows[k].pay = p}
UsedOn(i) == {k \in RowIds : rows[k].state # "unused" /\ rows[k].inv = i}

(* A payment is never spent twice: its live allocations never exceed it,   *)
(* whatever allocations, reallocations, edits, deletes and restores of it  *)
(* run at once (allocate, allocate-auto, reallocate lock the payment       *)
(* before they sum; the triggers read snapshots), unless a negative        *)
(* reallocation made room.                                                 *)
PaymentNotOverspent ==
    \A p \in Payments :
        NeverNegative(UsedOf(p)) => AllocatedOf(rows, p) <= payment[p].amount

(* An invoice never collects more than its total, unless a restored        *)
(* payment was put back on it (restorePaymentAllocations does not lock     *)
(* the invoice) or a negative reallocation made room.                      *)
InvoiceNotOvercollected ==
    \A i \in Invoices \ revived :
        NeverNegative(UsedOn(i)) => AllocatedTo(rows, i) <= Total[i]

(* Only money that arrived settles invoices: a deleted payment has no live *)
(* allocation, and one that is not completed only allocations of nothing,  *)
(* although the unlocked unapply and reassign and the release of a         *)
(* cancelled invoice run beside; unless a negative reallocation balanced   *)
(* the others when the payment was edited.                                 *)
OnlySettledMoney ==
    \A k \in RowIds : rows[k].state = "live" =>
        LET p == rows[k].pay IN
        /\ ~payment[p].deleted
        /\ rows[k].amt # 0 /\ NeverNegative(UsedOf(p)) => payment[p].completed

(* DAL-04, the payment: a transaction that locked its payment misses none  *)
(* of the payment's live allocations in its snapshot, so what it and the   *)
(* triggers sum is never less than what is there.                          *)
SnapshotCoversPayment ==
    \A r \in Requests : \A k \in RowIds :
        /\ req[r].pc = "read" /\ req[r].op \in LocksPayment
        /\ rows[k].state = "live" /\ rows[k].pay = req[r].pay
        => req[r].snap.rows[k] = rows[k]

(* DAL-04, the invoices: nor does it miss one of an invoice it locked with *)
(* lockInvoicesForAllocation, except one that a restore revived.           *)
SnapshotCoversInvoices ==
    \A r \in Requests : \A k \in RowIds :
        /\ req[r].pc = "read"
        /\ rows[k].state = "live" /\ rows[k].inv \in req[r].held \ revived
        => req[r].snap.rows[k] = rows[k]

(* allocate-auto gives no invoice more than it owes and all of them no     *)
(* more than is left of the payment, as far as its snapshot shows, and     *)
(* leaves out those it has nothing for: applyAllocation and the triggers   *)
(* never refuse a part of a plan after they let another part in.           *)
WaterfallFits ==
    \A r \in Requests : req[r].op = "auto" /\ req[r].pc = "read" =>
        \A chosen \in SUBSET Invoices :
            LET plan == Waterfall(r, chosen)
                snap == req[r].snap
            IN
            /\ \A i \in DOMAIN plan :
                 0 < plan[i] /\ plan[i] <= Total[i] - AllocatedTo(snap.rows, i)
            /\ DOMAIN plan # {} =>
                 SumOver(plan) <= payment[req[r].pay].amount
                                    - AllocatedOf(snap.rows, req[r].pay)

(* The guard triggers are a last line: what the checks of allocate, or the *)
(* plan of allocate-auto, let through under the locks they never refuse,   *)
(* although the checks take the amount from the locked payment and the     *)
(* triggers from the snapshot.                                             *)
ChecksSuffice ==
    \A r \in Requests : req[r].pc = "read" =>
        LET p == req[r].pay
            i == req[r].inv
            snap == req[r].snap
            pass(plan) ==
                \A at \in Placements(plan) :
                    TriggersPass(snap, View(snap, Inserted(p, plan, at), NewIds(plan)),
                                 NewIds(plan))
        IN
        /\ req[r].op = "auto" =>
             \A chosen \in SUBSET Invoices : pass(Waterfall(r, chosen))
        /\ /\ req[r].op = "allocate"
           /\ req[r].amt <= payment[p].amount - AllocatedOf(snap.rows, p)
           /\ req[r].amt <= Total[i] - AllocatedTo(snap.rows, i)
           => pass([x \in {i} |-> req[r].amt])

(* A request whose transaction changed the allocations of i is still to    *)
(* refresh its status; or one is emptying i after it was closed.           *)
RefreshAhead(r, i) == req[r].pc = "refresh" /\ i \in {req[r].inv, req[r].to}
Emptying(r, i) == req[r].pc = "releasing" /\ req[r].inv = i

(* finalizeIfFullyPaid and refreshInvoicePaidStatus judge by a snapshot    *)
(* and still are right: a step that makes the live allocations of an       *)
(* invoice reach its total, or fall below it, leaves the invoice paid, or  *)
(* not paid, as they now are; or its request goes on to refresh the        *)
(* invoice, or is emptying a closed one.  A negative allocation that was   *)
(* just removed, and is still in a snapshot, hides that an invoice is      *)
(* covered.                                                                *)
StatusFollowsCover ==
    [][\A i \in Invoices \ revived' :
          NeverNegative(UsedOn(i))' /\ Covered(rows', i) # Covered(rows, i) =>
             \/ (invoice'[i] = "paid") = Covered(rows', i)
             \/ \E r \in Requests : RefreshAhead(r, i)' \/ Emptying(r, i)]_rows

(* payments.js, assertPaymentEditKeepsMoneyConsistent: "The ledger credit   *)
(* mirrors a completed payment's amount".  Edits, deletes and restores     *)
(* keep it so, whatever runs beside; it comes apart only in a reassign,    *)
(* which credits the amount it read without a lock, also when the payment  *)
(* is not completed.                                                       *)
CreditMirrors(p) ==
    credit[p] = IF Settled(p) THEN {[client |-> payment[p].client,
                                     amount |-> payment[p].amount]}
                              ELSE {}

CreditFollowsPayment ==
    [][\A p \in Payments : CreditMirrors(p) /\ ~CreditMirrors(p)' =>
          \E r \in Requests :
             /\ req[r].op = "reassign" /\ req[r].pay = p /\ req'[r] = Idle
             /\ ~Settled(p) \/ payment[p].amount # req[r].amt]_<<payment, credit>>

(* ARCHITECTURE.md: "Every allocation path runs in one transaction that    *)
(* locks the payment first, then its invoices ... Summing before locking   *)
(* lets two concurrent allocators both pass."  restore is such a path.     *)
InvoiceNeverOvercollected ==
    \A i \in Invoices : AllocatedTo(rows, i) <= Total[i]

(* routes/invoices.js: "A terminal invoice is immutable".  A void or        *)
(* SAT-cancelled invoice never becomes payable or paid again.              *)
TerminalStays ==
    [][\A i \in Invoices : invoice[i] \in Terminal => invoice'[i] \in Terminal]_vars

(* billingService.js, settleInvoiceTerminal: "leaving its allocations on a *)
(* cancelled row would drop that money from the balance altogether".  Once *)
(* nobody is settling it, a terminal invoice holds no allocation.          *)
TerminalHoldsNoMoney ==
    \A i \in Invoices \ revived :
        /\ invoice[i] \in Terminal
        /\ \A r \in Requests : ~(req[r].op \in {"void", "cancel"} /\ req[r].inv = i)
        => LiveOnInvoice(rows, i) = {}

=============================================================================
