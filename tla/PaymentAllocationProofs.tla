---------------------- MODULE PaymentAllocationProofs ----------------------
(***************************************************************************)
(* The locking discipline of payment allocation (DAL-04) for any number of *)
(* payments, invoices, clients and requests: what a transaction sums under *)
(* its locks misses no live allocation.  No step here looks at an amount;  *)
(* PaymentSumsProofs goes on from here to the sums.                        *)
(***************************************************************************)
EXTENDS PaymentAllocation, TLAPS

Inserting == {"allocate", "auto", "reallocate"}

(* The records are the records they should be, whatever the amounts in     *)
(* them.                                                                   *)
LocalShape(l) ==
    l = [op |-> l.op, pc |-> l.pc, pay |-> l.pay, inv |-> l.inv, to |-> l.to,
         amt |-> l.amt, flag |-> l.flag, client |-> l.client,
         held |-> l.held, snap |-> l.snap]

RowsShape(rs) ==
    /\ rs = [k \in RowIds |-> rs[k]]
    /\ \A k \in RowIds :
         /\ rs[k] = [state |-> rs[k].state, pay |-> rs[k].pay,
                     inv |-> rs[k].inv, amt |-> rs[k].amt]
         /\ rs[k].state \in {"unused", "live", "deleted"}

PaymentsShape(pm) ==
    /\ pm = [p \in Payments |-> pm[p]]
    /\ \A p \in Payments :
         /\ pm[p] = [deleted |-> pm[p].deleted, completed |-> pm[p].completed,
                     amount |-> pm[p].amount, client |-> pm[p].client]
         /\ pm[p].deleted \in BOOLEAN

Holds(l) == l.op \in LocksPayment /\ l.pc \in {"locking", "locked", "read"}

(* What a request in state l knows of the database. *)
PayState(l, pm) ==
    Holds(l) => /\ l.pay \in Payments
                /\ pm[l.pay].deleted = (l.op = "restore")

NeededBy(l, pm) ==
    CASE l.op = "allocate" -> {l.inv}
      [] l.op = "reallocate" -> {l.inv, l.to}
      [] OTHER -> {i \in Invoices : Billed[i] = pm[l.pay].client}

LocksTaken(l, pm) ==
    l.op \in Inserting /\ l.pc \in {"locked", "read"} => NeededBy(l, pm) \subseteq l.held

CoversPayment(l, rs) ==
    l.pc = "read" /\ l.op \in LocksPayment =>
        \A k \in RowIds : rs[k].state = "live" /\ rs[k].pay = l.pay =>
            l.snap.rows[k] = rs[k]

CoversInvoices(l, rs, rv) ==
    l.pc = "read" =>
        \A k \in RowIds : rs[k].state = "live" /\ rs[k].inv \in l.held \ rv =>
            l.snap.rows[k] = rs[k]

(* The row an unapply is about to delete is not an unused one. *)
UnapplyRows(l, rs) ==
    l.pc = "read" /\ l.op = "unapply" =>
        \A k \in RowOf(l.snap, l.pay, l.inv) : rs[k].state # "unused"

(* A restore sees all the rows it is going to revive. *)
RestoreRows(l, rs) ==
    l.pc = "read" /\ l.op = "restore" =>
        \A k \in RowIds : rs[k].state = "deleted" /\ rs[k].pay = l.pay =>
            l.snap.rows[k] = rs[k]

LocalOK(l, rs, pm, rv) ==
    /\ LocalShape(l)
    /\ PayState(l, pm)
    /\ LocksTaken(l, pm)
    /\ CoversPayment(l, rs)
    /\ CoversInvoices(l, rs, rv)
    /\ UnapplyRows(l, rs)
    /\ RestoreRows(l, rs)

(* Two requests never hold the same payment or the same invoice. *)
Apart(l, m) ==
    /\ ~(Holds(l) /\ Holds(m) /\ l.pay = m.pay)
    /\ \A i : ~(i \in l.held /\ i \in m.held)

NoRowsOfDeleted(rs, pm) ==
    \A k \in RowIds : rs[k].state = "live" =>
        rs[k].pay \in Payments /\ ~pm[rs[k].pay].deleted

(* The inductive invariant. *)
IInv ==
    /\ req = [r \in Requests |-> req[r]]
    /\ RowsShape(rows)
    /\ PaymentsShape(payment)
    /\ NoRowsOfDeleted(rows, payment)
    /\ \A r \in Requests : LocalOK(req[r], rows, payment, revived)
    /\ \A r, s \in Requests : r # s => Apart(req[r], req[s])

----------------------------------------------------------------------------
(* One request moves, the others stay. *)

(* A request outside its transaction is in order whatever the database     *)
(* becomes.                                                                *)
LEMMA FreeLocal ==
    ASSUME NEW l, LocalShape(l), l.pc \notin {"locking", "locked", "read"},
           NEW rs, NEW pm, NEW rv
    PROVE  LocalOK(l, rs, pm, rv)
  BY DEF LocalOK, PayState, LocksTaken, CoversPayment, CoversInvoices,
         UnapplyRows, RestoreRows, Holds

(* And it stays apart from the others when it locks nothing new. *)
LEMMA FreeApart ==
    ASSUME IInv, NEW r \in Requests, NEW l, l.held \subseteq req[r].held,
           l.pc \notin {"locking", "locked", "read"}
    PROVE  \A s \in Requests \ {r} : Apart(l, req[s])
  <1>1. \A s \in Requests \ {r} : Apart(req[r], req[s])
    BY DEF IInv
  <1> QED  BY <1>1 DEF Apart, Holds

(* Idle is such a request: Done() leaves nothing behind. *)
LEMMA IdleFree == LocalShape(Idle) /\ Idle.held = {} /\ Idle.pc = "idle"
  BY DEF Idle, LocalShape

(* The invariant after a step of request r that leaves it in state l. *)
LEMMA Moved ==
    ASSUME IInv, NEW r \in Requests, NEW l,
           req' = [req EXCEPT ![r] = l],
           RowsShape(rows'), PaymentsShape(payment'),
           NoRowsOfDeleted(rows', payment'),
           LocalOK(l, rows', payment', revived'),
           \A s \in Requests \ {r} :
               LocalOK(req[s], rows', payment', revived') /\ Apart(l, req[s])
    PROVE  IInv'
  <1>1. req' = [s \in Requests |-> IF s = r THEN l ELSE req[s]]
    BY DEF IInv
  <1>2. \A s \in Requests : LocalOK(req'[s], rows', payment', revived')
    BY <1>1
  <1>3. \A s, t \in Requests : s # t => Apart(req'[s], req'[t])
    <2>1. ASSUME NEW s \in Requests, NEW t \in Requests, s # t
          PROVE  Apart(req'[s], req'[t])
      <3>1. CASE s = r
        BY <1>1, <2>1, <3>1
      <3>2. CASE t = r
        <4>1. Apart(l, req[s])
          BY <2>1, <3>2
        <4>2. Apart(req[s], l)
          BY <4>1 DEF Apart
        <4> QED  BY <1>1, <2>1, <3>2, <4>2
      <3>3. CASE s # r /\ t # r
        BY <1>1, <2>1, <3>3 DEF IInv
      <3> QED  BY <3>1, <3>2, <3>3
    <2> QED  BY <2>1
  <1> QED  BY <1>1, <1>2, <1>3 DEF IInv

(* A step that leaves the database alone. *)
LEMMA LocalMove ==
    ASSUME IInv, NEW r \in Requests, NEW l,
           req' = [req EXCEPT ![r] = l],
           rows' = rows, payment' = payment, revived' = revived,
           LocalOK(l, rows, payment, revived),
           \A s \in Requests \ {r} : Apart(l, req[s])
    PROVE  IInv'
  <1>1. \A s \in Requests : LocalOK(req[s], rows', payment', revived')
    BY DEF IInv
  <1> QED  BY <1>1, Moved DEF IInv

(* What a step of r may do to the database without disturbing another      *)
(* request: soft-delete live rows; and, while it holds its payment, give   *)
(* the payment new live rows on invoices it locked or that count as        *)
(* revived.                                                                *)
RowStep(r, k) ==
    \/ rows'[k] = rows[k]
    \/ /\ rows[k].state = "live"
       /\ rows'[k] = [rows[k] EXCEPT !.state = "deleted"]
    \/ /\ Holds(req[r])
       /\ \/ rows[k].state = "unused"
          \/ rows[k].state = "deleted" /\ rows[k].pay = req[r].pay
       /\ rows'[k].state = "live" /\ rows'[k].pay = req[r].pay
       /\ rows'[k].inv \in req[r].held \cup revived'

LEMMA OthersKeep ==
    ASSUME IInv, NEW r \in Requests,
           \A k \in RowIds : RowStep(r, k),
           revived \subseteq revived',
           \A s \in Requests \ {r} : Holds(req[s]) =>
               /\ payment'[req[s].pay].deleted = payment[req[s].pay].deleted
               /\ payment'[req[s].pay].client = payment[req[s].pay].client
    PROVE  \A s \in Requests \ {r} : LocalOK(req[s], rows', payment', revived')
  <1> SUFFICES ASSUME NEW s \in Requests \ {r}
               PROVE  LocalOK(req[s], rows', payment', revived')
    OBVIOUS
  <1> DEFINE l == req[s]
  <1>1. LocalOK(l, rows, payment, revived) /\ Apart(req[r], l)
    BY DEF IInv
  <1>2. LocalShape(l)
    BY <1>1 DEF LocalOK
  <1>3. PayState(l, payment')
    BY <1>1 DEF LocalOK, PayState
  <1>4. LocksTaken(l, payment')
    <2>1. SUFFICES ASSUME l.op \in Inserting, l.pc \in {"locked", "read"}
                   PROVE  NeededBy(l, payment') \subseteq l.held
      BY DEF LocksTaken
    <2>2. Holds(l)
      BY <2>1 DEF Holds, Inserting, LocksPayment
    <2>3. payment'[l.pay].client = payment[l.pay].client
      BY <2>2
    <2>4. NeededBy(l, payment') = NeededBy(l, payment)
      BY <2>3 DEF NeededBy
    <2> QED  BY <1>1, <2>1, <2>4 DEF LocalOK, LocksTaken
  <1>5. \A k \in RowIds : rows'[k].state = "live" =>
            rows'[k] = rows[k] \/ (/\ Holds(req[r]) /\ rows'[k].pay = req[r].pay
                                   /\ rows'[k].inv \in req[r].held \cup revived')
    BY DEF RowStep, IInv, RowsShape
  <1>6. CoversPayment(l, rows')
    <2>1. SUFFICES ASSUME l.pc = "read", l.op \in LocksPayment,
                          NEW k \in RowIds, rows'[k].state = "live", rows'[k].pay = l.pay
                   PROVE  l.snap.rows[k] = rows'[k]
      BY DEF CoversPayment
    <2>2. Holds(l)
      BY <2>1 DEF Holds
    <2>3. rows'[k] = rows[k]
      BY <1>1, <1>5, <2>1, <2>2 DEF Apart
    <2> QED  BY <1>1, <2>1, <2>3 DEF LocalOK, CoversPayment
  <1>7. CoversInvoices(l, rows', revived')
    <2>1. SUFFICES ASSUME l.pc = "read", NEW k \in RowIds, rows'[k].state = "live",
                          rows'[k].inv \in l.held \ revived'
                   PROVE  l.snap.rows[k] = rows'[k]
      BY DEF CoversInvoices
    <2>2. rows'[k] = rows[k]
      BY <1>1, <1>5, <2>1 DEF Apart
    <2> QED  BY <1>1, <2>1, <2>2 DEF LocalOK, CoversInvoices
  <1>8. UnapplyRows(l, rows')
    <2>1. SUFFICES ASSUME l.pc = "read", l.op = "unapply",
                          NEW k \in RowOf(l.snap, l.pay, l.inv)
                   PROVE  rows'[k].state # "unused"
      BY DEF UnapplyRows
    <2>2. k \in RowIds /\ rows[k].state # "unused"
      BY <1>1, <2>1 DEF LocalOK, UnapplyRows, RowOf, LiveOfPayment
    <2> QED  BY <2>2 DEF RowStep, IInv, RowsShape
  <1>9. RestoreRows(l, rows')
    <2>1. SUFFICES ASSUME l.pc = "read", l.op = "restore", NEW k \in RowIds,
                          rows'[k].state = "deleted", rows'[k].pay = l.pay
                   PROVE  l.snap.rows[k] = rows'[k]
      BY DEF RestoreRows
    <2>2. Holds(l)
      BY <2>1 DEF Holds, LocksPayment
    <2>3. l.pay \in Payments /\ payment[l.pay].deleted
      BY <1>1, <2>1, <2>2 DEF LocalOK, PayState
    <2>4. ~(rows[k].state = "live" /\ rows[k].pay = l.pay)
      BY <2>3 DEF IInv, NoRowsOfDeleted
    <2>5. rows'[k] = rows[k]
      BY <2>1, <2>4 DEF RowStep, IInv, RowsShape
    <2> QED  BY <1>1, <2>1, <2>5 DEF LocalOK, RestoreRows
  <1> QED  BY <1>2, <1>3, <1>4, <1>6, <1>7, <1>8, <1>9 DEF LocalOK

----------------------------------------------------------------------------
(* The first step of a request *)

(* A request that locks its payment holds it alone, and nothing else yet.  *)
LEMMA StartLocking ==
    ASSUME IInv, NEW r \in Requests, NEW l, LocalShape(l),
           Start(r, l), UNCHANGED database,
           l.op \in LocksPayment, l.held = {}, l.pc \in {"locking", "locked"},
           l.op \in Inserting => l.pc = "locking",
           l.pay \in Payments, PaymentFree(l.pay),
           payment[l.pay].deleted = (l.op = "restore")
    PROVE  IInv'
  <1>1. rows' = rows /\ payment' = payment /\ revived' = revived
    BY DEF database
  <1>2. LocalOK(l, rows, payment, revived)
    BY DEF LocalOK, PayState, LocksTaken, CoversPayment, CoversInvoices,
           UnapplyRows, RestoreRows
  <1>3. \A s \in Requests : Apart(l, req[s])
    BY DEF Apart, Holds, PaymentFree, HoldsPayment
  <1> QED  BY <1>1, <1>2, <1>3, LocalMove DEF Start

(* A request that locks nothing. *)
LEMMA StartFree ==
    ASSUME IInv, NEW r \in Requests, NEW l, LocalShape(l),
           Start(r, l), rows' = rows, payment' = payment, revived' = revived,
           l.op \notin LocksPayment, l.held = {}, UnapplyRows(l, rows)
    PROVE  IInv'
  <1>1. LocalOK(l, rows, payment, revived)
    BY DEF LocalOK, PayState, LocksTaken, CoversPayment, CoversInvoices,
           RestoreRows, Holds, LocksPayment, Inserting
  <1>2. \A s \in Requests : Apart(l, req[s])
    BY DEF Apart, Holds
  <1> QED  BY <1>1, <1>2, LocalMove DEF Start

LEMMA BeginKeeps ==
    ASSUME IInv, NEW r \in Requests, Begin(r)
    PROVE  IInv'
  <1>1. ASSUME NEW p \in Payments, NEW i \in Invoices, NEW amt \in Amounts,
               BeginAllocate(r, p, i, amt)
        PROVE  IInv'
    <2>0. PICK l : l = [Idle EXCEPT !.op = "allocate", !.pc = "locking", !.pay = p,
                                 !.inv = i, !.to = i, !.amt = amt]
      OBVIOUS
    <2>1. LocalShape(l) /\ l.op = "allocate" /\ l.pc = "locking" /\ l.pay = p /\ l.held = {}
      BY <2>0 DEF Idle, LocalShape
    <2>2. Start(r, l) /\ UNCHANGED database /\ PaymentFree(p) /\ ~payment[p].deleted
      BY <2>0, <1>1 DEF BeginAllocate, Settled
    <2>3. payment[p].deleted = FALSE
      BY <2>2 DEF IInv, PaymentsShape
    <2> QED  BY <2>1, <2>2, <2>3, StartLocking DEF LocksPayment
  <1>2. ASSUME NEW p \in Payments, BeginAuto(r, p)
        PROVE  IInv'
    <2>0. PICK l : l = [Idle EXCEPT !.op = "auto", !.pc = "locking", !.pay = p]
      OBVIOUS
    <2>1. LocalShape(l) /\ l.op = "auto" /\ l.pc = "locking" /\ l.pay = p /\ l.held = {}
      BY <2>0 DEF Idle, LocalShape
    <2>2. Start(r, l) /\ UNCHANGED database /\ PaymentFree(p) /\ ~payment[p].deleted
      BY <2>0, <1>2 DEF BeginAuto, Settled
    <2>3. payment[p].deleted = FALSE
      BY <2>2 DEF IInv, PaymentsShape
    <2> QED  BY <2>1, <2>2, <2>3, StartLocking DEF LocksPayment
  <1>3. ASSUME NEW p \in Payments, NEW i \in Invoices, NEW j \in Invoices, NEW amt,
               NEW whole, BeginReallocate(r, p, i, j, amt, whole)
        PROVE  IInv'
    <2>0. PICK l : l = [Idle EXCEPT !.op = "reallocate", !.pc = "locking",
                                 !.pay = p, !.inv = i, !.to = j, !.amt = amt,
                                 !.flag = whole]
      OBVIOUS
    <2>1. LocalShape(l) /\ l.op = "reallocate" /\ l.pc = "locking" /\ l.pay = p /\ l.held = {}
      BY <2>0 DEF Idle, LocalShape
    <2>2. Start(r, l) /\ UNCHANGED database /\ PaymentFree(p) /\ ~payment[p].deleted
      BY <2>0, <1>3 DEF BeginReallocate, Settled
    <2>3. payment[p].deleted = FALSE
      BY <2>2 DEF IInv, PaymentsShape
    <2> QED  BY <2>1, <2>2, <2>3, StartLocking DEF LocksPayment
  <1>4. ASSUME NEW p \in Payments, BeginDelete(r, p)
        PROVE  IInv'
    <2>0. PICK l : l = [Idle EXCEPT !.op = "delete", !.pc = "locked", !.pay = p]
      OBVIOUS
    <2>1. LocalShape(l) /\ l.op = "delete" /\ l.pc = "locked" /\ l.pay = p /\ l.held = {}
      BY <2>0 DEF Idle, LocalShape
    <2>2. Start(r, l) /\ UNCHANGED database /\ PaymentFree(p) /\ ~payment[p].deleted
      BY <2>0, <1>4 DEF BeginDelete
    <2>3. payment[p].deleted = FALSE
      BY <2>2 DEF IInv, PaymentsShape
    <2> QED  BY <2>1, <2>2, <2>3, StartLocking DEF LocksPayment, Inserting
  <1>5. ASSUME NEW p \in Payments, BeginRestore(r, p)
        PROVE  IInv'
    <2>0. PICK l : l = [Idle EXCEPT !.op = "restore", !.pc = "locked", !.pay = p]
      OBVIOUS
    <2>1. LocalShape(l) /\ l.op = "restore" /\ l.pc = "locked" /\ l.pay = p /\ l.held = {}
      BY <2>0 DEF Idle, LocalShape
    <2>2. Start(r, l) /\ UNCHANGED database /\ PaymentFree(p) /\ payment[p].deleted
      BY <2>0, <1>5 DEF BeginRestore
    <2>3. payment[p].deleted = TRUE
      BY <2>2 DEF IInv, PaymentsShape
    <2> QED  BY <2>1, <2>2, <2>3, StartLocking DEF LocksPayment, Inserting
  <1>6. ASSUME NEW p \in Payments, NEW amt \in Amounts, NEW completed \in BOOLEAN,
               BeginUpdate(r, p, amt, completed)
        PROVE  IInv'
    <2>0. PICK l : l = [Idle EXCEPT !.op = "update", !.pc = "locked", !.pay = p,
                                 !.amt = amt, !.flag = completed]
      OBVIOUS
    <2>1. LocalShape(l) /\ l.op = "update" /\ l.pc = "locked" /\ l.pay = p /\ l.held = {}
      BY <2>0 DEF Idle, LocalShape
    <2>2. Start(r, l) /\ UNCHANGED database /\ PaymentFree(p) /\ ~payment[p].deleted
      BY <2>0, <1>6 DEF BeginUpdate
    <2>3. payment[p].deleted = FALSE
      BY <2>2 DEF IInv, PaymentsShape
    <2> QED  BY <2>1, <2>2, <2>3, StartLocking DEF LocksPayment, Inserting
  <1>7. ASSUME NEW p \in Payments, NEW i \in Invoices, BeginUnapply(r, p, i)
        PROVE  IInv'
    <2>0. PICK l : l = [Idle EXCEPT !.op = "unapply", !.pc = "read", !.pay = p,
                                 !.inv = i, !.to = i, !.snap = Snapshot]
      OBVIOUS
    <2>1. LocalShape(l) /\ l.op = "unapply" /\ l.held = {} /\ l.snap = Snapshot
      BY <2>0 DEF Idle, LocalShape
    <2>2. Start(r, l) /\ UNCHANGED database
      BY <2>0, <1>7 DEF BeginUnapply
    <2>3. UnapplyRows(l, rows)
      BY <2>1 DEF UnapplyRows, RowOf, LiveOfPayment, Snapshot
    <2> QED  BY <2>1, <2>2, <2>3, StartFree DEF LocksPayment, database
  <1>8. ASSUME NEW p \in Payments, NEW c \in Clients, BeginReassign(r, p, c)
        PROVE  IInv'
    <2>0. PICK l : l = [Idle EXCEPT !.op = "reassign", !.pc = "read", !.pay = p,
                                 !.client = c, !.amt = payment[p].amount]
      OBVIOUS
    <2>1. LocalShape(l) /\ l.op = "reassign" /\ l.held = {}
      BY <2>0 DEF Idle, LocalShape
    <2>2. Start(r, l) /\ UNCHANGED database
      BY <2>0, <1>8 DEF BeginReassign
    <2> QED  BY <2>1, <2>2, StartFree DEF LocksPayment, database, UnapplyRows
  <1>9. ASSUME NEW i \in Invoices, CheckVoid(r, i) \/ AcceptCancellation(r, i)
        PROVE  IInv'
    <2>1. PICK op \in {"void", "cancel"} :
            Start(r, [Idle EXCEPT !.op = op, !.pc = "checked", !.inv = i])
      BY <1>9 DEF CheckVoid, AcceptCancellation
    <2>0. PICK l : l = [Idle EXCEPT !.op = op, !.pc = "checked", !.inv = i]
      OBVIOUS
    <2>2. LocalShape(l) /\ l.op = op /\ l.held = {}
      BY <2>0 DEF Idle, LocalShape
    <2>3. rows' = rows /\ payment' = payment /\ revived' = revived
      BY <1>9 DEF CheckVoid, AcceptCancellation, database
    <2>4. Start(r, l)
      BY <2>0, <2>1
    <2> QED  BY <2>1, <2>2, <2>3, <2>4, StartFree DEF LocksPayment, UnapplyRows
  <1> QED  BY <1>1, <1>2, <1>3, <1>4, <1>5, <1>6, <1>7, <1>8, <1>9 DEF Begin

----------------------------------------------------------------------------
(* Steps that leave payments and allocations alone *)

(* A request that gives its locks up, or had none, disturbs nobody. *)
LEMMA StepAside ==
    ASSUME IInv, NEW r \in Requests, NEW l, LocalShape(l),
           req' = [req EXCEPT ![r] = l],
           rows' = rows, payment' = payment, revived' = revived,
           l.held \subseteq req[r].held,
           l.pc \notin {"locking", "locked", "read"}
    PROVE  IInv'
  <1>1. LocalOK(l, rows, payment, revived)
    BY FreeLocal
  <1>2. \A s \in Requests \ {r} : Apart(l, req[s])
    BY FreeApart
  <1> QED  BY <1>1, <1>2, LocalMove

(* lockInvoicesForAllocation takes an invoice nobody holds, or finds that  *)
(* it has them all.                                                        *)
LEMMA LockNextKeeps ==
    ASSUME IInv, NEW r \in Requests, LockNext(r)
    PROVE  IInv'
  <1> DEFINE left == Needed(r) \ req[r].held
  <1>1. rows' = rows /\ payment' = payment /\ revived' = revived
    BY DEF LockNext, database
  <1>2. LocalOK(req[r], rows, payment, revived) /\ req[r].pc = "locking"
    BY DEF IInv, LockNext
  <1>3. \A s \in Requests \ {r} : Apart(req[r], req[s])
    BY DEF IInv
  <1>4. Needed(r) = NeededBy(req[r], payment)
    BY DEF Needed, NeededBy
  <1>5. CASE left = {}
    <2>1. PICK l : l = [req[r] EXCEPT !.pc = "locked"]
      OBVIOUS
    <2>2. LocalShape(l) /\ l.pc = "locked" /\ l.op = req[r].op /\ l.pay = req[r].pay
          /\ l.held = req[r].held /\ l.inv = req[r].inv /\ l.to = req[r].to
      BY <1>2, <2>1 DEF LocalOK, LocalShape
    <2>3. req' = [req EXCEPT ![r] = l]
      BY <1>5, <2>1 DEF LockNext, Goto, Continue
    <2>4. NeededBy(l, payment) = NeededBy(req[r], payment)
      BY <2>2 DEF NeededBy
    <2>5. LocksTaken(l, payment)
      BY <1>4, <1>5, <2>2, <2>4 DEF LocksTaken
    <2>6. LocalOK(l, rows, payment, revived)
      BY <1>2, <2>2, <2>5 DEF LocalOK, PayState, CoversPayment, CoversInvoices,
                              UnapplyRows, RestoreRows, Holds
    <2>7. \A s \in Requests \ {r} : Apart(l, req[s])
      BY <1>2, <1>3, <2>2 DEF Apart, Holds
    <2> QED  BY <1>1, <2>3, <2>6, <2>7, LocalMove
  <1>6. CASE left # {}
    <2>0. PICK i : InvoiceFree(r, i) /\ Continue(r, [req[r] EXCEPT !.held = @ \cup {i}])
      BY <1>6 DEF LockNext
    <2>1. PICK l : l = [req[r] EXCEPT !.held = @ \cup {i}]
      OBVIOUS
    <2>2. LocalShape(l) /\ l.pc = "locking" /\ l.op = req[r].op /\ l.pay = req[r].pay
          /\ l.held = req[r].held \cup {i}
      BY <1>2, <2>1 DEF LocalOK, LocalShape
    <2>3. req' = [req EXCEPT ![r] = l]
      BY <2>0, <2>1 DEF Continue
    <2>6. LocalOK(l, rows, payment, revived)
      BY <1>2, <2>2 DEF LocalOK, PayState, CoversPayment, CoversInvoices,
                        UnapplyRows, RestoreRows, Holds, LocksTaken
    <2>7. \A s \in Requests \ {r} : Apart(l, req[s])
      BY <1>2, <1>3, <2>0, <2>2 DEF Apart, Holds, InvoiceFree
    <2> QED  BY <1>1, <2>3, <2>6, <2>7, LocalMove
  <1> QED  BY <1>5, <1>6

(* The snapshot is taken with the locks held, so it is the database. *)
LEMMA ReadSnapshotKeeps ==
    ASSUME IInv, NEW r \in Requests, ReadSnapshot(r)
    PROVE  IInv'
  <1>1. rows' = rows /\ payment' = payment /\ revived' = revived
    BY DEF ReadSnapshot, database
  <1>2. LocalOK(req[r], rows, payment, revived) /\ req[r].pc = "locked"
    BY DEF IInv, ReadSnapshot
  <1>3. \A s \in Requests \ {r} : Apart(req[r], req[s])
    BY DEF IInv
  <1>4. PICK l : l = [req[r] EXCEPT !.pc = "read", !.snap = Snapshot]
    OBVIOUS
  <1>5. LocalShape(l) /\ l.pc = "read" /\ l.op = req[r].op /\ l.pay = req[r].pay
        /\ l.held = req[r].held /\ l.inv = req[r].inv /\ l.to = req[r].to
        /\ l.snap = Snapshot
    BY <1>2, <1>4 DEF LocalOK, LocalShape
  <1>6. req' = [req EXCEPT ![r] = l]
    BY <1>4 DEF ReadSnapshot, Continue
  <1>7. l.snap.rows = rows
    BY <1>5 DEF Snapshot
  <1>8. NeededBy(l, payment) = NeededBy(req[r], payment)
    BY <1>5 DEF NeededBy
  <1>9. LocksTaken(l, payment) /\ PayState(l, payment)
    BY <1>2, <1>5, <1>8 DEF LocalOK, LocksTaken, PayState, Holds
  <1>10. CoversPayment(l, rows) /\ CoversInvoices(l, rows, revived)
         /\ UnapplyRows(l, rows) /\ RestoreRows(l, rows)
    BY <1>7 DEF CoversPayment, CoversInvoices, UnapplyRows, RestoreRows,
                RowOf, LiveOfPayment
  <1>11. LocalOK(l, rows, payment, revived)
    BY <1>5, <1>9, <1>10 DEF LocalOK
  <1>12. \A s \in Requests \ {r} : Apart(l, req[s])
    BY <1>2, <1>3, <1>5 DEF Apart, Holds
  <1> QED  BY <1>1, <1>6, <1>11, <1>12, LocalMove

(* A request that ends without writing. *)
LEMMA DoneKeeps ==
    ASSUME IInv, NEW r \in Requests, Done(r),
           rows' = rows, payment' = payment, revived' = revived
    PROVE  IInv'
  <1>1. PICK l : l = Idle
    OBVIOUS
  <1>2. LocalShape(l) /\ l.held = {} /\ l.pc = "idle"
    BY <1>1, IdleFree
  <1>3. req' = [req EXCEPT ![r] = l]
    BY <1>1 DEF Done, Continue
  <1> QED  BY <1>2, <1>3, StepAside

(* What comes after the commit, and the steps of a void or a cancellation  *)
(* before its release.                                                     *)
LEMMA AfterwardsKeeps ==
    ASSUME IInv, NEW r \in Requests,
           \/ RefreshRead(r) \/ RefreshWrite(r)
           \/ ReadExisting(r) \/ SettleTerminal(r) \/ Abandon(r)
    PROVE  IInv'
  <1>1. rows' = rows /\ payment' = payment /\ revived' = revived
    BY DEF RefreshRead, RefreshWrite, ReadExisting, SettleTerminal, Abandon, database
  <1>2. LocalShape(req[r])
    BY DEF IInv, LocalOK
  <1>3. CASE Done(r)
    BY <1>1, <1>3, DoneKeeps
  <1>4. CASE RefreshRead(r)
    <2>1. PICK l : l = [req[r] EXCEPT !.pc = "refreshing",
                                      !.flag = Covered(rows, req[r].inv)]
      OBVIOUS
    <2>2. LocalShape(l) /\ l.pc = "refreshing" /\ l.held = req[r].held
      BY <1>2, <2>1 DEF LocalShape
    <2>3. req' = [req EXCEPT ![r] = l]
      BY <1>4, <2>1 DEF RefreshRead, Continue
    <2> QED  BY <1>1, <2>2, <2>3, StepAside
  <1>5. CASE RefreshWrite(r) /\ ~Done(r)
    <2>1. PICK l : l = [req[r] EXCEPT !.pc = "refresh", !.flag = FALSE,
                                      !.inv = req[r].to]
      OBVIOUS
    <2>2. LocalShape(l) /\ l.pc = "refresh" /\ l.held = req[r].held
      BY <1>2, <2>1 DEF LocalShape
    <2>3. req' = [req EXCEPT ![r] = l]
      BY <1>5, <2>1 DEF RefreshWrite, Continue
    <2> QED  BY <1>1, <2>2, <2>3, StepAside
  <1>6. CASE ReadExisting(r) /\ ~Done(r)
    <2>1. PICK l : l = [req[r] EXCEPT !.pc = "settling",
                                      !.flag = invoice[req[r].inv] \in Terminal]
      OBVIOUS
    <2>2. LocalShape(l) /\ l.pc = "settling" /\ l.held = req[r].held
      BY <1>2, <2>1 DEF LocalShape
    <2>3. req' = [req EXCEPT ![r] = l]
      BY <1>6, <2>1 DEF ReadExisting, Continue
    <2> QED  BY <1>1, <2>2, <2>3, StepAside
  <1>7. CASE SettleTerminal(r) /\ ~Done(r)
    <2>1. PICK l : l = [req[r] EXCEPT !.pc = "releasing"]
      OBVIOUS
    <2>2. LocalShape(l) /\ l.pc = "releasing" /\ l.held = req[r].held
      BY <1>2, <2>1 DEF LocalShape
    <2>3. req' = [req EXCEPT ![r] = l]
      BY <1>7, <2>1 DEF SettleTerminal, Goto, Continue
    <2> QED  BY <1>1, <2>2, <2>3, StepAside
  <1> QED  BY <1>3, <1>4, <1>5, <1>6, <1>7 DEF Abandon

----------------------------------------------------------------------------
(* Commits *)

(* A step that writes rows as RowStep allows and leaves r with nothing. *)
LEMMA CommitStep ==
    ASSUME IInv, NEW r \in Requests, NEW l, LocalShape(l), l.held \subseteq req[r].held,
           l.pc \notin {"locking", "locked", "read"},
           req' = [req EXCEPT ![r] = l],
           RowsShape(rows'), PaymentsShape(payment'),
           NoRowsOfDeleted(rows', payment'),
           \A k \in RowIds : RowStep(r, k),
           revived \subseteq revived',
           \A s \in Requests \ {r} : Holds(req[s]) =>
               /\ payment'[req[s].pay].deleted = payment[req[s].pay].deleted
               /\ payment'[req[s].pay].client = payment[req[s].pay].client
    PROVE  IInv'
  <1>1. \A s \in Requests \ {r} : LocalOK(req[s], rows', payment', revived')
    BY OthersKeep
  <1>2. LocalOK(l, rows', payment', revived')
    BY FreeLocal
  <1>3. \A s \in Requests \ {r} : Apart(l, req[s])
    BY FreeApart
  <1> QED  BY <1>1, <1>2, <1>3, Moved

(* Soft-deleting rows in use. *)
LEMMA Deleting ==
    ASSUME NEW rs, RowsShape(rs), NEW ids,
           \A k \in ids : k \in RowIds /\ rs[k].state # "unused"
    PROVE  /\ RowsShape(SoftDeleted(rs, ids))
           /\ \A k \in RowIds :
                 \/ SoftDeleted(rs, ids)[k] = rs[k]
                 \/ /\ rs[k].state = "live" /\ k \in ids
                    /\ SoftDeleted(rs, ids)[k] = [rs[k] EXCEPT !.state = "deleted"]
           /\ \A k \in RowIds \cap ids : SoftDeleted(rs, ids)[k].state = "deleted"
  <1>1. PICK new : new = SoftDeleted(rs, ids)
    OBVIOUS
  <1>2. new = [k \in RowIds |-> IF k \in ids THEN [rs[k] EXCEPT !.state = "deleted"]
                                             ELSE rs[k]]
    BY <1>1 DEF SoftDeleted
  <1>3. ASSUME NEW k \in RowIds, k \in ids
        PROVE  /\ new[k] = [state |-> "deleted", pay |-> rs[k].pay,
                            inv |-> rs[k].inv, amt |-> rs[k].amt]
               /\ rs[k].state = "deleted" => new[k] = rs[k]
               /\ new[k] = [rs[k] EXCEPT !.state = "deleted"]
    <2>1. rs[k] = [state |-> rs[k].state, pay |-> rs[k].pay,
                   inv |-> rs[k].inv, amt |-> rs[k].amt]
      BY DEF RowsShape
    <2>2. new[k] = [rs[k] EXCEPT !.state = "deleted"]
      BY <1>2, <1>3
    <2> QED  BY <2>1, <2>2
  <1>4. ASSUME NEW k \in RowIds, k \notin ids
        PROVE  new[k] = rs[k]
    BY <1>2, <1>4
  <1>5. RowsShape(new)
    <2>1. new = [k \in RowIds |-> new[k]]
      BY <1>2
    <2>2. ASSUME NEW k \in RowIds
          PROVE  /\ new[k] = [state |-> new[k].state, pay |-> new[k].pay,
                              inv |-> new[k].inv, amt |-> new[k].amt]
                 /\ new[k].state \in {"unused", "live", "deleted"}
      <3>1. CASE k \in ids
        BY <1>3, <3>1
      <3>2. CASE k \notin ids
        BY <1>4, <3>2 DEF RowsShape
      <3> QED  BY <3>1, <3>2
    <2> QED  BY <2>1, <2>2 DEF RowsShape
  <1>6. \A k \in RowIds : \/ new[k] = rs[k]
                          \/ /\ rs[k].state = "live" /\ k \in ids
                             /\ new[k] = [rs[k] EXCEPT !.state = "deleted"]
    BY <1>3, <1>4 DEF RowsShape
  <1>7. \A k \in RowIds \cap ids : new[k].state = "deleted"
    BY <1>3
  <1> QED  BY <1>1, <1>5, <1>6, <1>7

(* Inserting the rows of a plan over invoices it locked. *)
LEMMA Inserts ==
    ASSUME IInv, NEW r \in Requests, NEW plan, NEW at \in Placements(plan), NEW p
    PROVE  /\ RowsShape(Inserted(p, plan, at))
           /\ \A k \in RowIds :
                 \/ Inserted(p, plan, at)[k] = rows[k]
                 \/ /\ rows[k].state = "unused"
                    /\ Inserted(p, plan, at)[k].state = "live"
                    /\ Inserted(p, plan, at)[k].pay = p
                    /\ Inserted(p, plan, at)[k].inv \in DOMAIN plan
  <1>1. PICK new : new = Inserted(p, plan, at)
    OBVIOUS
  <1>2. new = [k \in RowIds |->
                 IF k \in NewIds(plan)
                   THEN [state |-> "live", pay |-> p, inv |-> at[k], amt |-> plan[at[k]]]
                   ELSE rows[k]]
    BY <1>1 DEF Inserted
  <1>3. ASSUME NEW k \in RowIds, k \in NewIds(plan)
        PROVE  /\ rows[k].state = "unused"
               /\ at[k] \in DOMAIN plan
               /\ new[k] = [state |-> "live", pay |-> p, inv |-> at[k], amt |-> plan[at[k]]]
    BY <1>2, <1>3 DEF NewIds, Placements
  <1>4. ASSUME NEW k \in RowIds, k \in NewIds(plan)
         PROVE  /\ rows[k].state = "unused"
                /\ new[k].state = "live" /\ new[k].pay = p
                /\ new[k].inv \in DOMAIN plan
                /\ new[k] = [state |-> new[k].state, pay |-> new[k].pay,
                             inv |-> new[k].inv, amt |-> new[k].amt]
    <2>1. PICK i, a, x : i = at[k] /\ a = plan[at[k]] /\ x = new[k]
      OBVIOUS
    <2>2. i \in DOMAIN plan /\ x = [state |-> "live", pay |-> p, inv |-> i, amt |-> a]
      BY <1>3, <1>4, <2>1
    <2>3. /\ x.state = "live" /\ x.pay = p /\ x.inv = i
          /\ x = [state |-> x.state, pay |-> x.pay, inv |-> x.inv, amt |-> x.amt]
      BY <2>2
    <2> QED  BY <1>3, <1>4, <2>1, <2>2, <2>3
  <1>5. ASSUME NEW k \in RowIds, k \notin NewIds(plan)
        PROVE  new[k] = rows[k]
    BY <1>2, <1>5
  <1>6. RowsShape(new)
    <2>1. new = [k \in RowIds |-> new[k]]
      BY <1>2
    <2>2. ASSUME NEW k \in RowIds
          PROVE  /\ new[k] = [state |-> new[k].state, pay |-> new[k].pay,
                              inv |-> new[k].inv, amt |-> new[k].amt]
                 /\ new[k].state \in {"unused", "live", "deleted"}
      <3>1. CASE k \in NewIds(plan)
        BY <1>4, <3>1
      <3>2. CASE k \notin NewIds(plan)
        BY <1>5, <3>2 DEF IInv, RowsShape
      <3> QED  BY <3>1, <3>2
    <2> QED  BY <2>1, <2>2 DEF RowsShape
  <1>7. \A k \in RowIds : \/ new[k] = rows[k]
                          \/ /\ rows[k].state = "unused" /\ new[k].state = "live"
                             /\ new[k].pay = p /\ new[k].inv \in DOMAIN plan
    BY <1>4, <1>5
  <1> QED  BY <1>1, <1>6, <1>7

(* allocateAcrossInvoices only touches invoices it was given. *)
LEMMA WaterfallDomain ==
    ASSUME NEW r, NEW chosen
    PROVE  DOMAIN Waterfall(r, chosen) \subseteq chosen
  BY DEF Waterfall

(* A commit after which the request is over. *)
LEMMA CommitDone ==
    ASSUME IInv, NEW r \in Requests, Done(r),
           RowsShape(rows'), PaymentsShape(payment'),
           NoRowsOfDeleted(rows', payment'),
           \A k \in RowIds : RowStep(r, k),
           revived \subseteq revived',
           \A s \in Requests \ {r} : Holds(req[s]) =>
               /\ payment'[req[s].pay].deleted = payment[req[s].pay].deleted
               /\ payment'[req[s].pay].client = payment[req[s].pay].client
    PROVE  IInv'
  <1>1. PICK l : l = Idle
    OBVIOUS
  <1>2. LocalShape(l) /\ l.held = {} /\ l.pc = "idle"
    BY <1>1, IdleFree
  <1>3. req' = [req EXCEPT ![r] = l]
    BY <1>1 DEF Done, Continue
  <1> QED  BY <1>2, <1>3, CommitStep

(* What a committing request of an allocating route knows. *)
LEMMA AllocatorHolds ==
    ASSUME IInv, NEW r \in Requests, req[r].op \in Inserting, req[r].pc = "read"
    PROVE  /\ Holds(req[r])
           /\ req[r].pay \in Payments /\ ~payment[req[r].pay].deleted
           /\ NeededBy(req[r], payment) \subseteq req[r].held
  <1>1. LocalOK(req[r], rows, payment, revived)
    BY DEF IInv
  <1>2. Holds(req[r])
    BY DEF Holds, Inserting, LocksPayment
  <1>3. req[r].op # "restore"
    BY DEF Inserting
  <1> QED  BY <1>1, <1>2, <1>3 DEF LocalOK, PayState, LocksTaken

(* applyAllocation under the locks of the payment and of its invoices. *)
LEMMA ApplyKeeps ==
    ASSUME IInv, NEW r \in Requests, req[r].op \in Inserting, req[r].pc = "read",
           NEW plan, DOMAIN plan \subseteq req[r].held,
           Apply(r, plan), Done(r), payment' = payment, revived' = revived
    PROVE  IInv'
  <1>1. PICK at \in Placements(plan) : rows' = Inserted(req[r].pay, plan, at)
    BY DEF Apply
  <1>2. /\ RowsShape(rows')
        /\ \A k \in RowIds :
             \/ rows'[k] = rows[k]
             \/ /\ rows[k].state = "unused" /\ rows'[k].state = "live"
                /\ rows'[k].pay = req[r].pay /\ rows'[k].inv \in DOMAIN plan
    BY <1>1, Inserts
  <1>3. Holds(req[r]) /\ req[r].pay \in Payments /\ ~payment[req[r].pay].deleted
    BY AllocatorHolds
  <1>4. ASSUME NEW k \in RowIds
        PROVE  RowStep(r, k)
    <2>1. CASE rows'[k] = rows[k]
      BY <2>1 DEF RowStep
    <2>2. CASE rows'[k] # rows[k]
      <3>1. /\ rows[k].state = "unused" /\ rows'[k].state = "live"
            /\ rows'[k].pay = req[r].pay /\ rows'[k].inv \in req[r].held \cup revived'
        BY <1>2, <2>2
      <3> QED  BY <1>3, <3>1 DEF RowStep
    <2> QED  BY <2>1, <2>2
  <1>5. NoRowsOfDeleted(rows', payment')
    BY <1>2, <1>3 DEF NoRowsOfDeleted, IInv
  <1>6. PaymentsShape(payment')
    BY DEF IInv
  <1> QED  BY <1>2, <1>4, <1>5, <1>6, CommitDone

LEMMA CommitAllocateKeeps ==
    ASSUME IInv, NEW r \in Requests, CommitAllocate(r)
    PROVE  IInv'
  <1>1. PICK plan : plan = [x \in {req[r].inv} |-> req[r].amt]
    OBVIOUS
  <1>2. Apply(r, plan) /\ Done(r) /\ payment' = payment /\ revived' = revived
        /\ req[r].op = "allocate" /\ req[r].pc = "read"
    BY <1>1 DEF CommitAllocate
  <1>3. NeededBy(req[r], payment) \subseteq req[r].held
    BY <1>2, AllocatorHolds DEF Inserting
  <1>4. DOMAIN plan \subseteq req[r].held
    BY <1>1, <1>2, <1>3 DEF NeededBy
  <1> QED  BY <1>2, <1>4, ApplyKeeps DEF Inserting

LEMMA CommitAutoKeeps ==
    ASSUME IInv, NEW r \in Requests, CommitAuto(r)
    PROVE  IInv'
  <1>1. Done(r) /\ payment' = payment /\ revived' = revived
        /\ req[r].op = "auto" /\ req[r].pc = "read"
    BY DEF CommitAuto
  <1>2. PICK chosen \in SUBSET {i \in Invoices : /\ invoice[i] = "issued"
                                                 /\ Billed[i] = payment[req[r].pay].client} :
          Apply(r, Waterfall(r, chosen))
    BY DEF CommitAuto
  <1>3. NeededBy(req[r], payment) \subseteq req[r].held
    BY <1>1, AllocatorHolds DEF Inserting
  <1>4. chosen \subseteq req[r].held
    BY <1>1, <1>2, <1>3 DEF NeededBy
  <1>5. PICK plan : plan = Waterfall(r, chosen)
    OBVIOUS
  <1>6. DOMAIN plan \subseteq req[r].held
    BY <1>4, <1>5, WaterfallDomain
  <1>7. Apply(r, plan)
    BY <1>2, <1>5
  <1> QED  BY <1>1, <1>6, <1>7, ApplyKeeps DEF Inserting

(* Rows only go, the payments stay. *)
LEMMA DeletingKeeps ==
    ASSUME IInv, NEW r \in Requests, NEW l, LocalShape(l), l.held \subseteq req[r].held,
           l.pc \notin {"locking", "locked", "read"},
           req' = [req EXCEPT ![r] = l],
           NEW ids, \A k \in ids : k \in RowIds /\ rows[k].state # "unused",
           rows' = SoftDeleted(rows, ids), payment' = payment, revived' = revived
    PROVE  IInv'
  <1>1. /\ RowsShape(rows')
        /\ \A k \in RowIds :
             \/ rows'[k] = rows[k]
             \/ /\ rows[k].state = "live" /\ k \in ids
                /\ rows'[k] = [rows[k] EXCEPT !.state = "deleted"]
        /\ \A k \in RowIds \cap ids : rows'[k].state = "deleted"
    BY Deleting DEF IInv
  <1>2. \A k \in RowIds : RowStep(r, k)
    BY <1>1 DEF RowStep
  <1>3. NoRowsOfDeleted(rows', payment')
    BY <1>1 DEF NoRowsOfDeleted, IInv
  <1>4. PaymentsShape(payment')
    BY DEF IInv
  <1> QED  BY <1>1, <1>2, <1>3, <1>4, CommitStep

LEMMA CommitUnapplyKeeps ==
    ASSUME IInv, NEW r \in Requests, CommitUnapply(r)
    PROVE  IInv'
  <1>0. LocalOK(req[r], rows, payment, revived) /\ req[r].pc = "read" /\ req[r].op = "unapply"
    BY DEF IInv, CommitUnapply
  <1>1. PICK ids : ids = RowOf(req[r].snap, req[r].pay, req[r].inv)
    OBVIOUS
  <1>2. \A k \in ids : k \in RowIds /\ rows[k].state # "unused"
    BY <1>0, <1>1 DEF LocalOK, UnapplyRows, RowOf, LiveOfPayment
  <1>3. rows' = SoftDeleted(rows, ids) /\ payment' = payment /\ revived' = revived
    BY <1>1 DEF CommitUnapply
  <1>4. PICK l : l = [req[r] EXCEPT !.pc = "refresh", !.snap = NoSnap]
    OBVIOUS
  <1>5. LocalShape(l) /\ l.pc = "refresh" /\ l.held = req[r].held
    BY <1>0, <1>4 DEF LocalOK, LocalShape
  <1>6. req' = [req EXCEPT ![r] = l]
    BY <1>4 DEF CommitUnapply, Continue
  <1> QED  BY <1>2, <1>3, <1>5, <1>6, DeletingKeeps

(* releaseInvoiceAllocations *)
LEMMA ReleaseKeeps ==
    ASSUME IInv, NEW r \in Requests, Release(r)
    PROVE  IInv'
  <1>1. PICK ids : ids = LiveOnInvoice(rows, req[r].inv)
    OBVIOUS
  <1>2. \A k \in ids : k \in RowIds /\ rows[k].state # "unused"
    BY <1>1 DEF LiveOnInvoice
  <1>3. rows' = SoftDeleted(rows, ids) /\ payment' = payment /\ revived' = revived
    BY <1>1 DEF Release
  <1>4. PICK l : l = Idle
    OBVIOUS
  <1>5. LocalShape(l) /\ l.held = {} /\ l.pc = "idle"
    BY <1>4, IdleFree
  <1>6. req' = [req EXCEPT ![r] = l]
    BY <1>4 DEF Release, Done, Continue
  <1> QED  BY <1>2, <1>3, <1>5, <1>6, DeletingKeeps

LEMMA CommitReallocateKeeps ==
    ASSUME IInv, NEW r \in Requests, CommitReallocate(r)
    PROVE  IInv'
  <1>0. LocalShape(req[r]) /\ req[r].pc = "read" /\ req[r].op = "reallocate"
    BY DEF IInv, LocalOK, CommitReallocate
  <1>1. payment' = payment /\ revived' = revived
    BY DEF CommitReallocate
  <1>2. PICK gone : gone = {k \in RowOf(req[r].snap, req[r].pay, req[r].inv) :
                               rows[k].state = "live"}
    OBVIOUS
  <1>3. PICK plan : plan = [i \in {req[r].to} |->
                              IF req[r].flag
                                THEN req[r].snap.rows[Min(RowOf(req[r].snap, req[r].pay, req[r].inv))].amt
                                ELSE req[r].amt]
    OBVIOUS
  <1>4. PICK at \in Placements(plan) :
          rows' = SoftDeleted(Inserted(req[r].pay, plan, at), gone)
    BY <1>2, <1>3 DEF CommitReallocate
  <1>5. PICK mid : mid = Inserted(req[r].pay, plan, at)
    OBVIOUS
  <1>6. /\ RowsShape(mid)
        /\ \A k \in RowIds :
             \/ mid[k] = rows[k]
             \/ /\ rows[k].state = "unused" /\ mid[k].state = "live"
                /\ mid[k].pay = req[r].pay /\ mid[k].inv \in DOMAIN plan
    BY <1>5, Inserts
  <1>7. Holds(req[r]) /\ req[r].pay \in Payments /\ ~payment[req[r].pay].deleted
        /\ NeededBy(req[r], payment) \subseteq req[r].held
    BY <1>0, AllocatorHolds DEF Inserting
  <1>8. DOMAIN plan \subseteq req[r].held
    BY <1>0, <1>3, <1>7 DEF NeededBy
  <1>9. \A k \in gone : k \in RowIds /\ rows[k].state = "live" /\ mid[k] = rows[k]
    BY <1>2, <1>6 DEF RowOf, LiveOfPayment
  <1>10. /\ RowsShape(rows')
         /\ \A k \in RowIds :
              \/ rows'[k] = mid[k]
              \/ /\ mid[k].state = "live" /\ k \in gone
                 /\ rows'[k] = [mid[k] EXCEPT !.state = "deleted"]
         /\ \A k \in RowIds \cap gone : rows'[k].state = "deleted"
    BY <1>4, <1>5, <1>6, <1>9, Deleting
  <1>11. ASSUME NEW k \in RowIds
         PROVE  RowStep(r, k)
    <2>1. CASE k \in gone /\ rows'[k] # rows[k]
      BY <1>9, <1>10, <2>1 DEF RowStep
    <2>2. CASE k \notin gone /\ rows'[k] # rows[k]
      <3>1. rows'[k] = mid[k]
        BY <1>10, <2>2
      <3>2. /\ rows[k].state = "unused" /\ rows'[k].state = "live"
            /\ rows'[k].pay = req[r].pay /\ rows'[k].inv \in req[r].held \cup revived'
        BY <1>6, <1>8, <2>2, <3>1
      <3> QED  BY <1>7, <3>2 DEF RowStep
    <2> QED  BY <2>1, <2>2 DEF RowStep
  <1>12. NoRowsOfDeleted(rows', payment')
    <2>1. ASSUME NEW k \in RowIds, rows'[k].state = "live"
          PROVE  rows'[k].pay \in Payments /\ ~payment[rows'[k].pay].deleted
      <3>1. rows'[k] = mid[k]
        BY <1>10, <2>1
      <3> QED  BY <1>6, <1>7, <2>1, <3>1 DEF IInv, NoRowsOfDeleted
    <2> QED  BY <1>1, <2>1 DEF NoRowsOfDeleted
  <1>13. PaymentsShape(payment')
    BY <1>1 DEF IInv
  <1>14. PICK l : l = [req[r] EXCEPT !.pc = "refresh", !.flag = FALSE, !.held = {},
                                     !.snap = NoSnap]
    OBVIOUS
  <1>15. LocalShape(l) /\ l.pc = "refresh" /\ l.held = {}
    BY <1>0, <1>14 DEF LocalShape
  <1>16. req' = [req EXCEPT ![r] = l]
    BY <1>14 DEF CommitReallocate, Continue
  <1> QED  BY <1>1, <1>10, <1>11, <1>12, <1>13, <1>15, <1>16, CommitStep

(* A step that changes one payment. *)
LEMMA PaymentReplaced ==
    ASSUME PaymentsShape(payment), NEW p \in Payments, NEW new,
           payment' = [payment EXCEPT ![p] = new],
           new = [deleted |-> new.deleted, completed |-> new.completed,
                  amount |-> new.amount, client |-> new.client],
           new.deleted \in BOOLEAN
    PROVE  /\ PaymentsShape(payment') /\ payment'[p] = new
           /\ \A q \in Payments \ {p} : payment'[q] = payment[q]
  <1>1. payment' = [q \in Payments |-> IF q = p THEN new ELSE payment[q]]
    BY DEF PaymentsShape
  <1> QED  BY <1>1 DEF PaymentsShape

(* Nobody else looks at a payment that r holds or that nobody holds. *)
LEMMA OthersPayments ==
    ASSUME IInv, NEW r \in Requests, NEW p,
           PaymentFree(p) \/ (Holds(req[r]) /\ req[r].pay = p),
           \A q \in Payments \ {p} : payment'[q] = payment[q]
    PROVE  \A s \in Requests \ {r} : Holds(req[s]) =>
               /\ payment'[req[s].pay].deleted = payment[req[s].pay].deleted
               /\ payment'[req[s].pay].client = payment[req[s].pay].client
  <1> SUFFICES ASSUME NEW s \in Requests \ {r}, Holds(req[s])
               PROVE  payment'[req[s].pay] = payment[req[s].pay]
    OBVIOUS
  <1>1. req[s].pay \in Payments
    BY DEF IInv, LocalOK, PayState
  <1>2. req[s].pay # p
    BY DEF IInv, Apart, PaymentFree, HoldsPayment, Holds
  <1> QED  BY <1>1, <1>2

LEMMA CommitReassignKeeps ==
    ASSUME IInv, NEW r \in Requests, CommitReassign(r)
    PROVE  IInv'
  <1>1. PICK p : p = req[r].pay
    OBVIOUS
  <1>2. /\ payment' = [payment EXCEPT ![p].client = req[r].client]
        /\ PaymentFree(p) /\ Done(r) /\ rows' = rows /\ revived' = revived
    BY <1>1 DEF CommitReassign
  <1>3. PaymentsShape(payment) /\ RowsShape(rows) /\ NoRowsOfDeleted(rows, payment)
    BY DEF IInv
  <1>4. CASE p \in Payments
    <2>1. PICK old : old = payment[p]
      OBVIOUS
    <2>2. /\ old = [deleted |-> old.deleted, completed |-> old.completed,
                    amount |-> old.amount, client |-> old.client]
          /\ old.deleted \in BOOLEAN
      BY <1>3, <1>4, <2>1 DEF PaymentsShape
    <2>3. PICK new : new = [old EXCEPT !.client = req[r].client]
      OBVIOUS
    <2>4. /\ new = [deleted |-> new.deleted, completed |-> new.completed,
                    amount |-> new.amount, client |-> new.client]
          /\ new.deleted = old.deleted
      BY <2>2, <2>3
    <2>5. payment' = [payment EXCEPT ![p] = new]
      BY <1>2, <2>1, <2>3
    <2>6. /\ PaymentsShape(payment') /\ payment'[p] = new
          /\ \A q \in Payments \ {p} : payment'[q] = payment[q]
      BY <1>3, <1>4, <2>2, <2>4, <2>5, PaymentReplaced
    <2>7. NoRowsOfDeleted(rows', payment')
      BY <1>2, <1>3, <2>1, <2>4, <2>6 DEF NoRowsOfDeleted
    <2>8. \A k \in RowIds : RowStep(r, k)
      BY <1>2 DEF RowStep
    <2>9. \A s \in Requests \ {r} : Holds(req[s]) =>
            /\ payment'[req[s].pay].deleted = payment[req[s].pay].deleted
            /\ payment'[req[s].pay].client = payment[req[s].pay].client
      BY <1>2, <2>6, OthersPayments
    <2> QED  BY <1>2, <1>3, <2>6, <2>7, <2>8, <2>9, CommitDone
  <1>5. CASE p \notin Payments
    <2>1. payment' = payment
      BY <1>2, <1>3, <1>5 DEF PaymentsShape
    <2> QED  BY <1>2, <2>1, DoneKeeps
  <1> QED  BY <1>4, <1>5

LEMMA CommitUpdateKeeps ==
    ASSUME IInv, NEW r \in Requests, CommitUpdate(r)
    PROVE  IInv'
  <1>1. PICK p : p = req[r].pay
    OBVIOUS
  <1>2. /\ payment' = [payment EXCEPT ![p].amount = req[r].amt,
                                      ![p].completed = req[r].flag]
        /\ Done(r) /\ rows' = rows /\ revived' = revived
        /\ req[r].op = "update" /\ req[r].pc = "read"
    BY <1>1 DEF CommitUpdate
  <1>3. PaymentsShape(payment) /\ RowsShape(rows) /\ NoRowsOfDeleted(rows, payment)
        /\ LocalOK(req[r], rows, payment, revived)
    BY DEF IInv
  <1>4. Holds(req[r]) /\ p \in Payments
    BY <1>1, <1>2, <1>3 DEF Holds, LocksPayment, LocalOK, PayState
  <1>5. PICK old : old = payment[p]
    OBVIOUS
  <1>6. /\ old = [deleted |-> old.deleted, completed |-> old.completed,
                  amount |-> old.amount, client |-> old.client]
        /\ old.deleted \in BOOLEAN
    BY <1>3, <1>4, <1>5 DEF PaymentsShape
  <1>7. PICK new : new = [old EXCEPT !.amount = req[r].amt, !.completed = req[r].flag]
    OBVIOUS
  <1>8. /\ new = [deleted |-> new.deleted, completed |-> new.completed,
                  amount |-> new.amount, client |-> new.client]
        /\ new.deleted = old.deleted
    BY <1>6, <1>7
  <1>9. payment' = [payment EXCEPT ![p] = new]
    BY <1>2, <1>3, <1>4, <1>5, <1>7 DEF PaymentsShape
  <1>10. /\ PaymentsShape(payment') /\ payment'[p] = new
         /\ \A q \in Payments \ {p} : payment'[q] = payment[q]
    BY <1>3, <1>4, <1>6, <1>8, <1>9, PaymentReplaced
  <1>11. NoRowsOfDeleted(rows', payment')
    <2>1. \A q \in Payments : payment'[q].deleted = payment[q].deleted
      BY <1>5, <1>8, <1>10
    <2> QED  BY <1>2, <1>3, <2>1 DEF NoRowsOfDeleted, RowsShape
  <1>12. \A k \in RowIds : RowStep(r, k)
    BY <1>2 DEF RowStep
  <1> QED  BY <1>1, <1>2, <1>3, <1>4, <1>10, <1>11, <1>12, OthersPayments, CommitDone

(* A delete soft-deletes every live allocation of the payment, because its *)
(* snapshot shows them all.                                                *)
LEMMA CommitDeleteKeeps ==
    ASSUME IInv, NEW r \in Requests, CommitDelete(r)
    PROVE  IInv'
  <1>1. PICK p : p = req[r].pay
    OBVIOUS
  <1>2. /\ payment' = [payment EXCEPT ![p].deleted = TRUE]
        /\ Done(r) /\ revived' = revived
        /\ req[r].op = "delete" /\ req[r].pc = "read"
    BY <1>1 DEF CommitDelete
  <1>3. PaymentsShape(payment) /\ RowsShape(rows) /\ NoRowsOfDeleted(rows, payment)
        /\ LocalOK(req[r], rows, payment, revived)
    BY DEF IInv
  <1>4. Holds(req[r]) /\ p \in Payments
    BY <1>1, <1>2, <1>3 DEF Holds, LocksPayment, LocalOK, PayState
  <1>5. PICK old : old = payment[p]
    OBVIOUS
  <1>6. old = [deleted |-> old.deleted, completed |-> old.completed,
               amount |-> old.amount, client |-> old.client]
    BY <1>3, <1>4, <1>5 DEF PaymentsShape
  <1>7. PICK new : new = [old EXCEPT !.deleted = TRUE]
    OBVIOUS
  <1>8. /\ new = [deleted |-> new.deleted, completed |-> new.completed,
                  amount |-> new.amount, client |-> new.client]
        /\ new.deleted = TRUE
    BY <1>6, <1>7
  <1>9. payment' = [payment EXCEPT ![p] = new]
    BY <1>2, <1>5, <1>7
  <1>10. /\ PaymentsShape(payment')
         /\ \A q \in Payments \ {p} : payment'[q] = payment[q]
    BY <1>3, <1>4, <1>8, <1>9, PaymentReplaced
  <1>11. PICK ids : /\ ids = IF LiveOfPayment(req[r].snap.rows, p) = {}
                               THEN {} ELSE LiveOfPayment(rows, p)
                    /\ rows' = SoftDeleted(rows, ids)
    BY <1>1 DEF CommitDelete
  <1>12. LiveOfPayment(rows, p) \subseteq ids
    <2>1. LiveOfPayment(rows, p) \subseteq LiveOfPayment(req[r].snap.rows, p)
      <3>1. ASSUME NEW k \in RowIds, rows[k].state = "live", rows[k].pay = p
            PROVE  req[r].snap.rows[k] = rows[k]
        BY <1>1, <1>2, <1>3, <3>1 DEF LocalOK, CoversPayment, LocksPayment
      <3> QED  BY <3>1 DEF LiveOfPayment
    <2> QED  BY <1>11, <2>1
  <1>13. \A k \in ids : k \in RowIds /\ rows[k].state # "unused"
    BY <1>11 DEF LiveOfPayment
  <1>14. /\ RowsShape(rows')
         /\ \A k \in RowIds :
              \/ rows'[k] = rows[k]
              \/ /\ rows[k].state = "live" /\ k \in ids
                 /\ rows'[k] = [rows[k] EXCEPT !.state = "deleted"]
         /\ \A k \in RowIds \cap ids : rows'[k].state = "deleted"
    BY <1>3, <1>11, <1>13, Deleting
  <1>15. \A k \in RowIds : RowStep(r, k)
    BY <1>14 DEF RowStep
  <1>16. NoRowsOfDeleted(rows', payment')
    <2>1. SUFFICES ASSUME NEW k \in RowIds, rows'[k].state = "live"
                   PROVE  rows'[k].pay \in Payments /\ ~payment'[rows'[k].pay].deleted
      BY DEF NoRowsOfDeleted
    <2>2. rows'[k] = rows[k] /\ k \notin ids
      BY <1>14, <2>1
    <2>3. rows[k].pay \in Payments \ {p} /\ ~payment[rows[k].pay].deleted
      BY <1>3, <1>12, <2>1, <2>2 DEF NoRowsOfDeleted, LiveOfPayment
    <2> QED  BY <1>10, <2>2, <2>3
  <1>17. \A s \in Requests \ {r} : Holds(req[s]) =>
           /\ payment'[req[s].pay].deleted = payment[req[s].pay].deleted
           /\ payment'[req[s].pay].client = payment[req[s].pay].client
    BY <1>1, <1>4, <1>10, OthersPayments
  <1> QED  BY <1>2, <1>10, <1>14, <1>15, <1>16, <1>17, CommitDone

(* A restore puts rows back on invoices it did not lock; they count as     *)
(* revived.                                                                *)
LEMMA CommitRestoreKeeps ==
    ASSUME IInv, NEW r \in Requests, CommitRestore(r)
    PROVE  IInv'
  <1>1. PICK p : p = req[r].pay
    OBVIOUS
  <1>2. /\ payment' = [payment EXCEPT ![p].deleted = FALSE]
        /\ Done(r)
        /\ req[r].op = "restore" /\ req[r].pc = "read"
    BY <1>1 DEF CommitRestore
  <1>3. PaymentsShape(payment) /\ RowsShape(rows) /\ NoRowsOfDeleted(rows, payment)
        /\ LocalOK(req[r], rows, payment, revived)
    BY DEF IInv
  <1>4. Holds(req[r]) /\ p \in Payments
    BY <1>1, <1>2, <1>3 DEF Holds, LocksPayment, LocalOK, PayState
  <1>5. PICK old : old = payment[p]
    OBVIOUS
  <1>6. old = [deleted |-> old.deleted, completed |-> old.completed,
               amount |-> old.amount, client |-> old.client]
    BY <1>3, <1>4, <1>5 DEF PaymentsShape
  <1>7. PICK new : new = [old EXCEPT !.deleted = FALSE]
    OBVIOUS
  <1>8. /\ new = [deleted |-> new.deleted, completed |-> new.completed,
                  amount |-> new.amount, client |-> new.client]
        /\ new.deleted = FALSE
    BY <1>6, <1>7
  <1>9. payment' = [payment EXCEPT ![p] = new]
    BY <1>2, <1>5, <1>7
  <1>10. /\ PaymentsShape(payment') /\ payment'[p] = new
         /\ \A q \in Payments \ {p} : payment'[q] = payment[q]
    BY <1>3, <1>4, <1>8, <1>9, PaymentReplaced
  <1>11. PICK seen : seen = {k \in RowIds : req[r].snap.rows[k].state = "deleted"
                                            /\ req[r].snap.rows[k].pay = p}
    OBVIOUS
  <1>12. PICK ids : /\ ids = IF seen = {} THEN {}
                               ELSE {k \in RowIds : rows[k].state = "deleted" /\ rows[k].pay = p}
                    /\ rows' = [k \in RowIds |-> IF k \in ids
                                                   THEN [rows[k] EXCEPT !.state = "live"]
                                                   ELSE rows[k]]
                    /\ revived' = revived \cup {req[r].snap.rows[k].inv : k \in seen}
    BY <1>1, <1>11 DEF CommitRestore
  <1>13. ASSUME NEW k \in RowIds, k \in ids
         PROVE  /\ rows[k].state = "deleted" /\ rows[k].pay = p
                /\ rows'[k].state = "live" /\ rows'[k].pay = p
                /\ rows'[k].inv \in revived'
                /\ rows'[k] = [state |-> rows'[k].state, pay |-> rows'[k].pay,
                               inv |-> rows'[k].inv, amt |-> rows'[k].amt]
    <2>1. rows[k].state = "deleted" /\ rows[k].pay = p
      BY <1>12, <1>13
    <2>2. req[r].snap.rows[k] = rows[k]
      BY <1>1, <1>2, <1>3, <2>1 DEF LocalOK, RestoreRows
    <2>3. rows[k].inv \in revived'
      BY <1>11, <1>12, <2>1, <2>2
    <2>4. PICK x, y : x = rows[k] /\ y = rows'[k]
      OBVIOUS
    <2>5. x = [state |-> x.state, pay |-> x.pay, inv |-> x.inv, amt |-> x.amt]
      BY <1>3, <2>4 DEF RowsShape
    <2>6. y = [x EXCEPT !.state = "live"]
      BY <1>12, <1>13, <2>4
    <2>7. /\ y = [state |-> y.state, pay |-> y.pay, inv |-> y.inv, amt |-> y.amt]
          /\ y.state = "live" /\ y.pay = x.pay /\ y.inv = x.inv
      BY <2>5, <2>6
    <2> QED  BY <2>1, <2>3, <2>4, <2>7
  <1>14. ASSUME NEW k \in RowIds, k \notin ids
         PROVE  rows'[k] = rows[k]
    BY <1>12, <1>14
  <1>15. RowsShape(rows')
    <2>1. rows' = [k \in RowIds |-> rows'[k]]
      BY <1>12
    <2>2. ASSUME NEW k \in RowIds
          PROVE  /\ rows'[k] = [state |-> rows'[k].state, pay |-> rows'[k].pay,
                                inv |-> rows'[k].inv, amt |-> rows'[k].amt]
                 /\ rows'[k].state \in {"unused", "live", "deleted"}
      <3>1. CASE k \in ids
        BY <1>13, <3>1
      <3>2. CASE k \notin ids
        BY <1>3, <1>14, <3>2 DEF RowsShape
      <3> QED  BY <3>1, <3>2
    <2> QED  BY <2>1, <2>2 DEF RowsShape
  <1>16. ASSUME NEW k \in RowIds
         PROVE  RowStep(r, k)
    <2>1. CASE k \in ids
      <3>1. /\ rows[k].state = "deleted" /\ rows[k].pay = req[r].pay
            /\ rows'[k].state = "live" /\ rows'[k].pay = req[r].pay
            /\ rows'[k].inv \in req[r].held \cup revived'
        BY <1>1, <1>13, <2>1
      <3> QED  BY <1>4, <3>1 DEF RowStep
    <2>2. CASE k \notin ids
      BY <1>14, <2>2 DEF RowStep
    <2> QED  BY <2>1, <2>2
  <1>17. NoRowsOfDeleted(rows', payment')
    <2>1. SUFFICES ASSUME NEW k \in RowIds, rows'[k].state = "live"
                   PROVE  rows'[k].pay \in Payments /\ ~payment'[rows'[k].pay].deleted
      BY DEF NoRowsOfDeleted
    <2>2. CASE rows'[k].pay = p
      BY <1>4, <1>8, <1>10, <2>2
    <2>3. CASE rows'[k].pay # p
      <3>1. rows'[k] = rows[k]
        BY <1>13, <1>14, <2>3
      <3>2. rows[k].pay \in Payments \ {p} /\ ~payment[rows[k].pay].deleted
        BY <1>3, <2>1, <2>3, <3>1 DEF NoRowsOfDeleted
      <3> QED  BY <1>10, <3>1, <3>2
    <2> QED  BY <2>2, <2>3
  <1>18. \A s \in Requests \ {r} : Holds(req[s]) =>
           /\ payment'[req[s].pay].deleted = payment[req[s].pay].deleted
           /\ payment'[req[s].pay].client = payment[req[s].pay].client
    BY <1>1, <1>4, <1>10, OthersPayments
  <1>19. revived \subseteq revived'
    BY <1>12
  <1> QED  BY <1>2, <1>10, <1>15, <1>16, <1>17, <1>18, <1>19, CommitDone

----------------------------------------------------------------------------
(* The invariant and what follows from it *)

(* Nothing is locked and nothing allocated at the start. *)
LEMMA InitIInv == Init => IInv
  <1> SUFFICES ASSUME Init PROVE IInv
    OBVIOUS
  <1>1. PICK l : l = Idle
    OBVIOUS
  <1>2. LocalShape(l) /\ l.held = {} /\ l.pc = "idle"
    BY <1>1, IdleFree
  <1>3. req = [r \in Requests |-> l] /\ revived = {}
    BY <1>1 DEF Init
  <1>4. LocalOK(l, rows, payment, revived)
    BY <1>2, FreeLocal
  <1>5. Apart(l, l)
    BY <1>2 DEF Apart, Holds
  <1>6. PICK u : u = Unused
    OBVIOUS
  <1>7. u = [state |-> u.state, pay |-> u.pay, inv |-> u.inv, amt |-> u.amt]
        /\ u.state = "unused"
    BY <1>6 DEF Unused
  <1>8. rows = [k \in RowIds |-> u]
    BY <1>6 DEF Init
  <1>9. RowsShape(rows) /\ NoRowsOfDeleted(rows, payment)
    BY <1>7, <1>8 DEF RowsShape, NoRowsOfDeleted
  <1>10. PaymentsShape(payment)
    <2>1. payment = [p \in Payments |-> [deleted |-> FALSE, completed |-> TRUE,
                                         amount |-> Paid[p], client |-> Payer[p]]]
      BY DEF Init
    <2>2. ASSUME NEW p \in Payments
          PROVE  /\ payment[p] = [deleted |-> payment[p].deleted,
                                  completed |-> payment[p].completed,
                                  amount |-> payment[p].amount,
                                  client |-> payment[p].client]
                 /\ payment[p].deleted \in BOOLEAN
      <3>1. PICK x, a, c : x = payment[p] /\ a = Paid[p] /\ c = Payer[p]
        OBVIOUS
      <3>2. x = [deleted |-> FALSE, completed |-> TRUE, amount |-> a, client |-> c]
        BY <2>1, <3>1
      <3>3. /\ x = [deleted |-> x.deleted, completed |-> x.completed,
                    amount |-> x.amount, client |-> x.client]
            /\ x.deleted \in BOOLEAN
        BY <3>2
      <3> QED  BY <3>1, <3>3
    <2> QED  BY <2>1, <2>2 DEF PaymentsShape
  <1>11. \A r \in Requests : req[r] = l
    BY <1>3
  <1> QED  BY <1>3, <1>4, <1>5, <1>9, <1>10, <1>11 DEF IInv

(* Every step of every request keeps it. *)
LEMMA NextIInv == IInv /\ [Next]_vars => IInv'
  <1> SUFFICES ASSUME IInv, [Next]_vars PROVE IInv'
    OBVIOUS
  <1>1. CASE UNCHANGED vars
    <2>1. rows' = rows /\ payment' = payment /\ revived' = revived /\ req' = req
      BY <1>1 DEF vars
    <2> QED  BY <2>1 DEF IInv
  <1>2. ASSUME NEW r \in Requests,
               \/ Begin(r) \/ LockNext(r) \/ ReadSnapshot(r) \/ Commit(r)
               \/ RefreshRead(r) \/ RefreshWrite(r)
               \/ Settle(r) \/ Abandon(r)
        PROVE  IInv'
    <2>1. CASE Begin(r)
      BY <2>1, BeginKeeps
    <2>2. CASE LockNext(r)
      BY <2>2, LockNextKeeps
    <2>3. CASE ReadSnapshot(r)
      BY <2>3, ReadSnapshotKeeps
    <2>4. CASE Commit(r)
      BY <2>4, CommitAllocateKeeps, CommitAutoKeeps, CommitReallocateKeeps,
         CommitUnapplyKeeps, CommitReassignKeeps, CommitUpdateKeeps,
         CommitDeleteKeeps, CommitRestoreKeeps DEF Commit
    <2>5. CASE RefreshRead(r) \/ RefreshWrite(r) \/ Abandon(r)
      BY <2>5, AfterwardsKeeps
    <2>6. CASE Settle(r)
      BY <2>6, AfterwardsKeeps, ReleaseKeeps DEF Settle
    <2> QED  BY <1>2, <2>1, <2>2, <2>3, <2>4, <2>5, <2>6
  <1> QED  BY <1>1, <1>2 DEF Next

(* The invariant gives the two halves of DAL-04 and more. *)
LEMMA IInvGives ==
    IInv => SnapshotCoversPayment /\ SnapshotCoversInvoices
  BY DEF IInv, LocalOK, CoversPayment, CoversInvoices,
         SnapshotCoversPayment, SnapshotCoversInvoices

(* IInv holds throughout. *)
LEMMA Invariance == Spec => []IInv
  BY InitIInv, NextIInv, PTL DEF Spec

(* DAL-04 for the payment: for any number of payments, invoices, clients   *)
(* and requests, a transaction that has locked its payment (allocate,      *)
(* allocate-auto, reallocate, update, delete, restore) misses none of the  *)
(* payment's live allocations in what it sums, although unapply, reassign  *)
(* and the release of a terminal invoice take no lock on it.               *)
THEOREM PaymentSnapshotTheorem == Spec => []SnapshotCoversPayment
  BY Invariance, IInvGives, PTL

(* DAL-04 for the invoices: nor does it miss one on an invoice that        *)
(* lockInvoicesForAllocation locked, unless a restore put it there.        *)
THEOREM InvoiceSnapshotTheorem == Spec => []SnapshotCoversInvoices
  BY Invariance, IInvGives, PTL

(* A deleted payment settles nothing: destroy() soft-deletes every live    *)
(* allocation of the payment, and no allocation path running beside it     *)
(* leaves one behind.                                                      *)
THEOREM NoMoneyOfDeletedPayments ==
    Spec => [](\A k \in RowIds : rows[k].state = "live" =>
                   ~payment[rows[k].pay].deleted)
  <1>1. IInv => \A k \in RowIds : rows[k].state = "live" => ~payment[rows[k].pay].deleted
    BY DEF IInv, NoRowsOfDeleted
  <1> QED  BY <1>1, Invariance, PTL

=============================================================================
