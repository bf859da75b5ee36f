------------------------- MODULE PaymentViewProofs -------------------------
(***************************************************************************)
(* A route judges by the snapshot its transaction carries and by the rows  *)
(* it wrote itself.  That view is good enough: the status of an invoice    *)
(* follows what its allocations cover, and the guard triggers refuse       *)
(* nothing that the route's checks let through.  The third part of the     *)
(* proofs about PaymentAllocation, after the locks                         *)
(* (PaymentAllocationProofs) and the sums (PaymentSumsProofs).             *)
(***************************************************************************)
EXTENDS PaymentSumsProofs

(* A snapshot shows no invoice over-collected, where no row is negative.   *)
SnapshotSound(l, rv) ==
    l.pc = "read" =>
        \A i \in Invoices \ rv :
            PlainOn(l.snap.rows, i) => AllocatedTo(l.snap.rows, i) <= Total[i]

StatusInv == \A r \in Requests : SnapshotSound(req[r], revived)

----------------------------------------------------------------------------
(* Cover *)

(* More of the same rows: the cover is kept.                               *)
LEMMA CoverMonotone ==
    ASSUME NEW rs \in [RowIds -> Row], NEW qs \in [RowIds -> Row], NEW i \in Invoices,
           PlainOn(rs, i), PlainOn(qs, i),
           \A k \in LiveOnInvoice(rs, i) : rs[k].amt # 0 => qs[k] = rs[k],
           Covered(rs, i)
    PROVE  Covered(qs, i)
  <1>1. Plain(rs, LiveOnInvoice(rs, i)) /\ Plain(qs, LiveOnInvoice(qs, i))
    BY PlainKept, KeptSame
  <1>2. \A k \in LiveOnInvoice(rs, i) : rs[k].amt # 0 =>
            k \in LiveOnInvoice(qs, i) /\ rs[k].amt = qs[k].amt
    BY DEF LiveOnInvoice
  <1>3. SumOf(rs, LiveOnInvoice(rs, i)) <= SumOf(qs, LiveOnInvoice(qs, i))
    BY <1>1, <1>2, LiveRowIds, RowsMonotone
  <1>4. AllocatedTo(rs, i) <= AllocatedTo(qs, i)
    BY <1>3 DEF AllocatedTo
  <1>5. /\ AllocatedTo(rs, i) \in Int /\ AllocatedTo(qs, i) \in Int
        /\ Total[i] \in Int
    BY AllocatedTyped, PaymentAssumption
  <1> QED  BY <1>4, <1>5 DEF Covered

(* A row of something less: the sum is less.                               *)
LEMMA RowsFewer ==
    ASSUME NEW rs \in [RowIds -> Row], NEW qs \in [RowIds -> Row], NEW i,
           PlainOn(rs, i), PlainOn(qs, i),
           NEW x \in LiveOnInvoice(qs, i), qs[x].amt # 0, rs[x].state # "live",
           \A k \in LiveOnInvoice(rs, i) : qs[k] = rs[k]
    PROVE  AllocatedTo(rs, i) < AllocatedTo(qs, i)
  <1>1. PICK S, T : S = LiveOnInvoice(qs, i) \ {x} /\ T = LiveOnInvoice(rs, i)
    OBVIOUS
  <1>2. /\ S \in SUBSET RowIds /\ T \in SUBSET RowIds /\ {x} \in SUBSET RowIds
        /\ x \in RowIds /\ S \cap {x} = {}
        /\ LiveOnInvoice(qs, i) = S \cup {x} /\ T \subseteq S
    BY <1>1 DEF LiveOnInvoice
  <1>3. Plain(rs, T) /\ Plain(qs, S \cup {x})
    <2>1. Plain(rs, LiveOnInvoice(rs, i)) /\ Plain(qs, LiveOnInvoice(qs, i))
      BY PlainKept, KeptSame
    <2> QED  BY <1>1, <1>2, <2>1
  <1>4. Plain(qs, S) /\ qs[x].amt \in Nat \ {0} /\ Counted(qs, S \cup {x})
    BY <1>3 DEF Plain, Counted
  <1>5. SumOf(rs, T) <= SumOf(qs, S)
    <2>1. \A k \in T : k \in S /\ rs[k].amt = qs[k].amt
      BY <1>1, <1>2
    <2> QED  BY <1>2, <1>3, <1>4, <2>1, RowsMonotone
  <1>6. SumOf(qs, S \cup {x}) = SumOf(qs, S) + SumOf(qs, {x})
    BY <1>2, <1>4, RowsInParts
  <1>7. SumOf(qs, {x}) = qs[x].amt
    BY <1>2, <1>4, OneRow
  <1>8. SumOf(rs, T) \in Nat /\ SumOf(qs, S) \in Nat
    BY <1>2, <1>3, <1>4, PlainSums
  <1>9. SumOf(rs, T) < SumOf(qs, S \cup {x})
    BY <1>4, <1>5, <1>6, <1>7, <1>8
  <1> QED  BY <1>1, <1>2, <1>9 DEF AllocatedTo

(* What it takes for the cover of i to change: a row of something that     *)
(* came, or went.                                                          *)
Came(i) == \E k \in RowIds : /\ rows'[k].state = "live" /\ rows'[k].inv = i
                             /\ rows'[k] # rows[k]
Went(i) == \E k \in RowIds : /\ rows[k].state = "live" /\ rows[k].inv = i
                             /\ rows[k].amt # 0 /\ rows'[k] # rows[k]

LEMMA RowsPlain ==
    ASSUME IInv, TypeInv, TypeInv', NEW r \in Requests, StepOf(r), NEW i, PlainOn(rows', i)
    PROVE  /\ rows \in [RowIds -> Row] /\ rows' \in [RowIds -> Row]
           /\ PlainOn(rows, i)
  <1>1. rows \in [RowIds -> Row] /\ rows' \in [RowIds -> Row]
    BY DEF TypeInv, DatabaseTyped
  <1> QED  BY <1>1, RowsKept, PlainKept

LEMMA CoverGained ==
    ASSUME IInv, TypeInv, TypeInv', NEW r \in Requests, StepOf(r),
           NEW i \in Invoices, PlainOn(rows', i), Covered(rows', i), ~Covered(rows, i)
    PROVE  Came(i)
  <1>1. PICK qs : qs = rows'
    OBVIOUS
  <1>2. /\ qs \in [RowIds -> Row] /\ rows \in [RowIds -> Row]
        /\ PlainOn(qs, i) /\ PlainOn(rows, i)
    BY <1>1, RowsPlain
  <1>3. SUFFICES ASSUME ~Came(i) PROVE FALSE
    OBVIOUS
  <1>4. \A k \in LiveOnInvoice(qs, i) : rows[k] = qs[k]
    BY <1>1, <1>3 DEF Came, LiveOnInvoice
  <1> QED  BY <1>1, <1>2, <1>4, CoverMonotone

LEMMA CoverLost ==
    ASSUME IInv, TypeInv, TypeInv', NEW r \in Requests, StepOf(r),
           NEW i \in Invoices, PlainOn(rows', i), ~Covered(rows', i), Covered(rows, i)
    PROVE  Went(i)
  <1>1. PICK qs : qs = rows'
    OBVIOUS
  <1>2. /\ qs \in [RowIds -> Row] /\ rows \in [RowIds -> Row]
        /\ PlainOn(qs, i) /\ PlainOn(rows, i)
    BY <1>1, RowsPlain
  <1>3. SUFFICES ASSUME ~Went(i) PROVE FALSE
    OBVIOUS
  <1>4. \A k \in LiveOnInvoice(rows, i) : rows[k].amt # 0 => qs[k] = rows[k]
    BY <1>1, <1>3 DEF Went, LiveOnInvoice
  <1> QED  BY <1>1, <1>2, <1>4, CoverMonotone


LEMMA StatusInvKept ==
    ASSUME IInv, TypeInv, InvoiceNotOvercollected, StatusInv,
           NEW r \in Requests, StepOf(r)
    PROVE  StatusInv'
  <1>1. PICK l : req' = [req EXCEPT ![r] = l] /\ Reads(l)
    BY ReadsOn DEF ReaderMoved
  <1>2. SnapshotSound(l, revived')
    <2> SUFFICES ASSUME l.pc = "read", NEW i \in Invoices \ revived', PlainOn(l.snap.rows, i)
                 PROVE  AllocatedTo(l.snap.rows, i) <= Total[i]
      BY DEF SnapshotSound
    <2>1. revived' = revived /\ l.snap \in {Snapshot, NoSnap}
      BY <1>1 DEF Reads
    <2>2. CASE l.snap = Snapshot
      <3>1. l.snap.rows = rows
        BY <2>2 DEF Snapshot
      <3> QED  BY <2>1, <3>1, NeverNegativeIs DEF InvoiceNotOvercollected
    <2>3. CASE l.snap = NoSnap
      <3>1. PICK rs : rs = l.snap.rows
        OBVIOUS
      <3>2. \A k \in RowIds : rs[k].state = "unused"
        BY <2>3, <3>1, AnyTyped DEF NoSnap
      <3>3. LiveOnInvoice(rs, i) = {}
        BY <3>2 DEF LiveOnInvoice
      <3>4. AllocatedTo(rs, i) = 0
        BY <3>3, NoRows DEF AllocatedTo
      <3>5. Total[i] \in Nat
        BY PaymentAssumption
      <3> QED  BY <3>1, <3>4, <3>5
    <2> QED  BY <2>1, <2>2, <2>3
  <1>3. ASSUME NEW s \in Requests \ {r}
        PROVE  SnapshotSound(req[s], revived')
    <2>1. SnapshotSound(req[s], revived)
      BY DEF StatusInv
    <2> QED  BY <2>1, RevivedGrows DEF SnapshotSound
  <1>4. \A s \in Requests : req'[s] = IF s = r THEN l ELSE req[s]
    BY <1>1 DEF IInv
  <1> QED  BY <1>2, <1>3, <1>4 DEF StatusInv

----------------------------------------------------------------------------
(* The step that changes the cover of an invoice *)

(* What StatusFollowsCover asks of a step of r.                            *)
Follows(r, i) ==
    \/ (invoice'[i] = "paid") = Covered(rows', i)
    \/ RefreshAhead(r, i)'
    \/ Emptying(r, i)

Gains(i) == Covered(rows', i) /\ ~Covered(rows, i)
Loses(i) == ~Covered(rows', i) /\ Covered(rows, i)

(* applyAllocation: the view of the snapshot and of the new rows misses no *)
(* live row of an invoice it holds, so it shows the invoice covered too.   *)
LEMMA ApplyFollows ==
    ASSUME IInv, TypeInv, TypeInv', SnapsKept, NEW r \in Requests, StepOf(r),
           req[r].op \in Inserting, req[r].pc = "read", revived' = revived,
           NEW plan, DOMAIN plan \subseteq req[r].held, Apply(r, plan),
           NEW i \in Invoices \ revived', PlainOn(rows', i), Gains(i) \/ Loses(i)
    PROVE  Follows(r, i)
  <1>1. PICK at \in Placements(plan) :
          /\ rows' = Inserted(req[r].pay, plan, at)
          /\ invoice' = Finalized(plan, View(req[r].snap, rows', NewIds(plan)))
    BY DEF Apply
  <1>2. PICK ids, view : ids = NewIds(plan) /\ view = View(req[r].snap, rows', ids)
    OBVIOUS
  <1>3. \A k \in RowIds : view[k] = IF k \in ids THEN rows'[k] ELSE req[r].snap.rows[k]
    BY <1>2 DEF View
  <1>4. ASSUME NEW k \in RowIds
        PROVE  /\ k \in ids => rows[k].state = "unused" /\ rows'[k].inv \in DOMAIN plan
               /\ k \notin ids => rows'[k] = rows[k]
    BY <1>1, <1>2, InsertedRows, NewIdsUnused
  <1>5. Gains(i)
    <2>1. ~Went(i)
      BY <1>4 DEF Went
    <2> QED  BY <2>1, CoverLost DEF Gains, Loses
  <1>6. i \in DOMAIN plan
    BY <1>4, <1>5, CoverGained DEF Gains, Came
  <1>7. ASSUME NEW k \in LiveOnInvoice(rows', i)
        PROVE  view[k] = rows'[k]
    <2>1. k \in RowIds /\ rows'[k].state = "live" /\ rows'[k].inv = i
      BY DEF LiveOnInvoice
    <2>2. CASE k \notin ids
      <3>1. rows'[k] = rows[k] /\ view[k] = req[r].snap.rows[k]
        BY <1>3, <1>4, <2>1, <2>2
      <3>2. req[r].snap.rows[k] = rows[k]
        BY <1>6, <2>1, <3>1 DEF IInv, LocalOK, CoversInvoices
      <3> QED  BY <3>1, <3>2
    <2> QED  BY <1>3, <2>1, <2>2
  <1>8. Covered(view, i)
    <2>1. PICK qs : qs = rows'
      OBVIOUS
    <2>2. qs \in [RowIds -> Row]
      BY <2>1, RowsPlain
    <2>3. view \in [RowIds -> Row] /\ Kept(view, qs)
      BY <1>2, <2>1, ViewKept
    <2>4. PlainOn(qs, i) /\ PlainOn(view, i)
      BY <2>1, <2>3, PlainKept
    <2> QED  BY <1>5, <1>7, <2>1, <2>2, <2>3, <2>4, CoverMonotone DEF Gains
  <1>9. invoice'[i] = "paid"
    BY <1>1, <1>2, <1>6, <1>8 DEF Finalized
  <1> QED  BY <1>5, <1>9 DEF Follows, Gains

LEMMA AllocateFollows ==
    ASSUME IInv, TypeInv, TypeInv', SnapsKept, NEW r \in Requests, StepOf(r),
           CommitAllocate(r) \/ CommitAuto(r),
           NEW i \in Invoices \ revived', PlainOn(rows', i), Gains(i) \/ Loses(i)
    PROVE  Follows(r, i)
  <1>1. CASE CommitAllocate(r)
    <2>1. PICK plan : plan = [x \in {req[r].inv} |-> req[r].amt]
      OBVIOUS
    <2>2. /\ Apply(r, plan) /\ req[r].op = "allocate" /\ req[r].pc = "read"
          /\ revived' = revived
      BY <1>1, <2>1 DEF CommitAllocate
    <2>3. NeededBy(req[r], payment) \subseteq req[r].held
      BY <2>2, AllocatorHolds DEF Inserting
    <2>4. DOMAIN plan \subseteq req[r].held
      BY <2>1, <2>2, <2>3 DEF NeededBy
    <2> QED  BY <2>2, <2>4, ApplyFollows DEF Inserting
  <1>2. CASE CommitAuto(r)
    <2>1. req[r].op = "auto" /\ req[r].pc = "read" /\ revived' = revived
      BY <1>2 DEF CommitAuto
    <2>2. PICK chosen \in SUBSET {j \in Invoices : /\ invoice[j] = "issued"
                                                   /\ Billed[j] = payment[req[r].pay].client} :
            Apply(r, Waterfall(r, chosen))
      BY <1>2 DEF CommitAuto
    <2>3. NeededBy(req[r], payment) \subseteq req[r].held
      BY <2>1, AllocatorHolds DEF Inserting
    <2>4. chosen \subseteq req[r].held
      BY <2>1, <2>2, <2>3 DEF NeededBy
    <2>5. PICK plan : plan = Waterfall(r, chosen)
      OBVIOUS
    <2>6. DOMAIN plan \subseteq req[r].held /\ Apply(r, plan)
      BY <2>2, <2>4, <2>5, WaterfallDomain
    <2> QED  BY <2>1, <2>6, ApplyFollows DEF Inserting
  <1> QED  BY <1>1, <1>2

(* What the snapshot shows on an invoice is still on that invoice.         *)
LEMMA ShownOn ==
    ASSUME SnapsKept, NEW r \in Requests, req[r].pc = "read",
           NEW p, NEW i, NEW k \in RowOf(req[r].snap, p, i)
    PROVE  k \in RowIds /\ rows[k].inv = i
  <1>1. k \in RowIds /\ req[r].snap.rows[k].state = "live" /\ req[r].snap.rows[k].inv = i
    BY DEF RowOf, LiveOfPayment, LiveOnInvoice
  <1> QED  BY <1>1 DEF SnapsKept, Kept

(* reallocate and unapply: the invoices they touch are refreshed next.     *)
LEMMA MoveFollows ==
    ASSUME IInv, TypeInv, TypeInv', SnapsKept, NEW r \in Requests, StepOf(r),
           CommitReallocate(r) \/ CommitUnapply(r),
           NEW i \in Invoices, PlainOn(rows', i), Gains(i) \/ Loses(i)
    PROVE  Follows(r, i)
  <1>0. req[r] \in Locals /\ req[r].pc = "read"
    BY DEF TypeInv, CommitReallocate, CommitUnapply
  <1>1. /\ req'[r].pc = "refresh"
        /\ req'[r].inv = req[r].inv /\ req'[r].to = req[r].to
    <2>1. PICK l : /\ req' = [req EXCEPT ![r] = l]
                   /\ \/ l = [req[r] EXCEPT !.pc = "refresh", !.flag = FALSE,
                                              !.held = {}, !.snap = NoSnap]
                      \/ l = [req[r] EXCEPT !.pc = "refresh", !.snap = NoSnap]
      BY DEF CommitReallocate, CommitUnapply, Continue
    <2>2. l.pc = "refresh" /\ l.inv = req[r].inv /\ l.to = req[r].to
      BY <1>0, <2>1 DEF Locals
    <2>3. req'[r] = l
      BY <2>1 DEF IInv
    <2> QED  BY <2>2, <2>3
  <1>2. \A k \in RowIds :
          \/ rows'[k] = rows[k]
          \/ Put(k, {req[r].to})
          \/ rows[k].inv = req[r].inv /\ Dropped(k)
    BY <1>0, ReallocateRows, UnapplyDrops, ShownOn
  <1>3. \A k \in RowIds : Dropped(k) => rows'[k].state = "deleted"
    BY RowFields
  <1>4. i \in {req[r].inv, req[r].to}
    <2>1. CASE Gains(i)
      <3>1. PICK k \in RowIds : rows'[k].state = "live" /\ rows'[k].inv = i /\ rows'[k] # rows[k]
        BY <2>1, CoverGained DEF Gains, Came
      <3>2. ~Dropped(k)
        BY <1>3, <3>1
      <3> QED  BY <1>2, <3>1, <3>2 DEF Put
    <2>2. CASE Loses(i)
      <3>1. PICK k \in RowIds : rows[k].state = "live" /\ rows[k].inv = i /\ rows'[k] # rows[k]
        BY <2>2, CoverLost DEF Loses, Went
      <3> QED  BY <1>2, <3>1 DEF Put
    <2> QED  BY <2>1, <2>2
  <1>5. RefreshAhead(r, i)'
    BY <1>1, <1>4 DEF RefreshAhead
  <1> QED  BY <1>5 DEF Follows

(* releaseInvoiceAllocations empties one invoice only.                     *)
LEMMA ReleaseFollows ==
    ASSUME IInv, TypeInv, TypeInv', NEW r \in Requests, StepOf(r), Release(r),
           NEW i \in Invoices, PlainOn(rows', i), Gains(i) \/ Loses(i)
    PROVE  Follows(r, i)
  <1>1. \A k \in RowIds :
          \/ rows'[k] = rows[k]
          \/ rows[k].inv = req[r].inv /\ rows'[k].state = "deleted"
    BY ReleaseDrops, RowFields
  <1>2. ~Came(i)
    BY <1>1 DEF Came
  <1>3. PICK k \in RowIds : rows[k].state = "live" /\ rows[k].inv = i /\ rows'[k] # rows[k]
    BY <1>2, CoverGained, CoverLost DEF Gains, Loses, Went
  <1>4. req[r].inv = i
    BY <1>1, <1>3
  <1> QED  BY <1>4 DEF Release, Emptying, Follows

(* A restore counts every invoice it puts money back on as revived.        *)
LEMMA RestoreFollows ==
    ASSUME IInv, TypeInv, TypeInv', NEW r \in Requests, StepOf(r), CommitRestore(r),
           NEW i \in Invoices \ revived', PlainOn(rows', i)
    PROVE  ~Gains(i) /\ ~Loses(i)
  <1>1. \A k \in RowIds :
          \/ rows'[k] = rows[k]
          \/ rows'[k].inv \in revived' /\ rows[k].state = "deleted"
    <2>1. ASSUME NEW k \in RowIds, rows'[k] # rows[k]
          PROVE  rows'[k].inv \in revived' /\ rows[k].state = "deleted"
      <3>1. rows[k].inv \in revived' /\ Back(k)
        BY <2>1, RestoreBrings
      <3>2. rows'[k].inv = rows[k].inv
        BY <3>1, RowFields
      <3> QED  BY <3>1, <3>2 DEF Back
    <2> QED  BY <2>1
  <1>2. ~Came(i)
    BY <1>1 DEF Came
  <1>3. ~Went(i)
    BY <1>1 DEF Went
  <1> QED  BY <1>2, <1>3, CoverGained, CoverLost DEF Gains, Loses

(* A delete takes amounts away that its snapshot shows, from invoices      *)
(* whose snapshot collects no more than their total: what is left of them  *)
(* in its view does not cover them.                                        *)
LEMMA DeleteFollows ==
    ASSUME IInv, TypeInv, TypeInv', SnapsKept, StatusInv, NEW r \in Requests, StepOf(r),
           CommitDelete(r), NEW i \in Invoices \ revived', PlainOn(rows', i), Gains(i) \/ Loses(i)
    PROVE  Follows(r, i)
  <1>0. /\ req[r].pc = "read" /\ req[r].op = "delete" /\ revived' = revived
        /\ req[r].snap.rows \in [RowIds -> Row] /\ rows \in [RowIds -> Row]
    BY DEF CommitDelete, TypeInv, DatabaseTyped, Locals, Snapshots
  <1>1. \A k \in RowIds :
          \/ rows'[k] = rows[k]
          \/ rows[k].pay = req[r].pay /\ rows'[k].state = "deleted"
    BY DeleteDrops, RowFields
  <1>2. ~Came(i)
    BY <1>1 DEF Came
  <1>3. Loses(i)
    BY <1>2, CoverGained DEF Gains
  <1>4. PICK x \in RowIds : /\ rows[x].state = "live" /\ rows[x].inv = i
                           /\ rows[x].amt # 0 /\ rows'[x] # rows[x]
    BY <1>3, CoverLost DEF Loses, Went
  <1>5. req[r].snap.rows[x] = rows[x] /\ rows[x].pay = req[r].pay
    <2>1. rows[x].pay = req[r].pay
      BY <1>1, <1>4
    <2> QED  BY <1>0, <1>4, <2>1 DEF IInv, LocalOK, CoversPayment, LocksPayment
  <1>6. PICK seen, ids, qs, view :
          /\ seen = LiveOfPayment(req[r].snap.rows, req[r].pay)
          /\ ids = IF seen = {} THEN {} ELSE LiveOfPayment(rows, req[r].pay)
          /\ qs = SoftDeleted(rows, ids)
          /\ view = View(req[r].snap, qs, ids)
    OBVIOUS
  <1>7. rows' = qs /\ RefreshTouched(r, {req[r].snap.rows[k].inv : k \in seen}, view)
    BY <1>6 DEF CommitDelete
  <1>8. x \in seen /\ ids = LiveOfPayment(rows, req[r].pay)
    BY <1>4, <1>5, <1>6 DEF LiveOfPayment
  <1>9. invoice'[i] = RefreshedStatus(invoice[i], Covered(view, i))
    BY <1>4, <1>5, <1>7, <1>8 DEF RefreshTouched
  <1>10. \A k \in RowIds : /\ k \in ids => view[k].state = "deleted"
                           /\ k \notin ids => view[k] = req[r].snap.rows[k]
    <2>1. ASSUME NEW k \in RowIds, k \in ids
          PROVE  view[k].state = "deleted"
      <3>1. view[k] = [rows[k] EXCEPT !.state = "deleted"]
        BY <1>6, <2>1 DEF View, SoftDeleted
      <3> QED  BY <1>0, <3>1 DEF Row
    <2> QED  BY <1>6, <2>1 DEF View
  <1>11. ~Covered(view, i)
    <2>1. x \in ids /\ x \in LiveOnInvoice(req[r].snap.rows, i)
      BY <1>4, <1>5, <1>8 DEF LiveOfPayment, LiveOnInvoice
    <2>2. req[r].snap.rows[x].amt # 0 /\ view[x].state # "live"
      BY <1>4, <1>5, <1>10, <2>1
    <2>3. \A k \in LiveOnInvoice(view, i) : req[r].snap.rows[k] = view[k]
      BY <1>10 DEF LiveOnInvoice
    <2>4. view \in [RowIds -> Row] /\ Kept(view, rows')
      BY <1>0, <1>6, <1>7, ViewKept
    <2>5. Kept(req[r].snap.rows, rows')
      BY <1>0, RowsKept DEF SnapsKept, Kept
    <2>6. PlainOn(view, i) /\ PlainOn(req[r].snap.rows, i)
      BY <1>0, <2>4, <2>5, PlainKept
    <2>7. AllocatedTo(view, i) < AllocatedTo(req[r].snap.rows, i)
      BY <1>0, <2>1, <2>2, <2>3, <2>4, <2>6, RowsFewer
    <2>8. AllocatedTo(req[r].snap.rows, i) <= Total[i]
      BY <1>0, <2>6 DEF StatusInv, SnapshotSound
    <2>9. /\ AllocatedTo(view, i) \in Int /\ AllocatedTo(req[r].snap.rows, i) \in Int
          /\ Total[i] \in Int
      BY <1>0, <2>4, AllocatedTyped, PaymentAssumption
    <2> QED  BY <2>7, <2>8, <2>9 DEF Covered
  <1>12. invoice'[i] # "paid"
    BY <1>9, <1>11 DEF RefreshedStatus
  <1> QED  BY <1>3, <1>12 DEF Follows, Loses, Covered

LEMMA StepFollows ==
    ASSUME IInv, TypeInv, TypeInv', SnapsKept, StatusInv, NEW r \in Requests, StepOf(r),
           NEW i \in Invoices \ revived', PlainOn(rows', i), Covered(rows', i) # Covered(rows, i)
    PROVE  Follows(r, i)
  <1>1. Gains(i) \/ Loses(i)
    BY DEF Gains, Loses, Covered
  <1>2. rows' # rows
    <2>1. PICK qs : qs = rows'
      OBVIOUS
    <2> QED  BY <2>1
  <1>3. \/ CommitAllocate(r) \/ CommitAuto(r) \/ CommitReallocate(r) \/ CommitUnapply(r)
        \/ CommitDelete(r) \/ CommitRestore(r) \/ Release(r)
    BY <1>2, RowsStay DEF StepOf, Commit, Settle
  <1> QED  BY <1>1, <1>3, AllocateFollows, MoveFollows, ReleaseFollows, RestoreFollows, DeleteFollows

----------------------------------------------------------------------------
(* The inductive invariant of the status: what snapshots say stays true.   *)
LEMMA StatusInvariance == Spec => []StatusInv
  <1>1. Init => StatusInv
    <2> SUFFICES ASSUME Init, NEW r \in Requests PROVE SnapshotSound(req[r], revived)
      BY DEF StatusInv
    <2>1. PICK l : l = Idle
      OBVIOUS
    <2>2. l.pc = "idle" /\ req[r] = l
      BY <2>1 DEF Idle, Init
    <2> QED  BY <2>2 DEF SnapshotSound
  <1>2. IInv /\ TypeInv /\ InvoiceNotOvercollected /\ StatusInv /\ [Next]_vars => StatusInv'
    <2> SUFFICES ASSUME IInv, TypeInv, InvoiceNotOvercollected, StatusInv, [Next]_vars
                 PROVE  StatusInv'
      OBVIOUS
    <2>1. CASE UNCHANGED vars
      <3>1. PICK rv, rq : rv = revived' /\ rq = req'
        OBVIOUS
      <3>2. rv = revived /\ rq = req
        BY <2>1, <3>1 DEF vars
      <3> QED  BY <3>1, <3>2 DEF StatusInv
    <2>2. ASSUME NEW r \in Requests, StepOf(r) PROVE StatusInv'
      BY <2>2, StatusInvKept
    <2> QED  BY <2>1, <2>2 DEF Next, StepOf
  <1> QED  BY <1>1, <1>2, Invariance, TypesHold, InvoiceTheorem, PTL DEF Spec

(* finalizeIfFullyPaid and refreshInvoicePaidStatus: the step that makes   *)
(* the live allocations of an invoice reach its total or fall below it     *)
(* leaves its status right, or its request refreshes or empties the        *)
(* invoice next, although each judges by a snapshot.  Only on an invoice   *)
(* that was reallocated a negative amount may it not.                      *)
THEOREM StatusTheorem == Spec => StatusFollowsCover
  <1>1. ASSUME IInv, TypeInv, TypeInv', SnapsKept, StatusInv, NEW r \in Requests, StepOf(r),
               NEW i \in Invoices \ revived', NeverNegative(UsedOn(i))',
               Covered(rows', i) # Covered(rows, i)
        PROVE  Follows(r, i)
    <2>1. PlainOn(rows', i)
      BY <1>1 DEF NeverNegative, UsedOn, PlainOn
    <2> QED  BY <1>1, <2>1, StepFollows
  <1>2. IInv /\ TypeInv /\ TypeInv' /\ SnapsKept /\ StatusInv /\ [Next]_vars
          => [\A i \in Invoices \ revived' :
                NeverNegative(UsedOn(i))' /\ Covered(rows', i) # Covered(rows, i) =>
                   \/ (invoice'[i] = "paid") = Covered(rows', i)
                   \/ \E r \in Requests : RefreshAhead(r, i)' \/ Emptying(r, i)]_rows
    BY <1>1 DEF Next, StepOf, Follows, vars
  <1> QED  BY <1>2, Invariance, TypesHold, SnapsKeptHolds, StatusInvariance, PTL
           DEF Spec, StatusFollowsCover

----------------------------------------------------------------------------
(* The guard triggers *)

(* The new rows of a plan share its amounts out, each at most once.        *)
LEMMA PlacedSum ==
    ASSUME NEW plan, DOMAIN plan \subseteq Invoices, \A i \in DOMAIN plan : plan[i] \in Nat,
           NEW at \in Placements(plan),
           NEW rs, \A k \in NewIds(plan) : rs[k].amt = plan[at[k]]
    PROVE  /\ Plain(rs, NewIds(plan))
           /\ SumOf(rs, NewIds(plan)) <= SumOver(plan)
  <1>1. PICK ids, f : ids = NewIds(plan) /\ f = [k \in ids |-> rs[k].amt]
    OBVIOUS
  <1>2. /\ DOMAIN f = ids /\ ids \subseteq Nat
        /\ \A k \in ids : at[k] \in DOMAIN plan /\ f[k] = plan[at[k]] /\ f[k] \in Nat
        /\ \A k, l \in ids : k < l => at[k] < at[l]
    BY <1>1, NewIdsUnused, RowIdsFinite DEF Placements
  <1>3. \A k, l \in ids : at[k] = at[l] => k = l
    <2>1. \A k \in ids : at[k] \in Nat /\ k \in Nat
      BY <1>2, PaymentAssumption
    <2> QED  BY <1>2, <2>1
  <1> DEFINE place == [c \in Cents(f) |-> <<at[c[1]], c[2]>>]
  <1>4. ASSUME NEW c \in Cents(f)
        PROVE  c = <<c[1], c[2]>> /\ c[1] \in ids /\ c[2] \in 1..plan[at[c[1]]]
    BY <1>2 DEF Cents
  <1>5. ASSUME NEW c \in Cents(f)
        PROVE  <<at[c[1]], c[2]>> \in Cents(plan)
    BY <1>2, <1>4 DEF Cents
  <1>6. ASSUME NEW c \in Cents(f), NEW d \in Cents(f),
               <<at[c[1]], c[2]>> = <<at[d[1]], d[2]>>
        PROVE  c = d
    <2>1. c[1] = d[1] /\ c[2] = d[2]
      BY <1>3, <1>4, <1>6
    <2>2. c = <<c[1], c[2]>> /\ d = <<d[1], d[2]>>
      BY <1>4
    <2> QED  BY <2>1, <2>2
  <1>7. place \in Injection(Cents(f), Cents(plan))
    BY <1>5, <1>6 DEF Injection, IsInjective
  <1>8. IsFiniteSet(Cents(plan))
    <2>1. IsFiniteSet(DOMAIN plan)
      BY PaymentAssumption, FS_Subset
    <2> QED  BY <2>1, SumType
  <1>9. Cardinality(Cents(f)) <= Cardinality(Cents(plan))
    BY <1>7, <1>8, FS_Injection
  <1>10. Plain(rs, ids) /\ ids \in SUBSET RowIds
    BY <1>1, <1>2, NewIdsUnused DEF Plain
  <1>11. SumOf(rs, ids) = SumOver(f)
    BY <1>1, <1>10, PlainSums
  <1> QED  BY <1>1, <1>9, <1>10, <1>11 DEF SumOver

(* In a view, the new rows and those of the snapshot.                      *)
LEMMA ViewParts ==
    ASSUME NEW rs, NEW view, NEW new \in SUBSET RowIds, NEW old \in SUBSET RowIds,
           new \cap old = {}, Counted(view, new \cup old),
           \A k \in old : view[k].amt = rs[k].amt
    PROVE  SumOf(view, new \cup old) = SumOf(view, new) + SumOf(rs, old)
  <1>1. SumOf(view, new \cup old) = SumOf(view, new) + SumOf(view, old)
    BY RowsInParts
  <1>2. /\ [k \in old |-> view[k].amt] = [k \in old |-> rs[k].amt]
        /\ [k \in old |-> -view[k].amt] = [k \in old |-> -rs[k].amt]
    OBVIOUS
  <1>3. SumOf(view, old) = SumOf(rs, old)
    BY <1>2 DEF SumOf
  <1> QED  BY <1>1, <1>3

(* A plan that fits the rest of the payment and what its invoices owe, as  *)
(* the snapshot shows them, passes the triggers.                           *)
LEMMA PlanPasses ==
    ASSUME TypeInv, SnapsKept, NEW r \in Requests, req[r].pc = "read",
           NEW plan, DOMAIN plan \subseteq Invoices, \A i \in DOMAIN plan : plan[i] \in Nat,
           req[r].snap.amount[req[r].pay] = payment[req[r].pay].amount,
           \A i \in DOMAIN plan :
              plan[i] <= Total[i] - AllocatedTo(req[r].snap.rows, i),
           DOMAIN plan # {} =>
              SumOver(plan) <= payment[req[r].pay].amount
                                 - AllocatedOf(req[r].snap.rows, req[r].pay),
           NEW at \in Placements(plan)
    PROVE  TriggersPass(req[r].snap,
                        View(req[r].snap, Inserted(req[r].pay, plan, at), NewIds(plan)),
                        NewIds(plan))
  <1>1. PICK p, snap, ids, new, view :
          /\ p = req[r].pay /\ snap = req[r].snap /\ ids = NewIds(plan)
          /\ new = Inserted(p, plan, at) /\ view = View(snap, new, ids)
    OBVIOUS
  <1>2. /\ p \in Payments /\ snap.rows \in [RowIds -> Row]
        /\ ids \in SUBSET RowIds
        /\ payment[p].amount \in Int /\ snap.amount[p] = payment[p].amount
    <2>1. p \in Payments /\ snap.rows \in [RowIds -> Row]
      BY <1>1 DEF TypeInv, Locals, Snapshots
    <2>2. payment[p].amount \in Int
      <3>1. payment[p].amount \in Amounts
        BY <2>1 DEF TypeInv, DatabaseTyped
      <3>2. \A amt \in Amounts : amt \in Int
        BY PaymentAssumption
      <3> QED  BY <3>1, <3>2
    <2> QED  BY <1>1, <2>1, <2>2, NewIdsUnused
  <1>3. ASSUME NEW k \in ids
        PROVE  /\ view[k].state = "live"
               /\ view[k].pay = p /\ view[k].inv = at[k] /\ view[k].amt = plan[at[k]]
               /\ at[k] \in DOMAIN plan
               /\ plan[at[k]] \in Nat
               /\ snap.rows[k].state = "unused"
    <2>1. view[k] = [state |-> "live", pay |-> p, inv |-> at[k], amt |-> plan[at[k]]]
      BY <1>1, <1>2, <1>3 DEF View, Inserted
    <2>2. at[k] \in DOMAIN plan
      BY <1>1, <1>3 DEF Placements
    <2>3. snap.rows[k].state = "unused"
      BY <1>1, <1>2, <1>3, NewIdsUnused DEF SnapsKept, Kept
    <2> QED  BY <2>1, <2>2, <2>3
  <1>4. \A k \in RowIds \ ids : view[k] = snap.rows[k]
    BY <1>1 DEF View
  <1>5. ASSUME NEW S \in SUBSET RowIds
        PROVE  Counted(view, S) /\ Counted(snap.rows, S)
    <2>1. \A k \in RowIds : snap.rows[k].amt \in Int
      BY <1>2 DEF Row
    <2> QED  BY <1>3, <1>4, <2>1 DEF Counted
  <1>6. ASSUME NEW k \in ids
        PROVE  AllocatedOf(view, p) <= snap.amount[p]
    <2>1. PICK old : old = LiveOfPayment(snap.rows, p)
      OBVIOUS
    <2>2. /\ old \in SUBSET RowIds /\ ids \cap old = {}
          /\ LiveOfPayment(view, p) = ids \cup old
          /\ \A l \in old : view[l].amt = snap.rows[l].amt
      BY <1>2, <1>3, <1>4, <2>1 DEF LiveOfPayment
    <2>3. SumOf(view, ids \cup old) = SumOf(view, ids) + SumOf(snap.rows, old)
      BY <1>2, <1>5, <2>2, ViewParts
    <2>4. SumOf(view, ids) <= SumOver(plan)
      <3>1. \A l \in NewIds(plan) : view[l].amt = plan[at[l]]
        BY <1>1, <1>3
      <3> QED  BY <1>1, <3>1, PlacedSum
    <2>5. SumOver(plan) <= payment[p].amount - SumOf(snap.rows, old)
      BY <1>1, <1>3, <2>1 DEF AllocatedOf
    <2>6. SumOver(plan) \in Nat
      <3>1. IsFiniteSet(DOMAIN plan)
        BY PaymentAssumption, FS_Subset
      <3> QED  BY <3>1, SumType
    <2>7. SumOf(view, ids) \in Int /\ SumOf(snap.rows, old) \in Int
      BY <1>2, <1>5, <2>2, RowSums
    <2>8. SumOf(view, ids \cup old) <= payment[p].amount
      BY <1>2, <2>3, <2>4, <2>5, <2>6, <2>7
    <2> QED  BY <1>2, <2>2, <2>8 DEF AllocatedOf
  <1>7. ASSUME NEW k \in ids
        PROVE  AllocatedTo(view, at[k]) <= Total[at[k]]
    <2>1. PICK i, old : i = at[k] /\ old = LiveOnInvoice(snap.rows, i)
      OBVIOUS
    <2>2. \A l \in ids : at[l] = i <=> l = k
      <3>1. \A m \in ids : m \in Nat /\ at[m] \in Nat
        BY <1>2, <1>3, RowIdsFinite, PaymentAssumption
      <3>2. \A m, n \in ids : m < n => at[m] < at[n]
        BY <1>1 DEF Placements
      <3> QED  BY <2>1, <3>1, <3>2
    <2>3. /\ old \in SUBSET RowIds /\ {k} \in SUBSET RowIds /\ {k} \cap old = {}
          /\ LiveOnInvoice(view, i) = {k} \cup old
          /\ \A l \in old : view[l].amt = snap.rows[l].amt
      BY <1>2, <1>3, <1>4, <2>1, <2>2 DEF LiveOnInvoice
    <2>4. SumOf(view, {k} \cup old) = SumOf(view, {k}) + SumOf(snap.rows, old)
      <3>1. PICK one : one = {k}
        OBVIOUS
      <3>2. one \cup old \in SUBSET RowIds
        BY <2>3, <3>1
      <3>3. Counted(view, one \cup old)
        BY <1>5, <3>2
      <3> QED  BY <2>3, <3>1, <3>3, ViewParts
    <2>5. SumOf(view, {k}) = plan[i] /\ plan[i] \in Nat /\ i \in Invoices
      <3>1. view[k].amt = plan[i] /\ plan[i] \in Nat
        BY <1>3, <2>1
      <3>2. k \in RowIds /\ i \in Invoices
        BY <1>2, <1>3, <2>1
      <3> QED  BY <3>1, <3>2, OneRow
    <2>6. plan[i] <= Total[i] - SumOf(snap.rows, old)
      BY <1>1, <1>3, <2>1 DEF AllocatedTo
    <2>7. SumOf(snap.rows, old) \in Int /\ Total[i] \in Int
      BY <1>5, <2>3, <2>5, RowSums, PaymentAssumption
    <2>8. SumOf(view, {k} \cup old) <= Total[i]
      BY <2>4, <2>5, <2>6, <2>7
    <2> QED  BY <2>1, <2>3, <2>8 DEF AllocatedTo
  <1>8. TriggersPass(snap, view, ids)
    <2>1. ASSUME NEW k \in ids
          PROVE  /\ AllocatedOf(view, view[k].pay) <= snap.amount[view[k].pay]
                 /\ AllocatedTo(view, view[k].inv) <= Total[view[k].inv]
      <3>1. view[k].pay = p /\ view[k].inv = at[k]
        BY <1>3
      <3> QED  BY <1>6, <1>7, <3>1
    <2> QED  BY <2>1 DEF TriggersPass
  <1> QED  BY <1>1, <1>8

(* The guard triggers never refuse what the checks of allocate, or the     *)
(* plan of allocate-auto, let through: under the payment's lock the amount *)
(* the checks read is the one in the snapshot, and the new rows add the    *)
(* plan to what both have summed.                                          *)
THEOREM ChecksTheorem == Spec => []ChecksSuffice
  <1>1. TypeInv /\ SnapsKept /\ PaymentInv => ChecksSuffice
    <2> SUFFICES ASSUME TypeInv, SnapsKept, PaymentInv, NEW r \in Requests, req[r].pc = "read",
                        NEW plan, NEW at \in Placements(plan),
                        \/ /\ req[r].op = "auto"
                           /\ \E chosen \in SUBSET Invoices : plan = Waterfall(r, chosen)
                        \/ /\ req[r].op = "allocate"
                           /\ req[r].amt <= payment[req[r].pay].amount
                                              - AllocatedOf(req[r].snap.rows, req[r].pay)
                           /\ req[r].amt <= Total[req[r].inv]
                                              - AllocatedTo(req[r].snap.rows, req[r].inv)
                           /\ plan = [x \in {req[r].inv} |-> req[r].amt]
                 PROVE  TriggersPass(req[r].snap,
                                     View(req[r].snap, Inserted(req[r].pay, plan, at),
                                          NewIds(plan)),
                                     NewIds(plan))
      BY DEF ChecksSuffice
    <2>1. req[r].snap.amount[req[r].pay] = payment[req[r].pay].amount
      BY DEF PaymentInv, Knows, Holds, LocksPayment
    <2>2. CASE \E chosen \in SUBSET Invoices : plan = Waterfall(r, chosen)
      <3>1. DOMAIN plan \subseteq Invoices /\ \A i \in DOMAIN plan : plan[i] \in Nat
        BY <2>2, WaterfallTyped DEF PlanTyped
      <3> QED  BY <2>1, <2>2, <3>1, WaterfallWithin, PlanPasses
    <2>3. CASE /\ req[r].op = "allocate"
               /\ req[r].amt <= payment[req[r].pay].amount
                                  - AllocatedOf(req[r].snap.rows, req[r].pay)
               /\ req[r].amt <= Total[req[r].inv]
                                  - AllocatedTo(req[r].snap.rows, req[r].inv)
               /\ plan = [x \in {req[r].inv} |-> req[r].amt]
      <3>1. req[r].inv \in Invoices /\ req[r].amt \in Nat
        BY <2>3, PaymentAssumption DEF TypeInv, LocalTyped, Locals
      <3>2. DOMAIN plan \subseteq Invoices /\ \A i \in DOMAIN plan : plan[i] \in Nat
        BY <2>3, <3>1
      <3>3. SumOver(plan) = req[r].amt
        BY <2>3, <3>1, OneShare
      <3> QED  BY <2>1, <2>3, <3>2, <3>3, PlanPasses
    <2> QED  BY <2>2, <2>3
  <1> QED  BY <1>1, TypesHold, SnapsKeptHolds, PaymentInvariance, PTL

=============================================================================
