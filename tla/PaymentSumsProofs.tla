------------------------- MODULE PaymentSumsProofs -------------------------
(***************************************************************************)
(* What the locking discipline of payment allocation is for: no payment is *)
(* overspent, no invoice collects too much and no money that did not       *)
(* arrive settles one, for any number of payments, invoices, clients and   *)
(* requests.  The sums need no induction: a sum is a number of cents, and  *)
(* fewer rows have fewer.                                                  *)
(***************************************************************************)
EXTENDS PaymentAllocationProofs, FiniteSetTheorems

----------------------------------------------------------------------------
(* Sums *)

LEMMA SumType ==
    ASSUME NEW S, IsFiniteSet(S), NEW f, DOMAIN f = S, \A x \in S : f[x] \in Int
    PROVE  IsFiniteSet(Cents(f)) /\ SumOver(f) \in Nat
  <1> DEFINE purse == [x \in S |-> {x} \X (1..f[x])]
             Purses == {purse[x] : x \in S}
  <1>1. ASSUME NEW x \in S
        PROVE  IsFiniteSet({x} \X (1..f[x]))
    <2>1. IsFiniteSet({x})
      BY FS_Singleton
    <2>2. IsFiniteSet(1..f[x])
      BY FS_Interval
    <2> QED  BY <2>1, <2>2, FS_Product
  <1>2. purse \in Surjection(S, Purses)
    BY DEF Surjection
  <1>3. IsFiniteSet(Purses)
    BY <1>2, FS_Surjection
  <1>4. IsFiniteSet(UNION Purses)
    BY <1>1, <1>3, FS_UNION
  <1>5. Cents(f) = UNION Purses
    BY DEF Cents
  <1>6. IsFiniteSet(Cents(f))
    BY <1>4, <1>5
  <1> QED  BY <1>6, FS_CardinalityType DEF SumOver

(* A part of the rows sums to no more than the whole; rows of nothing do   *)
(* not count.                                                              *)
LEMMA SumMonotone ==
    ASSUME NEW T, IsFiniteSet(T), NEW g, DOMAIN g = T, \A x \in T : g[x] \in Int,
           NEW f, \A x \in DOMAIN f : f[x] \in Int,
           \A x \in DOMAIN f : f[x] # 0 => x \in T /\ f[x] = g[x]
    PROVE  SumOver(f) <= SumOver(g)
  <1>1. Cents(f) \subseteq Cents(g)
    BY DEF Cents
  <1>2. IsFiniteSet(Cents(g))
    BY SumType
  <1> QED  BY <1>1, <1>2, FS_Subset DEF SumOver

(* Nothing sums to nothing, and less than nothing too.                     *)
LEMMA SumZero ==
    ASSUME NEW f, \A x \in DOMAIN f : f[x] \in Int /\ f[x] <= 0
    PROVE  SumOver(f) = 0
  <1>1. Cents(f) = {}
    BY DEF Cents
  <1> QED  BY <1>1, FS_EmptySet DEF SumOver

(* Two parts of the rows sum to the whole. *)
LEMMA SumParts ==
    ASSUME NEW S, IsFiniteSet(S), NEW T, IsFiniteSet(T), S \cap T = {},
           NEW f, DOMAIN f = S, \A x \in S : f[x] \in Int,
           NEW g, DOMAIN g = T, \A x \in T : g[x] \in Int,
           NEW h, DOMAIN h = S \cup T,
           \A x \in S : h[x] = f[x], \A x \in T : h[x] = g[x]
    PROVE  SumOver(h) = SumOver(f) + SumOver(g)
  <1>1. /\ IsFiniteSet(Cents(f)) /\ IsFiniteSet(Cents(g))
        /\ SumOver(f) \in Nat /\ SumOver(g) \in Nat
    BY SumType
  <1>2. Cents(h) = Cents(f) \cup Cents(g)
    <2>1. \A c : c \in Cents(h) <=> \E k \in S \cup T : c \in {k} \X (1..h[k])
      BY DEF Cents
    <2>2. \A c : c \in Cents(f) <=> \E k \in S : c \in {k} \X (1..h[k])
      BY DEF Cents
    <2>3. \A c : c \in Cents(g) <=> \E k \in T : c \in {k} \X (1..h[k])
      BY DEF Cents
    <2> QED  BY <2>1, <2>2, <2>3
  <1>3. Cents(f) \cap Cents(g) = {}
    BY DEF Cents
  <1>4. PICK A, B : A = Cents(f) /\ B = Cents(g)
    OBVIOUS
  <1>5. Cardinality(A \cup B) = Cardinality(A) + Cardinality(B) - Cardinality(A \cap B)
    BY <1>1, <1>4, FS_Union
  <1>6. Cardinality(A \cap B) = 0
    BY <1>3, <1>4, FS_EmptySet
  <1>7. /\ SumOver(h) = Cardinality(A \cup B)
        /\ SumOver(f) = Cardinality(A) /\ SumOver(g) = Cardinality(B)
    BY <1>2, <1>4 DEF SumOver
  <1> QED  BY <1>1, <1>5, <1>6, <1>7

(* A sum of one: with SumParts, this is what a sum is. *)
LEMMA OneShare ==
    ASSUME NEW x, NEW a \in Nat
    PROVE  SumOver([y \in {x} |-> a]) = a
  <1> DEFINE purse == {x} \X (1..a)
  <1>1. Cents([y \in {x} |-> a]) = purse
    BY DEF Cents
  <1>2. PICK one, many : one = {x} /\ many = 1..a
    OBVIOUS
  <1>3. IsFiniteSet(one) /\ Cardinality(one) = 1
    BY <1>2, FS_Singleton
  <1>4. IsFiniteSet(many) /\ Cardinality(many) = a
    BY <1>2, FS_Interval
  <1>5. Cardinality(one \X many) = 1 * a
    BY <1>3, <1>4, FS_Product
  <1>6. SumOver([y \in {x} |-> a]) = Cardinality(one \X many)
    BY <1>1, <1>2 DEF SumOver
  <1> QED  BY <1>5, <1>6

(* One more row adds its amount. *)
LEMMA SumAdds ==
    ASSUME NEW S, IsFiniteSet(S), NEW x, x \notin S, NEW f, DOMAIN f = S \cup {x},
           \A y \in S \cup {x} : f[y] \in Nat,
           NEW g, DOMAIN g = S, \A y \in S : g[y] = f[y]
    PROVE  SumOver(f) = SumOver(g) + f[x]
  <1>1. PICK a \in Nat : a = f[x]
    OBVIOUS
  <1>2. PICK one : one = [y \in {x} |-> a]
    OBVIOUS
  <1>3. SumOver(one) = a
    BY <1>1, <1>2, OneShare
  <1>4. /\ DOMAIN one = {x} /\ \A y \in {x} : one[y] \in Int /\ f[y] = one[y]
        /\ \A y \in S : g[y] \in Int /\ f[y] = g[y]
        /\ S \cap {x} = {} /\ IsFiniteSet({x})
    <2>1. IsFiniteSet({x})
      BY FS_Singleton
    <2> QED  BY <1>1, <1>2, <2>1
  <1>5. SumOver(f) = SumOver(g) + SumOver(one)
    BY <1>4, SumParts
  <1> QED  BY <1>1, <1>3, <1>5

LEMMA RowIdsFinite == IsFiniteSet(RowIds) /\ RowIds \subseteq Nat
  BY PaymentAssumption, FS_Interval DEF RowIds

(* The same for rows, whose amounts may be negative. *)
Counted(rs, ids) == \A k \in ids : rs[k].amt \in Int
Plain(rs, ids) == \A k \in ids : rs[k].amt \in Nat

LEMMA RowSums ==
    ASSUME NEW rs, NEW ids \in SUBSET RowIds, Counted(rs, ids)
    PROVE  SumOf(rs, ids) \in Int
  <1>1. IsFiniteSet(ids)
    BY RowIdsFinite, FS_Subset
  <1>2. PICK f, g : f = [k \in ids |-> rs[k].amt] /\ g = [k \in ids |-> -rs[k].amt]
    OBVIOUS
  <1>3. /\ DOMAIN f = ids /\ \A k \in ids : f[k] \in Int
        /\ DOMAIN g = ids /\ \A k \in ids : g[k] \in Int
    BY <1>2 DEF Counted
  <1>4. SumOver(f) \in Nat /\ SumOver(g) \in Nat
    BY <1>1, <1>3, SumType
  <1> QED  BY <1>2, <1>4 DEF SumOf

(* Where no amount is negative there is one sum only. *)
LEMMA PlainSums ==
    ASSUME NEW rs, NEW ids \in SUBSET RowIds, Plain(rs, ids)
    PROVE  /\ SumOf(rs, ids) = SumOver([k \in ids |-> rs[k].amt])
           /\ SumOf(rs, ids) \in Nat
  <1>1. IsFiniteSet(ids)
    BY RowIdsFinite, FS_Subset
  <1>2. PICK f, g : f = [k \in ids |-> rs[k].amt] /\ g = [k \in ids |-> -rs[k].amt]
    OBVIOUS
  <1>3. /\ DOMAIN f = ids /\ \A k \in ids : f[k] \in Int
        /\ \A k \in DOMAIN g : g[k] \in Int /\ g[k] <= 0
    BY <1>2 DEF Plain
  <1>4. SumOver(f) \in Nat
    BY <1>1, <1>3, SumType
  <1>5. SumOver(g) = 0
    BY <1>3, SumZero
  <1> QED  BY <1>2, <1>4, <1>5 DEF SumOf

LEMMA RowsMonotone ==
    ASSUME NEW rs, NEW qs, NEW ids \in SUBSET RowIds, NEW jds \in SUBSET RowIds,
           Plain(qs, ids), Plain(rs, jds),
           \A k \in jds : rs[k].amt # 0 => k \in ids /\ rs[k].amt = qs[k].amt
    PROVE  SumOf(rs, jds) <= SumOf(qs, ids)
  <1>1. IsFiniteSet(ids)
    BY RowIdsFinite, FS_Subset
  <1>2. PICK f, g : f = [k \in jds |-> rs[k].amt] /\ g = [k \in ids |-> qs[k].amt]
    OBVIOUS
  <1>3. /\ DOMAIN g = ids /\ \A k \in ids : g[k] \in Int
        /\ \A k \in DOMAIN f : f[k] \in Int
        /\ \A k \in DOMAIN f : f[k] # 0 => k \in ids /\ f[k] = g[k]
    BY <1>2 DEF Plain
  <1>4. SumOver(f) <= SumOver(g)
    BY <1>1, <1>3, SumMonotone
  <1> QED  BY <1>2, <1>4, PlainSums

LEMMA NoRows == \A rs : SumOf(rs, {}) = 0
  <1> TAKE rs
  <1>1. {} \in SUBSET RowIds /\ Plain(rs, {})
    BY DEF Plain
  <1>2. PICK f : f = [k \in {} |-> rs[k].amt]
    OBVIOUS
  <1>3. DOMAIN f = {}
    BY <1>2
  <1>4. SumOver(f) = 0
    BY <1>3, SumZero
  <1> QED  BY <1>1, <1>2, <1>4, PlainSums

(* Rows counted in two parts. *)
LEMMA RowsInParts ==
    ASSUME NEW rs, NEW A \in SUBSET RowIds, NEW B \in SUBSET RowIds, A \cap B = {},
           Counted(rs, A \cup B)
    PROVE  SumOf(rs, A \cup B) = SumOf(rs, A) + SumOf(rs, B)
  <1>1. IsFiniteSet(A) /\ IsFiniteSet(B)
    BY RowIdsFinite, FS_Subset
  <1>2. PICK f, g, h : /\ f = [k \in A |-> rs[k].amt] /\ g = [k \in B |-> rs[k].amt]
                       /\ h = [k \in A \cup B |-> rs[k].amt]
    OBVIOUS
  <1>3. /\ SumOver(h) = SumOver(f) + SumOver(g)
        /\ SumOver(f) \in Nat /\ SumOver(g) \in Nat
    <2>1. /\ DOMAIN f = A /\ DOMAIN g = B /\ DOMAIN h = A \cup B
          /\ \A k \in A : f[k] \in Int /\ h[k] = f[k]
          /\ \A k \in B : g[k] \in Int /\ h[k] = g[k]
      BY <1>2 DEF Counted
    <2> QED  BY <1>1, <2>1, SumParts, SumType
  <1>4. PICK u, v, w : /\ u = [k \in A |-> -rs[k].amt] /\ v = [k \in B |-> -rs[k].amt]
                       /\ w = [k \in A \cup B |-> -rs[k].amt]
    OBVIOUS
  <1>5. /\ SumOver(w) = SumOver(u) + SumOver(v)
        /\ SumOver(u) \in Nat /\ SumOver(v) \in Nat
    <2>1. /\ DOMAIN u = A /\ DOMAIN v = B /\ DOMAIN w = A \cup B
          /\ \A k \in A : u[k] \in Int /\ w[k] = u[k]
          /\ \A k \in B : v[k] \in Int /\ w[k] = v[k]
      BY <1>4 DEF Counted
    <2> QED  BY <1>1, <2>1, SumParts, SumType
  <1>6. /\ SumOf(rs, A) = SumOver(f) - SumOver(u)
        /\ SumOf(rs, B) = SumOver(g) - SumOver(v)
        /\ SumOf(rs, A \cup B) = SumOver(h) - SumOver(w)
    BY <1>2, <1>4 DEF SumOf
  <1> QED  BY <1>3, <1>5, <1>6

LEMMA OneRow ==
    ASSUME NEW rs, NEW k \in RowIds, rs[k].amt \in Nat
    PROVE  SumOf(rs, {k}) = rs[k].amt
  <1>1. PICK a : a = rs[k].amt
    OBVIOUS
  <1>2. [l \in {k} |-> rs[l].amt] = [l \in {k} |-> a]
    BY <1>1
  <1>3. SumOver([l \in {k} |-> a]) = a
    BY <1>1, OneShare
  <1>4. SumOf(rs, {k}) = SumOver([l \in {k} |-> rs[l].amt])
    BY PlainSums DEF Plain
  <1> QED  BY <1>1, <1>2, <1>3, <1>4

(* The smallest of some numbers is one of them, and smaller than the rest. *)
LEMMA MinIsOne ==
    ASSUME NEW S \in SUBSET Nat, S # {}
    PROVE  Min(S) \in S /\ \A y \in S : Min(S) <= y
  <1> DEFINE Ups == {1..n : n \in S}
  <1>1. Ups \subseteq FiniteSubsetsOf(Nat) /\ Ups # {}
    <2>1. \A n \in S : 1..n \subseteq Nat /\ IsFiniteSet(1..n)
      BY FS_Interval
    <2> QED  BY <2>1 DEF FiniteSubsetsOf
  <1>2. PICK U \in Ups : \A V \in Ups : ~(<<V, U>> \in StrictSubsetOrdering(Nat))
    BY <1>1, FS_StrictSubsetOrderingWellFounded, WFMin
  <1>3. PICK x \in S : U = 1..x
    OBVIOUS
  <1>4. ASSUME NEW y \in S, ~(x <= y)
        PROVE  FALSE
    <2>1. 1..y \subseteq 1..x /\ x \in 1..x /\ x \notin 1..y
      BY <1>4
    <2>2. 1..y # 1..x /\ 1..y \in SUBSET Nat /\ 1..x \in SUBSET Nat
      BY <2>1
    <2>3. <<1..y, 1..x>> \in StrictSubsetOrdering(Nat)
      BY <2>1, <2>2 DEF StrictSubsetOrdering
    <2> QED  BY <1>2, <1>3, <2>3
  <1> QED  BY <1>4 DEF Min

----------------------------------------------------------------------------
(* Types *)

Snapshots == [rows : [RowIds -> Row], invoice : [Invoices -> InvoiceStatuses],
              amount : [Payments -> Nat]]

Locals == [op : Ops, pc : PCs, pay : Payments, inv : Invoices, to : Invoices,
           amt : Int, flag : BOOLEAN, client : Clients, held : SUBSET Invoices,
           snap : Snapshots]

DatabaseTyped ==
    /\ payment \in [Payments -> [deleted : BOOLEAN, completed : BOOLEAN,
                                 amount : Amounts, client : Clients]]
    /\ credit \in [Payments -> SUBSET [client : Clients, amount : Amounts]]
    /\ invoice \in [Invoices -> InvoiceStatuses]
    /\ cfdi \subseteq Invoices
    /\ rows \in [RowIds -> Row]
    /\ revived \subseteq Invoices

LocalTyped(l) ==
    /\ l \in Locals
    /\ l.op \in {"allocate", "update", "reassign"} => l.amt \in Amounts

(* The inductive invariant: the types, and that only reallocate's amounts  *)
(* may be negative.                                                        *)
TypeInv ==
    /\ DatabaseTyped
    /\ started \in 0..MaxStarted
    /\ req \in [Requests -> Locals]
    /\ \A r \in Requests : LocalTyped(req[r])

LEMMA TypeInvGives == TypeInv => TypeOK
  BY DEF TypeInv, DatabaseTyped, Locals, Snapshots, TypeOK

LEMMA AnyTyped ==
    /\ AnyPayment \in Payments /\ AnyInvoice \in Invoices /\ AnyClient \in Clients
    /\ Unused \in Row /\ Unused.state = "unused"
  <1>1. AnyPayment \in Payments /\ AnyInvoice \in Invoices
    BY PaymentAssumption DEF AnyPayment, AnyInvoice
  <1>2. Clients # {}
    BY PaymentAssumption
  <1>3. AnyClient \in Clients
    BY <1>2 DEF AnyClient
  <1> QED  BY <1>1, <1>3 DEF Unused, Row

LEMMA NoSnapTyped == NoSnap \in Snapshots
  <1>1. NoSnap.rows = [k \in RowIds |-> Unused]
    BY DEF NoSnap
  <1>2. NoSnap.rows \in [RowIds -> Row]
    BY <1>1, AnyTyped
  <1>3. [i \in Invoices |-> "issued"] \in [Invoices -> InvoiceStatuses]
    BY DEF InvoiceStatuses
  <1>4. [p \in Payments |-> 0] \in [Payments -> Nat]
    OBVIOUS
  <1> QED  BY <1>1, <1>2, <1>3, <1>4 DEF NoSnap, Snapshots

LEMMA IdleTyped == LocalTyped(Idle)
  <1>1. Idle \in Locals
    BY AnyTyped, NoSnapTyped DEF Idle, Locals, Ops, PCs
  <1>2. Idle.op = "idle"
    BY DEF Idle
  <1> QED  BY <1>1, <1>2 DEF LocalTyped

LEMMA SnapshotTyped ==
    ASSUME TypeInv
    PROVE  Snapshot \in Snapshots
  <1>1. [p \in Payments |-> payment[p].amount] \in [Payments -> Nat]
    BY PaymentAssumption DEF TypeInv, DatabaseTyped
  <1>2. Snapshot.rows = rows
    BY DEF Snapshot
  <1> QED  BY <1>1, <1>2 DEF TypeInv, DatabaseTyped, Snapshot, Snapshots

(* A step of request r that leaves it in state l. *)
LEMMA TypedStep ==
    ASSUME TypeInv, NEW r \in Requests, NEW l, LocalTyped(l),
           Start(r, l) \/ Continue(r, l), DatabaseTyped'
    PROVE  TypeInv'
  <1>1. req' = [req EXCEPT ![r] = l]
    BY DEF Start, Continue
  <1>2. started' \in 0..MaxStarted
    BY PaymentAssumption DEF Start, Continue, TypeInv
  <1>3. req' \in [Requests -> Locals] /\ \A s \in Requests : LocalTyped(req'[s])
    BY <1>1 DEF TypeInv, LocalTyped
  <1> QED  BY <1>2, <1>3 DEF TypeInv

(* The database stays as it was. *)
LEMMA TypedStay ==
    ASSUME TypeInv, UNCHANGED database
    PROVE  DatabaseTyped'
  BY DEF TypeInv, DatabaseTyped, database

LEMMA InitTypeInv == Init => TypeInv
  <1> SUFFICES ASSUME Init PROVE TypeInv
    OBVIOUS
  <1>1. payment \in [Payments -> [deleted : BOOLEAN, completed : BOOLEAN,
                                  amount : Amounts, client : Clients]]
        /\ credit \in [Payments -> SUBSET [client : Clients, amount : Amounts]]
    BY PaymentAssumption DEF Init
  <1>2. invoice \in [Invoices -> InvoiceStatuses] /\ cfdi \subseteq Invoices
        /\ revived \subseteq Invoices
    BY PaymentAssumption DEF Init, InvoiceStatuses
  <1>3. rows \in [RowIds -> Row]
    BY AnyTyped DEF Init
  <1>4. started \in 0..MaxStarted
    BY PaymentAssumption DEF Init
  <1>5. req \in [Requests -> Locals] /\ \A r \in Requests : LocalTyped(req[r])
    BY IdleTyped DEF Init, LocalTyped
  <1> QED  BY <1>1, <1>2, <1>3, <1>4, <1>5 DEF TypeInv, DatabaseTyped


(* A request starts: what it is given is of the right type. *)
LEMMA BeginTyped ==
    ASSUME TypeInv, NEW r \in Requests, Begin(r)
    PROVE  TypeInv'
  <1>0. Idle \in Locals
    BY IdleTyped DEF LocalTyped
  <1>1. ASSUME NEW l, LocalTyped(l), Start(r, l), UNCHANGED database
        PROVE  TypeInv'
    BY <1>1, TypedStay, TypedStep
  <1>2. ASSUME NEW p \in Payments, NEW i \in Invoices, NEW amt \in Amounts,
               BeginAllocate(r, p, i, amt)
        PROVE  TypeInv'
    <2>1. PICK l : l = [Idle EXCEPT !.op = "allocate", !.pc = "locking", !.pay = p,
                                    !.inv = i, !.to = i, !.amt = amt]
      OBVIOUS
    <2>2. amt \in Int
      BY PaymentAssumption
    <2>3. LocalTyped(l)
      BY <1>0, <2>1, <2>2 DEF Locals, LocalTyped, Ops, PCs
    <2> QED  BY <1>1, <1>2, <2>1, <2>3 DEF BeginAllocate
  <1>3. ASSUME NEW p \in Payments, BeginAuto(r, p)
        PROVE  TypeInv'
    <2>1. PICK l : l = [Idle EXCEPT !.op = "auto", !.pc = "locking", !.pay = p]
      OBVIOUS
    <2>2. LocalTyped(l)
      BY <1>0, <2>1 DEF Locals, LocalTyped, Ops, PCs
    <2> QED  BY <1>1, <1>3, <2>1, <2>2 DEF BeginAuto
  <1>4. ASSUME NEW p \in Payments, NEW i \in Invoices, NEW j \in Invoices,
               NEW amt \in Moves \cup {0}, NEW whole \in BOOLEAN,
               BeginReallocate(r, p, i, j, amt, whole)
        PROVE  TypeInv'
    <2>1. PICK l : l = [Idle EXCEPT !.op = "reallocate", !.pc = "locking",
                                    !.pay = p, !.inv = i, !.to = j,
                                    !.amt = amt, !.flag = whole]
      OBVIOUS
    <2>2. amt \in Int
      BY PaymentAssumption
    <2>3. l \in Locals /\ l.op = "reallocate"
      BY <1>0, <2>1, <2>2 DEF Locals, Ops, PCs
    <2>4. LocalTyped(l)
      BY <2>3 DEF LocalTyped
    <2> QED  BY <1>1, <1>4, <2>1, <2>4 DEF BeginReallocate
  <1>5. ASSUME NEW p \in Payments, BeginDelete(r, p) \/ BeginRestore(r, p)
        PROVE  TypeInv'
    <2>1. PICK op \in {"delete", "restore"} :
            Start(r, [Idle EXCEPT !.op = op, !.pc = "locked", !.pay = p])
      BY <1>5 DEF BeginDelete, BeginRestore
    <2>2. PICK l : l = [Idle EXCEPT !.op = op, !.pc = "locked", !.pay = p]
      OBVIOUS
    <2>3. LocalTyped(l)
      BY <1>0, <2>2 DEF Locals, LocalTyped, Ops, PCs
    <2> QED  BY <1>1, <1>5, <2>1, <2>2, <2>3 DEF BeginDelete, BeginRestore
  <1>6. ASSUME NEW p \in Payments, NEW amt \in Amounts, NEW completed \in BOOLEAN,
               BeginUpdate(r, p, amt, completed)
        PROVE  TypeInv'
    <2>1. PICK l : l = [Idle EXCEPT !.op = "update", !.pc = "locked", !.pay = p,
                                    !.amt = amt, !.flag = completed]
      OBVIOUS
    <2>2. amt \in Int
      BY PaymentAssumption
    <2>3. LocalTyped(l)
      BY <1>0, <2>1, <2>2 DEF Locals, LocalTyped, Ops, PCs
    <2> QED  BY <1>1, <1>6, <2>1, <2>3 DEF BeginUpdate
  <1>7. ASSUME NEW p \in Payments, NEW i \in Invoices, BeginUnapply(r, p, i)
        PROVE  TypeInv'
    <2>1. PICK l : l = [Idle EXCEPT !.op = "unapply", !.pc = "read", !.pay = p,
                                    !.inv = i, !.to = i, !.snap = Snapshot]
      OBVIOUS
    <2>2. l \in Locals /\ l.op = "unapply"
      BY <1>0, <2>1, SnapshotTyped DEF Locals, Ops, PCs
    <2>3. LocalTyped(l)
      BY <2>2 DEF LocalTyped
    <2> QED  BY <1>1, <1>7, <2>1, <2>3 DEF BeginUnapply
  <1>8. ASSUME NEW p \in Payments, NEW c \in Clients, BeginReassign(r, p, c)
        PROVE  TypeInv'
    <2>1. PICK l : l = [Idle EXCEPT !.op = "reassign", !.pc = "read", !.pay = p,
                                    !.client = c, !.amt = payment[p].amount]
      OBVIOUS
    <2>2. PICK amt \in Amounts : amt = payment[p].amount
      BY DEF TypeInv, DatabaseTyped
    <2>3. amt \in Int
      BY PaymentAssumption
    <2>4. LocalTyped(l)
      BY <1>0, <2>1, <2>2, <2>3 DEF Locals, LocalTyped, Ops, PCs
    <2> QED  BY <1>1, <1>8, <2>1, <2>4 DEF BeginReassign
  <1>9. ASSUME NEW i \in Invoices, CheckVoid(r, i) \/ AcceptCancellation(r, i)
        PROVE  TypeInv'
    <2>1. PICK op \in {"void", "cancel"} :
            Start(r, [Idle EXCEPT !.op = op, !.pc = "checked", !.inv = i])
      BY <1>9 DEF CheckVoid, AcceptCancellation
    <2>2. PICK l : l = [Idle EXCEPT !.op = op, !.pc = "checked", !.inv = i]
      OBVIOUS
    <2>3. LocalTyped(l)
      BY <1>0, <2>2 DEF Locals, LocalTyped, Ops, PCs
    <2>4. DatabaseTyped'
      BY <1>9 DEF TypeInv, DatabaseTyped, CheckVoid, AcceptCancellation,
                  database
    <2> QED  BY <2>1, <2>2, <2>3, <2>4, TypedStep
  <1> QED  BY <1>2, <1>3, <1>4, <1>5, <1>6, <1>7, <1>8, <1>9 DEF Begin

(* It goes on: locks, reads and what follows a commit. *)
LEMMA GoesOnTyped ==
    ASSUME TypeInv, NEW r \in Requests,
           \/ LockNext(r) \/ ReadSnapshot(r) \/ RefreshRead(r) \/ Abandon(r)
           \/ ReadExisting(r)
    PROVE  TypeInv'
  <1>1. DatabaseTyped'
    BY TypedStay DEF LockNext, ReadSnapshot, RefreshRead, Abandon, ReadExisting
  <1>2. req[r] \in Locals /\ LocalTyped(req[r])
    BY DEF TypeInv
  <1>3. ASSUME NEW l, LocalTyped(l), Continue(r, l)
        PROVE  TypeInv'
    BY <1>1, <1>3, TypedStep
  <1>4. CASE Done(r)
    BY <1>3, <1>4, IdleTyped DEF Done
  <1>5. ASSUME NEW pc \in PCs, Goto(r, pc)
        PROVE  TypeInv'
    <2>1. PICK l : l = [req[r] EXCEPT !.pc = pc]
      OBVIOUS
    <2>2. LocalTyped(l)
      BY <1>2, <2>1 DEF Locals, LocalTyped
    <2> QED  BY <1>3, <1>5, <2>1, <2>2 DEF Goto
  <1>6. CASE LockNext(r)
    <2>1. PICK left : left = Needed(r) \ req[r].held
      OBVIOUS
    <2>2. Needed(r) \in SUBSET Invoices
      <3>1. req[r].inv \in Invoices /\ req[r].to \in Invoices
        BY <1>2 DEF Locals
      <3> QED  BY <3>1 DEF Needed
    <2>3. CASE left = {}
      BY <1>5, <1>6, <2>1, <2>3 DEF LockNext, PCs
    <2>4. CASE left # {}
      <3>1. PICK i : i = Min(left)
        OBVIOUS
      <3>2. i \in Invoices
        BY <2>1, <2>2, <2>4, <3>1, MinIsOne, PaymentAssumption
      <3>3. PICK l : l = [req[r] EXCEPT !.held = @ \cup {i}]
        OBVIOUS
      <3>4. LocalTyped(l)
        BY <1>2, <3>2, <3>3 DEF Locals, LocalTyped
      <3> QED  BY <1>3, <1>6, <2>1, <2>4, <3>1, <3>3, <3>4 DEF LockNext
    <2> QED  BY <2>3, <2>4
  <1>7. CASE ReadSnapshot(r)
    <2>1. PICK l : l = [req[r] EXCEPT !.pc = "read", !.snap = Snapshot]
      OBVIOUS
    <2>2. /\ l \in Locals
          /\ l.op = req[r].op /\ l.amt = req[r].amt
      BY <1>2, <2>1, SnapshotTyped DEF Locals, PCs
    <2>3. LocalTyped(l)
      BY <1>2, <2>2 DEF LocalTyped
    <2> QED  BY <1>3, <1>7, <2>1, <2>3 DEF ReadSnapshot
  <1>8. CASE RefreshRead(r)
    <2>1. PICK l : l = [req[r] EXCEPT !.pc = "refreshing",
                                      !.flag = Covered(rows, req[r].inv)]
      OBVIOUS
    <2>2. Covered(rows, req[r].inv) \in BOOLEAN
      BY DEF Covered
    <2>3. LocalTyped(l)
      BY <1>2, <2>1, <2>2 DEF Locals, LocalTyped, PCs
    <2> QED  BY <1>3, <1>8, <2>1, <2>3 DEF RefreshRead
  <1>9. CASE ReadExisting(r) /\ ~Done(r)
    <2>1. (invoice[req[r].inv] \in Terminal) \in BOOLEAN
      OBVIOUS
    <2>2. PICK b : b = (invoice[req[r].inv] \in Terminal)
      OBVIOUS
    <2>3. PICK l : l = [req[r] EXCEPT !.pc = "settling", !.flag = b]
      OBVIOUS
    <2>4. LocalTyped(l)
      BY <1>2, <2>1, <2>2, <2>3 DEF Locals, LocalTyped, PCs
    <2> QED  BY <1>3, <1>9, <2>2, <2>3, <2>4 DEF ReadExisting
  <1> QED  BY <1>4, <1>6, <1>7, <1>8, <1>9 DEF Abandon


LEMMA RefreshedTyped ==
    \A status \in InvoiceStatuses, covered \in BOOLEAN :
        RefreshedStatus(status, covered) \in InvoiceStatuses
  BY DEF RefreshedStatus, InvoiceStatuses

LEMMA SoftDeletedTyped ==
    ASSUME NEW rs \in [RowIds -> Row], NEW ids,
           \A k \in ids : k \in RowIds /\ rs[k].state # "unused"
    PROVE  SoftDeleted(rs, ids) \in [RowIds -> Row]
  <1>1. PICK new : new = SoftDeleted(rs, ids)
    OBVIOUS
  <1>2. new = [k \in RowIds |-> IF k \in ids THEN [rs[k] EXCEPT !.state = "deleted"]
                                             ELSE rs[k]]
    BY <1>1 DEF SoftDeleted
  <1>3. ASSUME NEW k \in RowIds
        PROVE  new[k] \in Row
    <2>1. rs[k] \in Row
      OBVIOUS
    <2>2. CASE k \notin ids
      BY <1>2, <2>1, <2>2
    <2>3. CASE k \in ids
      BY <1>2, <2>1, <2>3 DEF Row
    <2> QED  BY <2>2, <2>3
  <1> QED  BY <1>1, <1>2, <1>3

PlanTyped(plan) ==
    DOMAIN plan \subseteq Invoices /\ \A i \in DOMAIN plan : plan[i] \in Int

LEMMA InsertedTyped ==
    ASSUME DatabaseTyped, NEW p \in Payments, NEW plan, PlanTyped(plan),
           NEW at \in Placements(plan)
    PROVE  Inserted(p, plan, at) \in [RowIds -> Row]
  <1>1. PICK new : new = Inserted(p, plan, at)
    OBVIOUS
  <1>2. new = [k \in RowIds |->
                 IF k \in NewIds(plan)
                   THEN [state |-> "live", pay |-> p, inv |-> at[k], amt |-> plan[at[k]]]
                   ELSE rows[k]]
    BY <1>1 DEF Inserted
  <1>3. ASSUME NEW k \in RowIds
        PROVE  new[k] \in Row
    <2>1. CASE k \notin NewIds(plan)
      BY <1>2, <2>1 DEF DatabaseTyped
    <2>2. CASE k \in NewIds(plan)
      <3>1. PICK i, a : i = at[k] /\ a = plan[at[k]]
        OBVIOUS
      <3>2. i \in Invoices /\ a \in Int
        BY <2>2, <3>1 DEF Placements, PlanTyped
      <3>3. new[k] = [state |-> "live", pay |-> p, inv |-> i, amt |-> a]
        BY <1>2, <2>2, <3>1
      <3> QED  BY <3>2, <3>3 DEF Row
    <2> QED  BY <2>1, <2>2
  <1> QED  BY <1>1, <1>2, <1>3

LEMMA LiveRowIds ==
    \A rs, p, i : /\ LiveOfPayment(rs, p) \in SUBSET RowIds
                  /\ LiveOnInvoice(rs, i) \in SUBSET RowIds
  BY DEF LiveOfPayment, LiveOnInvoice

LEMMA AllocatedTyped ==
    ASSUME NEW rs \in [RowIds -> Row], NEW p, NEW i
    PROVE  AllocatedOf(rs, p) \in Int /\ AllocatedTo(rs, i) \in Int
  <1>1. LiveOfPayment(rs, p) \in SUBSET RowIds /\ LiveOnInvoice(rs, i) \in SUBSET RowIds
    BY LiveRowIds
  <1>2. Counted(rs, LiveOfPayment(rs, p)) /\ Counted(rs, LiveOnInvoice(rs, i))
    BY <1>1 DEF Counted, Row
  <1> QED  BY <1>1, <1>2, RowSums DEF AllocatedOf, AllocatedTo

(* allocateAcrossInvoices: it stops when nothing of the payment is left,   *)
(* and skips what owes nothing.                                            *)
LEMMA WaterfallTyped ==
    ASSUME TypeInv, NEW r \in Requests, NEW chosen \in SUBSET Invoices
    PROVE  /\ PlanTyped(Waterfall(r, chosen))
           /\ \A i \in DOMAIN Waterfall(r, chosen) : Waterfall(r, chosen)[i] \in Nat \ {0}
  <1> DEFINE p == req[r].pay
             snap == req[r].snap
             remainder == payment[p].amount - AllocatedOf(snap.rows, p)
             balance(i) == Total[i] - AllocatedTo(snap.rows, i)
             open == {i \in chosen : balance(i) > 0 /\ ~Applied(p, i)}
             before(i) == SumOver([j \in {k \in open : k < i} |-> balance(j)])
             to == {j \in open : before(j) < remainder}
  <1>1. p \in Payments /\ snap.rows \in [RowIds -> Row]
    BY DEF TypeInv, Locals, Snapshots
  <1>2. remainder \in Int
    <2>1. payment[p].amount \in Nat
      BY <1>1, PaymentAssumption DEF TypeInv, DatabaseTyped
    <2>2. AllocatedOf(snap.rows, p) \in Int
      BY <1>1, AllocatedTyped
    <2> QED  BY <2>1, <2>2
  <1>3. ASSUME NEW i \in Invoices PROVE balance(i) \in Int
    <2>1. AllocatedTo(snap.rows, i) \in Int
      BY <1>1, AllocatedTyped
    <2>2. Total[i] \in Nat
      BY PaymentAssumption
    <2> QED  BY <2>1, <2>2
  <1>4. \A i \in open : i \in Invoices /\ balance(i) \in Nat \ {0}
    BY <1>3
  <1>5. ASSUME NEW i \in to PROVE before(i) \in Nat
    <2> DEFINE S == {k \in open : k < i}
               f == [j \in S |-> balance(j)]
    <2>1. IsFiniteSet(S)
      BY PaymentAssumption, FS_Subset, <1>4
    <2>2. DOMAIN f = S /\ \A x \in S : f[x] \in Nat
      BY <1>4
    <2> HIDE DEF S, f
    <2>3. SumOver(f) \in Nat
      BY <2>1, <2>2, SumType
    <2> QED  BY <2>3 DEF S, f
  <1>6. PICK plan : plan = [i \in to |-> Min({balance(i), remainder - before(i)})]
    OBVIOUS
  <1>7. plan = Waterfall(r, chosen)
    BY <1>6 DEF Waterfall
  <1>8. ASSUME NEW i \in to
        PROVE  i \in Invoices /\ plan[i] \in Nat \ {0}
    <2>1. plan[i] = Min({balance(i), remainder - before(i)})
      BY <1>6
    <2>2. PICK a, b, c : a = balance(i) /\ b = remainder /\ c = before(i)
      OBVIOUS
    <2>3. a \in Nat \ {0} /\ b \in Int /\ c \in Nat /\ c < b
      BY <1>2, <1>4, <1>5, <2>2
    <2>4. plan[i] \in {a, b - c}
      BY <2>1, <2>2, <2>3, MinIsOne
    <2>5. b - c \in Nat \ {0}
      BY <2>3
    <2> QED  BY <1>4, <2>3, <2>4, <2>5
  <1>9. DOMAIN plan = to
    BY <1>6
  <1> QED  BY <1>7, <1>8, <1>9 DEF PlanTyped


(* A step that writes: the database it leaves and the request it ends or   *)
(* sends on to its refresh.                                                *)
LEMMA DoneTyped ==
    ASSUME TypeInv, NEW r \in Requests, Done(r), DatabaseTyped'
    PROVE  TypeInv'
  BY IdleTyped, TypedStep DEF Done

LEMMA RefreshNextTyped ==
    ASSUME TypeInv, NEW r \in Requests, NEW l,
           l = [req[r] EXCEPT !.pc = "refresh", !.snap = NoSnap]
           \/ l = [req[r] EXCEPT !.pc = "refresh", !.flag = FALSE, !.held = {},
                                  !.snap = NoSnap],
           Continue(r, l), DatabaseTyped'
    PROVE  TypeInv'
  <1>1. LocalTyped(req[r]) /\ req[r] \in Locals
    BY DEF TypeInv
  <1>2. CASE l = [req[r] EXCEPT !.pc = "refresh", !.snap = NoSnap]
    <2>1. l \in Locals /\ l.op = req[r].op /\ l.amt = req[r].amt
      BY <1>1, <1>2, NoSnapTyped DEF Locals, PCs
    <2> QED  BY <1>1, <2>1, TypedStep DEF LocalTyped
  <1>3. CASE l = [req[r] EXCEPT !.pc = "refresh", !.flag = FALSE, !.held = {},
                                !.snap = NoSnap]
    <2>1. l \in Locals /\ l.op = req[r].op /\ l.amt = req[r].amt
      BY <1>1, <1>3, NoSnapTyped DEF Locals, PCs
    <2> QED  BY <1>1, <2>1, TypedStep DEF LocalTyped
  <1> QED  BY <1>2, <1>3

LEMMA RefreshWriteTyped ==
    ASSUME TypeInv, NEW r \in Requests, RefreshWrite(r)
    PROVE  TypeInv'
  <1>1. req[r] \in Locals /\ LocalTyped(req[r])
    BY DEF TypeInv
  <1>2. invoice' \in [Invoices -> InvoiceStatuses]
    <2>1. req[r].inv \in Invoices /\ req[r].flag \in BOOLEAN
      BY <1>1 DEF Locals
    <2>2. invoice \in [Invoices -> InvoiceStatuses]
      BY DEF TypeInv, DatabaseTyped
    <2>3. RefreshedStatus(invoice[req[r].inv], req[r].flag) \in InvoiceStatuses
      BY <2>1, <2>2, RefreshedTyped
    <2>4. invoice' = [invoice EXCEPT ![req[r].inv] =
                        RefreshedStatus(invoice[req[r].inv], req[r].flag)]
      BY DEF RefreshWrite
    <2> QED  BY <2>1, <2>2, <2>3, <2>4
  <1>3. DatabaseTyped'
    BY <1>2 DEF RefreshWrite, TypeInv, DatabaseTyped
  <1>4. CASE Done(r)
    BY <1>3, <1>4, DoneTyped
  <1>5. CASE ~Done(r)
    <2>1. PICK l : l = [req[r] EXCEPT !.pc = "refresh", !.flag = FALSE,
                                      !.inv = req[r].to]
      OBVIOUS
    <2>2. LocalTyped(l)
      BY <1>1, <2>1 DEF Locals, LocalTyped, PCs
    <2> QED  BY <1>3, <1>5, <2>1, <2>2, TypedStep DEF RefreshWrite
  <1> QED  BY <1>4, <1>5

LEMMA SettleTyped ==
    ASSUME TypeInv, NEW r \in Requests, SettleTerminal(r) \/ Release(r)
    PROVE  TypeInv'
  <1>1. req[r] \in Locals /\ LocalTyped(req[r])
    BY DEF TypeInv
  <1>2. CASE SettleTerminal(r)
    <2>1. invoice' \in [Invoices -> InvoiceStatuses]
      BY <1>2 DEF SettleTerminal, TypeInv, DatabaseTyped, InvoiceStatuses, Terminal
    <2>2. DatabaseTyped'
      BY <1>2, <2>1 DEF SettleTerminal, TypeInv, DatabaseTyped
    <2>3. PICK l : l = [req[r] EXCEPT !.pc = "releasing"]
      OBVIOUS
    <2>4. LocalTyped(l)
      BY <1>1, <2>3 DEF Locals, LocalTyped, PCs
    <2> QED  BY <1>2, <2>2, <2>3, <2>4, DoneTyped, TypedStep DEF SettleTerminal, Goto
  <1>3. CASE Release(r)
    <2>1. PICK ids : ids = LiveOnInvoice(rows, req[r].inv)
      OBVIOUS
    <2>2. \A k \in ids : k \in RowIds /\ rows[k].state # "unused"
      BY <2>1 DEF LiveOnInvoice
    <2>3. rows' = SoftDeleted(rows, ids)
      BY <1>3, <2>1 DEF Release
    <2>4. rows' \in [RowIds -> Row]
      BY <2>2, <2>3, SoftDeletedTyped DEF TypeInv, DatabaseTyped
    <2>5. DatabaseTyped'
      BY <1>3, <2>4 DEF Release, TypeInv, DatabaseTyped
    <2> QED  BY <1>3, <2>5, DoneTyped DEF Release
  <1> QED  BY <1>2, <1>3

(* applyAllocation *)
LEMMA ApplyTyped ==
    ASSUME TypeInv, NEW r \in Requests, NEW plan, PlanTyped(plan), Apply(r, plan),
           Done(r), UNCHANGED <<payment, credit, cfdi, revived>>
    PROVE  TypeInv'
  <1>1. req[r].pay \in Payments
    BY DEF TypeInv, Locals
  <1>2. PICK at \in Placements(plan) :
          /\ rows' = Inserted(req[r].pay, plan, at)
          /\ \E view : invoice' = Finalized(plan, view)
    BY DEF Apply
  <1>3. rows' \in [RowIds -> Row]
    BY <1>1, <1>2, InsertedTyped DEF TypeInv
  <1>4. invoice' \in [Invoices -> InvoiceStatuses]
    BY <1>2 DEF Finalized, TypeInv, DatabaseTyped, InvoiceStatuses
  <1>5. DatabaseTyped'
    BY <1>3, <1>4 DEF TypeInv, DatabaseTyped
  <1> QED  BY <1>5, DoneTyped

LEMMA AllocateTyped ==
    ASSUME TypeInv, NEW r \in Requests, CommitAllocate(r) \/ CommitAuto(r)
    PROVE  TypeInv'
  <1>1. req[r] \in Locals /\ LocalTyped(req[r])
    BY DEF TypeInv
  <1>2. CASE CommitAllocate(r)
    <2>1. PICK plan : plan = [x \in {req[r].inv} |-> req[r].amt]
      OBVIOUS
    <2>2. req[r].inv \in Invoices /\ req[r].amt \in Int
      BY <1>1, <1>2, PaymentAssumption DEF Locals, LocalTyped, CommitAllocate
    <2>3. PlanTyped(plan)
      BY <2>1, <2>2 DEF PlanTyped
    <2>4. Apply(r, plan)
      BY <1>2, <2>1 DEF CommitAllocate
    <2> QED  BY <1>2, <2>3, <2>4, ApplyTyped DEF CommitAllocate
  <1>3. CASE CommitAuto(r)
    <2>1. PICK chosen \in SUBSET Invoices : Apply(r, Waterfall(r, chosen))
      BY <1>3 DEF CommitAuto
    <2>2. PlanTyped(Waterfall(r, chosen))
      BY WaterfallTyped
    <2> QED  BY <1>3, <2>1, <2>2, ApplyTyped DEF CommitAuto
  <1> QED  BY <1>2, <1>3


LEMMA ReallocateTyped ==
    ASSUME TypeInv, NEW r \in Requests, CommitReallocate(r)
    PROVE  TypeInv'
  <1>1. /\ req[r].pay \in Payments /\ req[r].to \in Invoices /\ req[r].amt \in Int
        /\ req[r].snap.rows \in [RowIds -> Row]
    BY DEF TypeInv, Locals, Snapshots
  <1>2. PICK old : old = RowOf(req[r].snap, req[r].pay, req[r].inv)
    OBVIOUS
  <1>3. PICK gone : gone = {k \in old : rows[k].state = "live"}
    OBVIOUS
  <1>4. PICK plan : plan = [i \in {req[r].to} |->
                              IF req[r].flag THEN req[r].snap.rows[Min(old)].amt
                                             ELSE req[r].amt]
    OBVIOUS
  <1>5. old # {} /\ \A k \in old : k \in RowIds
    BY <1>2 DEF CommitReallocate, RowOf, LiveOfPayment
  <1>6. PlanTyped(plan)
    <2>1. Min(old) \in old
      BY <1>5, MinIsOne, RowIdsFinite
    <2>2. req[r].snap.rows[Min(old)].amt \in Int
      BY <1>1, <1>5, <2>1 DEF Row
    <2>3. plan[req[r].to] \in Int /\ DOMAIN plan = {req[r].to}
      BY <1>1, <1>4, <2>2
    <2> QED  BY <1>1, <2>3 DEF PlanTyped
  <1>7. PICK at \in Placements(plan) :
          rows' = SoftDeleted(Inserted(req[r].pay, plan, at), gone)
    BY <1>2, <1>3, <1>4 DEF CommitReallocate
  <1>8. PICK mid : mid = Inserted(req[r].pay, plan, at)
    OBVIOUS
  <1>9. mid \in [RowIds -> Row]
    BY <1>1, <1>6, <1>8, InsertedTyped DEF TypeInv
  <1>10. \A k \in gone : k \in RowIds /\ mid[k].state # "unused"
    BY <1>3, <1>5, <1>8 DEF Inserted, NewIds
  <1>11. rows' \in [RowIds -> Row]
    BY <1>7, <1>8, <1>9, <1>10, SoftDeletedTyped
  <1>12. DatabaseTyped'
    BY <1>11 DEF CommitReallocate, TypeInv, DatabaseTyped
  <1> QED  BY <1>12, RefreshNextTyped DEF CommitReallocate

LEMMA UnapplyTyped ==
    ASSUME TypeInv, IInv, NEW r \in Requests, CommitUnapply(r)
    PROVE  TypeInv'
  <1>1. PICK ids : ids = RowOf(req[r].snap, req[r].pay, req[r].inv)
    OBVIOUS
  <1>2. \A k \in ids : k \in RowIds /\ rows[k].state # "unused"
    BY <1>1 DEF CommitUnapply, IInv, LocalOK, UnapplyRows, RowOf, LiveOfPayment
  <1>3. rows' \in [RowIds -> Row]
    BY <1>1, <1>2, SoftDeletedTyped DEF CommitUnapply, TypeInv, DatabaseTyped
  <1>4. DatabaseTyped'
    BY <1>3 DEF CommitUnapply, TypeInv, DatabaseTyped
  <1> QED  BY <1>4, RefreshNextTyped DEF CommitUnapply

LEMMA EditTyped ==
    ASSUME TypeInv, NEW r \in Requests, CommitReassign(r) \/ CommitUpdate(r)
    PROVE  TypeInv'
  <1> DEFINE p == req[r].pay
  <1>1. /\ p \in Payments /\ req[r].client \in Clients /\ req[r].amt \in Amounts
        /\ req[r].flag \in BOOLEAN
    BY DEF TypeInv, LocalTyped, Locals, CommitReassign, CommitUpdate
  <1>2. /\ payment \in [Payments -> [deleted : BOOLEAN, completed : BOOLEAN,
                                     amount : Amounts, client : Clients]]
        /\ credit \in [Payments -> SUBSET [client : Clients, amount : Amounts]]
    BY DEF TypeInv, DatabaseTyped
  <1>3. payment' \in [Payments -> [deleted : BOOLEAN, completed : BOOLEAN,
                                   amount : Amounts, client : Clients]]
    <2>1. CASE CommitReassign(r)
      BY <1>1, <1>2, <2>1 DEF CommitReassign
    <2>2. CASE CommitUpdate(r)
      BY <1>1, <1>2, <2>2 DEF CommitUpdate
    <2> QED  BY <2>1, <2>2
  <1>4. credit' \in [Payments -> SUBSET [client : Clients, amount : Amounts]]
    <2>1. CASE CommitReassign(r)
      BY <1>1, <1>2, <2>1 DEF CommitReassign
    <2>2. CASE CommitUpdate(r)
      <3>1. payment[p].client \in Clients
        BY <1>1, <1>2
      <3>2. PICK entry : entry = IF req[r].flag
                                   THEN {[client |-> payment[p].client,
                                          amount |-> req[r].amt]}
                                   ELSE {}
        OBVIOUS
      <3>3. entry \in SUBSET [client : Clients, amount : Amounts]
        BY <1>1, <3>1, <3>2
      <3>4. credit' = credit \/ credit' = [credit EXCEPT ![p] = entry]
        BY <2>2, <3>2 DEF CommitUpdate
      <3> QED  BY <1>2, <3>3, <3>4
    <2> QED  BY <2>1, <2>2
  <1>5. DatabaseTyped'
    BY <1>3, <1>4 DEF CommitReassign, CommitUpdate, TypeInv, DatabaseTyped
  <1> QED  BY <1>5, DoneTyped DEF CommitReassign, CommitUpdate

(* Refreshed inside the transaction. *)
LEMMA TouchedTyped ==
    ASSUME TypeInv, NEW r, NEW touched, NEW view, RefreshTouched(r, touched, view)
    PROVE  invoice' \in [Invoices -> InvoiceStatuses]
  <1>1. \A i \in Invoices : Covered(view, i) \in BOOLEAN
    BY DEF Covered
  <1>2. \A i \in Invoices : invoice[i] \in InvoiceStatuses
    BY DEF TypeInv, DatabaseTyped
  <1>3. \A i \in Invoices : RefreshedStatus(invoice[i], Covered(view, i)) \in InvoiceStatuses
    BY <1>1, <1>2, RefreshedTyped
  <1> QED  BY <1>2, <1>3 DEF RefreshTouched

LEMMA DeleteTyped ==
    ASSUME TypeInv, NEW r \in Requests, CommitDelete(r)
    PROVE  TypeInv'
  <1>1. req[r].pay \in Payments
    BY DEF TypeInv, Locals
  <1>2. PICK ids : /\ ids = {} \/ ids = LiveOfPayment(rows, req[r].pay)
                   /\ rows' = SoftDeleted(rows, ids)
    BY DEF CommitDelete
  <1>3. \A k \in ids : k \in RowIds /\ rows[k].state # "unused"
    BY <1>2 DEF LiveOfPayment
  <1>4. rows' \in [RowIds -> Row]
    BY <1>2, <1>3, SoftDeletedTyped DEF TypeInv, DatabaseTyped
  <1>5. invoice' \in [Invoices -> InvoiceStatuses]
    BY TouchedTyped DEF CommitDelete
  <1>6. /\ payment' \in [Payments -> [deleted : BOOLEAN, completed : BOOLEAN,
                                      amount : Amounts, client : Clients]]
        /\ credit' \in [Payments -> SUBSET [client : Clients, amount : Amounts]]
    BY <1>1 DEF CommitDelete, TypeInv, DatabaseTyped
  <1>7. DatabaseTyped'
    BY <1>4, <1>5, <1>6 DEF CommitDelete, TypeInv, DatabaseTyped
  <1> QED  BY <1>7, DoneTyped DEF CommitDelete

LEMMA RestoreTyped ==
    ASSUME TypeInv, NEW r \in Requests, CommitRestore(r)
    PROVE  TypeInv'
  <1> DEFINE p == req[r].pay
  <1>1. p \in Payments /\ req[r].snap.rows \in [RowIds -> Row]
    BY DEF TypeInv, Locals, Snapshots
  <1>2. PICK ids : /\ ids \in SUBSET {k \in RowIds : rows[k].state = "deleted"}
                   /\ rows' = [k \in RowIds |-> IF k \in ids
                                                  THEN [rows[k] EXCEPT !.state = "live"]
                                                  ELSE rows[k]]
    <2>1. PICK seen : seen = {k \in RowIds : /\ req[r].snap.rows[k].state = "deleted"
                                             /\ req[r].snap.rows[k].pay = p}
      OBVIOUS
    <2>2. PICK ids : ids = IF seen = {} THEN {}
                           ELSE {k \in RowIds : rows[k].state = "deleted" /\ rows[k].pay = p}
      OBVIOUS
    <2>3. rows' = [k \in RowIds |-> IF k \in ids THEN [rows[k] EXCEPT !.state = "live"]
                                                 ELSE rows[k]]
      BY <2>1, <2>2 DEF CommitRestore
    <2>4. ids \in SUBSET {k \in RowIds : rows[k].state = "deleted"}
      BY <2>2
    <2> QED  BY <2>3, <2>4
  <1>3. ASSUME NEW k \in RowIds
        PROVE  rows'[k] \in Row
    <2>1. rows[k] \in Row
      BY DEF TypeInv, DatabaseTyped
    <2>2. CASE k \in ids
      BY <1>2, <2>1, <2>2 DEF Row
    <2>3. CASE k \notin ids
      BY <1>2, <2>1, <2>3
    <2> QED  BY <2>2, <2>3
  <1>4. rows' \in [RowIds -> Row]
    BY <1>2, <1>3
  <1>5. invoice' \in [Invoices -> InvoiceStatuses]
    BY TouchedTyped DEF CommitRestore
  <1>6. revived' \subseteq Invoices
    <2>1. PICK seen \in SUBSET RowIds :
            revived' = revived \cup {req[r].snap.rows[k].inv : k \in seen}
      BY DEF CommitRestore
    <2>2. \A k \in seen : req[r].snap.rows[k].inv \in Invoices
      BY <1>1 DEF Row
    <2> QED  BY <2>1, <2>2 DEF TypeInv, DatabaseTyped
  <1>7. payment' \in [Payments -> [deleted : BOOLEAN, completed : BOOLEAN,
                                   amount : Amounts, client : Clients]]
    <2>1. payment' = [payment EXCEPT ![p].deleted = FALSE]
      BY DEF CommitRestore
    <2>2. payment \in [Payments -> [deleted : BOOLEAN, completed : BOOLEAN,
                                    amount : Amounts, client : Clients]]
      BY DEF TypeInv, DatabaseTyped
    <2> QED  BY <1>1, <2>1, <2>2
  <1>8. credit' \in [Payments -> SUBSET [client : Clients, amount : Amounts]]
    <2>1. PICK c \in Clients, a \in Amounts : c = payment[p].client /\ a = payment[p].amount
      BY <1>1 DEF TypeInv, DatabaseTyped
    <2>2. credit' = [credit EXCEPT ![p] = {[client |-> c, amount |-> a]}]
      BY <2>1 DEF CommitRestore
    <2> QED  BY <1>1, <2>2 DEF TypeInv, DatabaseTyped
  <1>9. DatabaseTyped'
    BY <1>4, <1>5, <1>6, <1>7, <1>8 DEF CommitRestore, TypeInv, DatabaseTyped
  <1> QED  BY <1>9, DoneTyped DEF CommitRestore

(* Every step of every request keeps the types. *)
LEMMA NextTypeInv == IInv /\ TypeInv /\ [Next]_vars => TypeInv'
  <1> SUFFICES ASSUME IInv, TypeInv, [Next]_vars PROVE TypeInv'
    OBVIOUS
  <1>1. CASE UNCHANGED vars
    BY <1>1 DEF vars, TypeInv, DatabaseTyped, LocalTyped
  <1>2. ASSUME NEW r \in Requests,
               \/ Begin(r) \/ LockNext(r) \/ ReadSnapshot(r) \/ Commit(r)
               \/ RefreshRead(r) \/ RefreshWrite(r)
               \/ Settle(r) \/ Abandon(r)
        PROVE  TypeInv'
    <2>1. CASE Begin(r)
      BY <2>1, BeginTyped
    <2>2. CASE LockNext(r) \/ ReadSnapshot(r) \/ RefreshRead(r) \/ Abandon(r)
      BY <2>2, GoesOnTyped
    <2>3. CASE Commit(r)
      BY <2>3, AllocateTyped, ReallocateTyped, UnapplyTyped, EditTyped, DeleteTyped,
         RestoreTyped DEF Commit
    <2>4. CASE RefreshWrite(r)
      BY <2>4, RefreshWriteTyped
    <2>5. CASE Settle(r)
      BY <2>5, GoesOnTyped, SettleTyped DEF Settle
    <2> QED  BY <1>2, <2>1, <2>2, <2>3, <2>4, <2>5
  <1> QED  BY <1>1, <1>2 DEF Next

LEMMA TypesHold == Spec => []TypeInv
  BY InitTypeInv, NextTypeInv, Invariance, PTL DEF Spec

(* Every row, payment, credit and invoice stays what its column holds:     *)
(* an invoice has only the statuses of its ENUM column, whatever amounts,  *)
(* negative ones too, the allocations have.                                *)
THEOREM PaymentsTyped == Spec => []TypeOK
  BY TypesHold, TypeInvGives, PTL


----------------------------------------------------------------------------
(* What each commit does to a row *)

StepOf(r) ==
    \/ Begin(r) \/ LockNext(r) \/ ReadSnapshot(r) \/ Commit(r)
    \/ RefreshRead(r) \/ RefreshWrite(r)
    \/ Settle(r) \/ Abandon(r)

(* The steps that write no allocation. *)
LEMMA RowsStay ==
    ASSUME NEW r \in Requests,
           \/ Begin(r) \/ LockNext(r) \/ ReadSnapshot(r) \/ RefreshRead(r)
           \/ RefreshWrite(r) \/ Abandon(r) \/ ReadExisting(r) \/ SettleTerminal(r)
           \/ CommitReassign(r) \/ CommitUpdate(r)
    PROVE  rows' = rows
  <1>1. CASE Begin(r)
    BY <1>1 DEF Begin, BeginAllocate, BeginAuto, BeginDelete, BeginRestore, BeginReallocate,
       BeginUnapply, BeginReassign, BeginUpdate, CheckVoid, AcceptCancellation, database
  <1>2. CASE ~Begin(r)
    BY <1>2 DEF LockNext, ReadSnapshot, RefreshRead, RefreshWrite, Abandon, ReadExisting,
       SettleTerminal, CommitReassign, CommitUpdate, database
  <1> QED  BY <1>1, <1>2

(* It is inserted on an invoice of is, soft-deleted, or restored.          *)
Put(k, is) ==
    /\ rows[k].state = "unused"
    /\ rows'[k].state = "live" /\ rows'[k].inv \in is

Dropped(k) ==
    rows[k].state = "live" /\ rows'[k] = [rows[k] EXCEPT !.state = "deleted"]

Back(k) ==
    rows[k].state = "deleted" /\ rows'[k] = [rows[k] EXCEPT !.state = "live"]

LEMMA RowFields ==
    ASSUME TypeInv, NEW k \in RowIds
    PROVE  /\ Dropped(k) => rows'[k].state = "deleted"
           /\ Back(k) => rows'[k].inv = rows[k].inv
  <1>1. rows[k] \in Row
    BY DEF TypeInv, DatabaseTyped
  <1> QED  BY <1>1 DEF Dropped, Back, Row

LEMMA ApplyRows ==
    ASSUME IInv, NEW r \in Requests, NEW plan, Apply(r, plan)
    PROVE  \A k \in RowIds : rows'[k] = rows[k] \/ Put(k, DOMAIN plan)
  <1>1. PICK at \in Placements(plan) : rows' = Inserted(req[r].pay, plan, at)
    BY DEF Apply
  <1> QED  BY <1>1, Inserts DEF Put

LEMMA DropRows ==
    ASSUME IInv, NEW ids, \A k \in ids : k \in RowIds /\ rows[k].state # "unused",
           rows' = SoftDeleted(rows, ids)
    PROVE  \A k \in RowIds : \/ rows'[k] = rows[k]
                             \/ k \in ids /\ Dropped(k)
  <1>1. RowsShape(rows)
    BY DEF IInv
  <1> QED  BY <1>1, Deleting DEF Dropped

LEMMA UnapplyDrops ==
    ASSUME IInv, NEW r \in Requests, CommitUnapply(r)
    PROVE  \A k \in RowIds :
             \/ rows'[k] = rows[k]
             \/ k \in RowOf(req[r].snap, req[r].pay, req[r].inv) /\ Dropped(k)
  <1>1. PICK ids : ids = RowOf(req[r].snap, req[r].pay, req[r].inv)
    OBVIOUS
  <1>2. \A k \in ids : k \in RowIds /\ rows[k].state # "unused"
    BY <1>1 DEF CommitUnapply, IInv, LocalOK, UnapplyRows, RowOf, LiveOfPayment
  <1> QED  BY <1>1, <1>2, DropRows DEF CommitUnapply

LEMMA ReallocateRows ==
    ASSUME IInv, NEW r \in Requests, CommitReallocate(r)
    PROVE  \A k \in RowIds :
             \/ rows'[k] = rows[k]
             \/ Put(k, {req[r].to})
             \/ k \in RowOf(req[r].snap, req[r].pay, req[r].inv) /\ Dropped(k)
  <1>1. PICK gone : gone = {k \in RowOf(req[r].snap, req[r].pay, req[r].inv) :
                               rows[k].state = "live"}
    OBVIOUS
  <1>2. PICK plan : plan = [i \in {req[r].to} |->
                              IF req[r].flag
                                THEN req[r].snap.rows[Min(RowOf(req[r].snap, req[r].pay, req[r].inv))].amt
                                ELSE req[r].amt]
    OBVIOUS
  <1>3. PICK at \in Placements(plan) :
          rows' = SoftDeleted(Inserted(req[r].pay, plan, at), gone)
    BY <1>1, <1>2 DEF CommitReallocate
  <1>4. PICK mid : mid = Inserted(req[r].pay, plan, at)
    OBVIOUS
  <1>5. /\ RowsShape(mid)
        /\ \A k \in RowIds :
             \/ mid[k] = rows[k]
             \/ /\ rows[k].state = "unused" /\ mid[k].state = "live"
                /\ mid[k].inv \in DOMAIN plan
    BY <1>4, Inserts
  <1>6. \A k \in gone : k \in RowIds /\ rows[k].state = "live" /\ mid[k] = rows[k]
    BY <1>1, <1>5 DEF RowOf, LiveOfPayment
  <1>7. \A k \in RowIds :
          \/ rows'[k] = mid[k]
          \/ /\ mid[k].state = "live" /\ k \in gone
             /\ rows'[k] = [mid[k] EXCEPT !.state = "deleted"]
    BY <1>3, <1>4, <1>5, <1>6, Deleting
  <1>8. ASSUME NEW k \in RowIds
        PROVE  \/ rows'[k] = rows[k]
               \/ Put(k, {req[r].to})
               \/ k \in gone /\ Dropped(k)
    <2>1. CASE k \in gone
      BY <1>6, <1>7, <2>1 DEF Dropped
    <2>2. CASE k \notin gone
      <3>1. rows'[k] = mid[k]
        BY <1>7, <2>2
      <3>2. DOMAIN plan = {req[r].to}
        BY <1>2
      <3> QED  BY <1>5, <3>1, <3>2 DEF Put
    <2> QED  BY <2>1, <2>2
  <1> QED  BY <1>1, <1>8

LEMMA DeleteDrops ==
    ASSUME IInv, NEW r \in Requests, CommitDelete(r)
    PROVE  \A k \in RowIds :
             rows'[k] = rows[k] \/ (rows[k].pay = req[r].pay /\ Dropped(k))
  <1>1. PICK ids : /\ ids = {} \/ ids = LiveOfPayment(rows, req[r].pay)
                   /\ rows' = SoftDeleted(rows, ids)
    BY DEF CommitDelete
  <1>2. \A k \in ids : /\ k \in RowIds /\ rows[k].state # "unused"
                       /\ rows[k].pay = req[r].pay
    BY <1>1 DEF LiveOfPayment
  <1> QED  BY <1>1, <1>2, DropRows

LEMMA ReleaseDrops ==
    ASSUME IInv, NEW r \in Requests, Release(r)
    PROVE  \A k \in RowIds :
             rows'[k] = rows[k] \/ (rows[k].inv = req[r].inv /\ Dropped(k))
  <1>1. PICK ids : /\ ids = LiveOnInvoice(rows, req[r].inv)
                   /\ rows' = SoftDeleted(rows, ids)
    BY DEF Release
  <1>2. \A k \in ids : /\ k \in RowIds /\ rows[k].state # "unused"
                       /\ rows[k].inv = req[r].inv
    BY <1>1 DEF LiveOnInvoice
  <1> QED  BY <1>1, <1>2, DropRows

(* A restore sees all the rows it brings back, so their invoices are       *)
(* among those it counts as revived.                                       *)
LEMMA RestoreBrings ==
    ASSUME IInv, NEW r \in Requests, CommitRestore(r)
    PROVE  \A k \in RowIds :
             rows'[k] = rows[k] \/ (rows[k].inv \in revived' /\ Back(k))
  <1>0. req[r].pc = "read" /\ req[r].op = "restore"
    BY DEF CommitRestore
  <1>1. PICK seen : seen = {k \in RowIds : /\ req[r].snap.rows[k].state = "deleted"
                                           /\ req[r].snap.rows[k].pay = req[r].pay}
    OBVIOUS
  <1>2. PICK ids : ids = IF seen = {} THEN {}
                         ELSE {k \in RowIds : rows[k].state = "deleted" /\ rows[k].pay = req[r].pay}
    OBVIOUS
  <1>3. /\ rows' = [k \in RowIds |-> IF k \in ids THEN [rows[k] EXCEPT !.state = "live"]
                                                  ELSE rows[k]]
        /\ revived' = revived \cup {req[r].snap.rows[k].inv : k \in seen}
    BY <1>1, <1>2 DEF CommitRestore
  <1>4. ASSUME NEW k \in ids, k \in RowIds
        PROVE  rows[k].inv \in revived' /\ Back(k)
    <2>1. rows[k].state = "deleted" /\ rows[k].pay = req[r].pay
      BY <1>2, <1>4
    <2>2. req[r].snap.rows[k] = rows[k]
      BY <1>0, <1>4, <2>1 DEF IInv, LocalOK, RestoreRows
    <2>3. k \in seen
      BY <1>1, <1>4, <2>1, <2>2
    <2> QED  BY <1>3, <1>4, <2>1, <2>2, <2>3 DEF Back
  <1> QED  BY <1>3, <1>4

(* A row once in use stays in use, with its payment, invoice and amount.   *)
Kept(rs, qs) ==
    \A k \in RowIds : rs[k].state # "unused" =>
        /\ qs[k].state # "unused"
        /\ qs[k].pay = rs[k].pay /\ qs[k].inv = rs[k].inv /\ qs[k].amt = rs[k].amt

LEMMA RowsKept ==
    ASSUME IInv, NEW r \in Requests, StepOf(r)
    PROVE  Kept(rows, rows')
  <1>0. \A k \in RowIds : rows[k] = [state |-> rows[k].state, pay |-> rows[k].pay,
                                     inv |-> rows[k].inv, amt |-> rows[k].amt]
    BY DEF IInv, RowsShape
  <1>1. ASSUME \A k \in RowIds : \/ rows'[k] = rows[k]
                                 \/ rows[k].state = "unused"
                                 \/ Dropped(k) \/ Back(k)
        PROVE  Kept(rows, rows')
    <2>1. ASSUME NEW k \in RowIds, rows[k].state # "unused"
          PROVE  /\ rows'[k].state # "unused"
                 /\ rows'[k].pay = rows[k].pay /\ rows'[k].inv = rows[k].inv
                 /\ rows'[k].amt = rows[k].amt
      BY <1>0, <1>1, <2>1 DEF Dropped, Back
    <2> QED  BY <2>1 DEF Kept
  <1>2. CASE rows' = rows
    BY <1>1, <1>2
  <1>3. CASE CommitAllocate(r) \/ CommitAuto(r)
    <2>1. PICK plan : Apply(r, plan)
      BY <1>3 DEF CommitAllocate, CommitAuto
    <2> QED  BY <1>1, <2>1, ApplyRows DEF Put
  <1>4. CASE CommitReallocate(r)
    BY <1>1, <1>4, ReallocateRows DEF Put
  <1>5. CASE CommitUnapply(r)
    BY <1>1, <1>5, UnapplyDrops
  <1>6. CASE CommitDelete(r)
    BY <1>1, <1>6, DeleteDrops
  <1>7. CASE CommitRestore(r)
    BY <1>1, <1>7, RestoreBrings
  <1>8. CASE Release(r)
    BY <1>1, <1>8, ReleaseDrops
  <1> QED  BY <1>2, <1>3, <1>4, <1>5, <1>6, <1>7, <1>8, RowsStay DEF StepOf, Commit, Settle

----------------------------------------------------------------------------
(* What a snapshot says of the rows *)

(* A request that is past its first read after its step reads now, or had  *)
(* no need to read; no row changes then.                                   *)
Reads(l) ==
    l.pc = "read" => /\ rows' = rows /\ revived' = revived
                     /\ l.snap \in {Snapshot, NoSnap}

ReaderMoved(r) == \E l : req' = [req EXCEPT ![r] = l] /\ Reads(l)

LEMMA BeginsReading ==
    ASSUME NEW r \in Requests, Begin(r)
    PROVE  ReaderMoved(r)
  <1>0. Idle \in Locals
    BY IdleTyped DEF LocalTyped
  <1>1. ASSUME NEW l, Start(r, l), l.pc # "read"
        PROVE  ReaderMoved(r)
    BY <1>1 DEF ReaderMoved, Reads, Start
  <1>2. ASSUME NEW l, Start(r, l), l.snap \in {Snapshot, NoSnap}, UNCHANGED database
        PROVE  ReaderMoved(r)
    BY <1>2 DEF ReaderMoved, Reads, Start, database
  <1>3. ASSUME NEW op \in Ops, NEW pc \in PCs \ {"read"}, NEW p \in Payments,
               Start(r, [Idle EXCEPT !.op = op, !.pc = pc, !.pay = p])
        PROVE  ReaderMoved(r)
    <2>1. PICK l : l = [Idle EXCEPT !.op = op, !.pc = pc, !.pay = p]
      OBVIOUS
    <2>2. l.pc = pc
      BY <1>0, <2>1 DEF Locals
    <2> QED  BY <1>1, <1>3, <2>1, <2>2
  <1>4. ASSUME NEW p \in Payments, NEW amt, NEW completed,
               BeginUpdate(r, p, amt, completed)
        PROVE  ReaderMoved(r)
    <2>1. PICK l : l = [Idle EXCEPT !.op = "update", !.pc = "locked", !.pay = p,
                                    !.amt = amt, !.flag = completed]
      OBVIOUS
    <2>2. l.pc = "locked"
      BY <1>0, <2>1 DEF Locals
    <2> QED  BY <1>1, <1>4, <2>1, <2>2 DEF BeginUpdate
  <1>5. ASSUME NEW p \in Payments, NEW i \in Invoices, BeginUnapply(r, p, i)
        PROVE  ReaderMoved(r)
    <2>1. PICK l : l = [Idle EXCEPT !.op = "unapply", !.pc = "read", !.pay = p,
                                    !.inv = i, !.to = i, !.snap = Snapshot]
      OBVIOUS
    <2>2. l.snap = Snapshot
      BY <1>0, <2>1 DEF Locals
    <2> QED  BY <1>2, <1>5, <2>1, <2>2 DEF BeginUnapply
  <1>6. ASSUME NEW p \in Payments, NEW c \in Clients, BeginReassign(r, p, c)
        PROVE  ReaderMoved(r)
    <2>1. PICK l : l = [Idle EXCEPT !.op = "reassign", !.pc = "read", !.pay = p,
                                    !.client = c, !.amt = payment[p].amount]
      OBVIOUS
    <2>2. l.snap = NoSnap
      BY <2>1 DEF Idle
    <2>3. Start(r, l) /\ UNCHANGED database
      BY <1>6, <2>1 DEF BeginReassign
    <2> QED  BY <1>2, <2>2, <2>3
  <1>7. ASSUME NEW i \in Invoices, CheckVoid(r, i) \/ AcceptCancellation(r, i)
        PROVE  ReaderMoved(r)
    <2>1. PICK op \in {"void", "cancel"} :
            Start(r, [Idle EXCEPT !.op = op, !.pc = "checked", !.inv = i])
      BY <1>7 DEF CheckVoid, AcceptCancellation
    <2>2. PICK l : l = [Idle EXCEPT !.op = op, !.pc = "checked", !.inv = i]
      OBVIOUS
    <2>3. l.pc = "checked"
      BY <1>0, <2>2 DEF Locals
    <2> QED  BY <1>1, <2>1, <2>2, <2>3
  <1>8. ASSUME NEW p \in Payments, NEW i \in Invoices, NEW amt,
               BeginAllocate(r, p, i, amt)
        PROVE  ReaderMoved(r)
    <2>1. PICK l : l = [Idle EXCEPT !.op = "allocate", !.pc = "locking", !.pay = p,
                                    !.inv = i, !.to = i, !.amt = amt]
      OBVIOUS
    <2>2. l.pc = "locking"
      BY <1>0, <2>1 DEF Locals
    <2> QED  BY <1>1, <1>8, <2>1, <2>2 DEF BeginAllocate
  <1>9. ASSUME NEW p \in Payments, NEW i \in Invoices, NEW j \in Invoices, NEW amt,
                NEW whole, BeginReallocate(r, p, i, j, amt, whole)
         PROVE  ReaderMoved(r)
    <2>1. PICK l : l = [Idle EXCEPT !.op = "reallocate", !.pc = "locking", !.pay = p,
                                    !.inv = i, !.to = j, !.amt = amt, !.flag = whole]
      OBVIOUS
    <2>2. l.pc = "locking"
      BY <1>0, <2>1 DEF Locals
    <2> QED  BY <1>1, <1>9, <2>1, <2>2 DEF BeginReallocate
  <1>10. ASSUME NEW p \in Payments, BeginAuto(r, p) \/ BeginDelete(r, p) \/ BeginRestore(r, p)
         PROVE  ReaderMoved(r)
    BY <1>3, <1>10 DEF BeginAuto, BeginDelete, BeginRestore, Ops, PCs
  <1> QED  BY <1>4, <1>5, <1>6, <1>7, <1>8, <1>9, <1>10 DEF Begin

LEMMA ReadsOn ==
    ASSUME TypeInv, NEW r \in Requests, StepOf(r)
    PROVE  ReaderMoved(r)
  <1>0. req[r] \in Locals
    BY DEF TypeInv
  <1>1. ASSUME NEW l, Continue(r, l), l.pc # "read"
        PROVE  ReaderMoved(r)
    BY <1>1 DEF ReaderMoved, Reads, Continue
  <1>2. CASE Done(r)
    <2>1. PICK l : l = Idle
      OBVIOUS
    <2>2. l.pc = "idle"
      BY <2>1 DEF Idle
    <2> QED  BY <1>1, <1>2, <2>1, <2>2 DEF Done
  <1>3. CASE LockNext(r)
    <2>1. PICK l : /\ Continue(r, l)
                   /\ \/ l = [req[r] EXCEPT !.pc = "locked"]
                      \/ \E i : l = [req[r] EXCEPT !.held = @ \cup {i}]
      BY <1>3 DEF LockNext, Goto
    <2>2. req[r].pc = "locking"
      BY <1>3 DEF LockNext
    <2>3. l.pc \in {"locking", "locked"}
      BY <1>0, <2>1, <2>2 DEF Locals
    <2> QED  BY <1>1, <2>1, <2>3
  <1>4. CASE ReadSnapshot(r)
    <2>1. PICK l : l = [req[r] EXCEPT !.pc = "read", !.snap = Snapshot]
      OBVIOUS
    <2>2. /\ rows' = rows /\ revived' = revived
          /\ req' = [req EXCEPT ![r] = l]
      BY <1>4, <2>1 DEF ReadSnapshot, Continue, database
    <2>3. l.snap = Snapshot
      BY <1>0, <2>1 DEF Locals
    <2> QED  BY <2>2, <2>3 DEF ReaderMoved, Reads
  <1>5. CASE CommitReallocate(r)
    <2>1. PICK l : l = [req[r] EXCEPT !.pc = "refresh", !.flag = FALSE, !.held = {},
                                      !.snap = NoSnap]
      OBVIOUS
    <2>2. l.pc = "refresh"
      BY <1>0, <2>1 DEF Locals
    <2> QED  BY <1>1, <1>5, <2>1, <2>2 DEF CommitReallocate
  <1>6. CASE CommitUnapply(r)
    <2>1. PICK l : l = [req[r] EXCEPT !.pc = "refresh", !.snap = NoSnap]
      OBVIOUS
    <2>2. l.pc = "refresh"
      BY <1>0, <2>1 DEF Locals
    <2> QED  BY <1>1, <1>6, <2>1, <2>2 DEF CommitUnapply
  <1>7. CASE RefreshRead(r)
    <2>1. PICK l : l = [req[r] EXCEPT !.pc = "refreshing",
                                      !.flag = Covered(rows, req[r].inv)]
      OBVIOUS
    <2>2. l.pc = "refreshing"
      BY <1>0, <2>1 DEF Locals
    <2> QED  BY <1>1, <1>7, <2>1, <2>2 DEF RefreshRead
  <1>8. CASE RefreshWrite(r)
    <2>1. PICK l : l = [req[r] EXCEPT !.pc = "refresh", !.flag = FALSE,
                                      !.inv = req[r].to]
      OBVIOUS
    <2>2. l.pc = "refresh"
      BY <1>0, <2>1 DEF Locals
    <2> QED  BY <1>1, <1>2, <1>8, <2>1, <2>2 DEF RefreshWrite
  <1>9. CASE ReadExisting(r)
    <2>1. PICK l : l = [req[r] EXCEPT !.pc = "settling",
                                      !.flag = invoice[req[r].inv] \in Terminal]
      OBVIOUS
    <2>2. l.pc = "settling"
      BY <1>0, <2>1 DEF Locals
    <2> QED  BY <1>1, <1>2, <1>9, <2>1, <2>2 DEF ReadExisting
  <1>10. CASE SettleTerminal(r)
    <2>1. PICK l : l = [req[r] EXCEPT !.pc = "releasing"]
      OBVIOUS
    <2>2. l.pc = "releasing"
      BY <1>0, <2>1 DEF Locals
    <2> QED  BY <1>1, <1>2, <1>10, <2>1, <2>2 DEF SettleTerminal, Goto
  <1>11. CASE Commit(r) /\ ~CommitReallocate(r) /\ ~CommitUnapply(r)
    BY <1>2, <1>11 DEF Commit, CommitAllocate, CommitAuto, CommitReassign, CommitUpdate,
       CommitDelete, CommitRestore
  <1> QED  BY <1>2, <1>3, <1>4, <1>5, <1>6, <1>7, <1>8, <1>9, <1>10, <1>11, BeginsReading
           DEF StepOf, Commit, Settle, Release, Abandon

SnapsKept == \A r \in Requests : req[r].pc = "read" => Kept(req[r].snap.rows, rows)

(* What a snapshot shows of a row in use, but its state, is still so. *)
LEMMA SnapsKeptHolds == Spec => []SnapsKept
  <1>1. Init => SnapsKept
    <2> SUFFICES ASSUME Init, NEW r \in Requests PROVE req[r].pc # "read"
      BY DEF SnapsKept
    <2>1. PICK l : l = Idle
      OBVIOUS
    <2>2. l.pc = "idle" /\ req[r] = l
      BY <2>1 DEF Idle, Init
    <2> QED  BY <2>2
  <1>2. IInv /\ TypeInv /\ SnapsKept /\ [Next]_vars => SnapsKept'
    <2> SUFFICES ASSUME IInv, TypeInv, SnapsKept, [Next]_vars
                 PROVE  SnapsKept'
      OBVIOUS
    <2>1. CASE UNCHANGED vars
      <3>1. PICK qs, rq : qs = rows' /\ rq = req'
        OBVIOUS
      <3>2. qs = rows /\ rq = req
        BY <2>1, <3>1 DEF vars
      <3> QED  BY <3>1, <3>2 DEF SnapsKept
    <2>2. ASSUME NEW r \in Requests, StepOf(r) PROVE SnapsKept'
      <3>1. PICK l : req' = [req EXCEPT ![r] = l] /\ Reads(l)
        BY <2>2, ReadsOn DEF ReaderMoved
      <3>2. l.pc = "read" => Kept(l.snap.rows, rows')
        <4>1. CASE l.snap = Snapshot
          <5>1. l.snap.rows = rows
            BY <4>1 DEF Snapshot
          <5> QED  BY <3>1, <5>1 DEF Reads, Kept
        <4>2. CASE l.snap = NoSnap
          <5>1. \A k \in RowIds : l.snap.rows[k].state = "unused"
            BY <4>2, AnyTyped DEF NoSnap
          <5> QED  BY <5>1 DEF Kept
        <4> QED  BY <3>1, <4>1, <4>2 DEF Reads
      <3>3. Kept(rows, rows')
        BY <2>2, RowsKept
      <3>4. \A s \in Requests \ {r} : req[s].pc = "read" => Kept(req[s].snap.rows, rows')
        BY <3>3 DEF SnapsKept, Kept
      <3>5. \A s \in Requests : req'[s] = IF s = r THEN l ELSE req[s]
        BY <3>1 DEF IInv
      <3> QED  BY <3>2, <3>4, <3>5 DEF SnapsKept
    <2> QED  BY <2>1, <2>2 DEF Next, StepOf
  <1> QED  BY <1>1, <1>2, Invariance, TypesHold, PTL DEF Spec


----------------------------------------------------------------------------
(* What a step does to the allocations *)

(* It brings no row back and adds none. *)
OnlyGone == \A k \in RowIds : rows'[k].state = "live" => rows'[k] = rows[k]

(* Or it is a commit that makes the rows of ids live, all of the payment   *)
(* it holds and on invoices it locked or that count as revived, and that   *)
(* the guard triggers passed on a view made of those rows and of what the  *)
(* snapshot shows of the others.                                           *)
Writing(r, ids, view) ==
    /\ Holds(req[r]) /\ req[r].pc = "read"
    /\ req[r].op \in Inserting \cup {"restore"}
    /\ ids \in SUBSET RowIds
    /\ view \in [RowIds -> Row]
    /\ Kept(view, rows')
    /\ TriggersPass(req[r].snap, view, ids)
    /\ \A k \in ids : /\ view[k] = rows'[k]
                      /\ rows'[k].state = "live" /\ rows'[k].pay = req[r].pay
                      /\ rows'[k].inv \in req[r].held \cup revived'
    /\ \A k \in RowIds \ ids : rows'[k].state = "live" =>
                                   /\ rows'[k] = rows[k]
                                   /\ view[k] = req[r].snap.rows[k]

LEMMA GoneOrKept ==
    ASSUME TypeInv, NEW ids, \A k \in ids : k \in RowIds /\ rows[k].state # "unused",
           rows' = SoftDeleted(rows, ids)
    PROVE  OnlyGone
  <1>1. ASSUME NEW k \in RowIds, rows'[k].state = "live"
        PROVE  rows'[k] = rows[k]
    <2>1. rows[k] \in Row
      BY DEF TypeInv, DatabaseTyped
    <2>2. k \in ids => rows'[k].state = "deleted"
      BY <2>1 DEF SoftDeleted, Row
    <2> QED  BY <1>1, <2>2 DEF SoftDeleted
  <1> QED  BY <1>1 DEF OnlyGone

LEMMA InsertedRows ==
    ASSUME NEW p, NEW plan, NEW at \in Placements(plan), NEW k \in RowIds
    PROVE  /\ k \in NewIds(plan) =>
                /\ Inserted(p, plan, at)[k].state = "live"
                /\ Inserted(p, plan, at)[k].pay = p
                /\ Inserted(p, plan, at)[k].inv \in DOMAIN plan
           /\ k \notin NewIds(plan) => Inserted(p, plan, at)[k] = rows[k]
  BY DEF Inserted, Placements

LEMMA NewIdsUnused ==
    \A plan : /\ NewIds(plan) \in SUBSET RowIds
              /\ \A k \in NewIds(plan) : rows[k].state = "unused"
  BY DEF NewIds

(* The view of a transaction about to commit is of rows as they will be,   *)
(* but for their states.                                                   *)
LEMMA ViewKept ==
    ASSUME IInv, TypeInv, TypeInv', SnapsKept, NEW r \in Requests, StepOf(r),
           req[r].pc = "read", NEW ids, NEW view, view = View(req[r].snap, rows', ids)
    PROVE  view \in [RowIds -> Row] /\ Kept(view, rows')
  <1>1. PICK qs, rs : qs = rows' /\ rs = req[r].snap.rows
    OBVIOUS
  <1>2. qs \in [RowIds -> Row] /\ rs \in [RowIds -> Row]
    BY <1>1 DEF TypeInv, DatabaseTyped, Locals, Snapshots
  <1>3. view = [k \in RowIds |-> IF k \in ids THEN qs[k] ELSE rs[k]]
    BY <1>1 DEF View
  <1>4. Kept(rs, rows) /\ Kept(rows, qs)
    BY <1>1, RowsKept DEF SnapsKept
  <1>5. Kept(rs, qs)
    BY <1>4 DEF Kept
  <1>6. Kept(view, qs)
    BY <1>3, <1>5 DEF Kept
  <1> QED  BY <1>1, <1>2, <1>3, <1>6

(* applyAllocation *)
LEMMA ApplyWrites ==
    ASSUME IInv, TypeInv, TypeInv', SnapsKept, NEW r \in Requests,
           StepOf(r), req[r].op \in Inserting, req[r].pc = "read",
           NEW plan, DOMAIN plan \subseteq req[r].held, Apply(r, plan)
    PROVE  \E ids, view : Writing(r, ids, view)
  <1>1. PICK at \in Placements(plan) :
          /\ rows' = Inserted(req[r].pay, plan, at)
          /\ TriggersPass(req[r].snap, View(req[r].snap, rows', NewIds(plan)), NewIds(plan))
    BY DEF Apply
  <1>2. PICK ids, view : ids = NewIds(plan) /\ view = View(req[r].snap, rows', ids)
    OBVIOUS
  <1>3. Holds(req[r])
    BY AllocatorHolds
  <1>4. \A k \in RowIds : view[k] = IF k \in ids THEN rows'[k] ELSE req[r].snap.rows[k]
    BY <1>2 DEF View
  <1>5. view \in [RowIds -> Row] /\ Kept(view, rows')
    BY <1>2, ViewKept
  <1>6. ids \in SUBSET RowIds
    BY <1>2, NewIdsUnused
  <1>7. ASSUME NEW k \in RowIds
        PROVE  /\ k \in ids => /\ rows'[k].state = "live" /\ rows'[k].pay = req[r].pay
                               /\ rows'[k].inv \in DOMAIN plan
               /\ k \notin ids => rows'[k] = rows[k]
    BY <1>1, <1>2, InsertedRows
  <1>8. Writing(r, ids, view)
    BY <1>1, <1>2, <1>3, <1>4, <1>5, <1>6, <1>7 DEF Writing
  <1> QED  BY <1>8

LEMMA AllocateWrites ==
    ASSUME IInv, TypeInv, TypeInv', SnapsKept, NEW r \in Requests,
           CommitAllocate(r) \/ CommitAuto(r)
    PROVE  \E ids, view : Writing(r, ids, view)
  <1>0. StepOf(r)
    BY DEF StepOf, Commit
  <1>1. CASE CommitAllocate(r)
    <2>1. PICK plan : plan = [x \in {req[r].inv} |-> req[r].amt]
      OBVIOUS
    <2>2. Apply(r, plan) /\ req[r].op = "allocate" /\ req[r].pc = "read"
      BY <1>1, <2>1 DEF CommitAllocate
    <2>3. NeededBy(req[r], payment) \subseteq req[r].held
      BY <2>2, AllocatorHolds DEF Inserting
    <2>4. DOMAIN plan \subseteq req[r].held
      BY <2>1, <2>2, <2>3 DEF NeededBy
    <2> QED  BY <1>0, <2>2, <2>4, ApplyWrites DEF Inserting
  <1>2. CASE CommitAuto(r)
    <2>1. req[r].op = "auto" /\ req[r].pc = "read"
      BY <1>2 DEF CommitAuto
    <2>2. PICK chosen \in SUBSET {i \in Invoices : /\ invoice[i] = "issued"
                                                   /\ Billed[i] = payment[req[r].pay].client} :
            Apply(r, Waterfall(r, chosen))
      BY <1>2 DEF CommitAuto
    <2>3. NeededBy(req[r], payment) \subseteq req[r].held
      BY <2>1, AllocatorHolds DEF Inserting
    <2>4. chosen \subseteq req[r].held
      BY <2>1, <2>2, <2>3 DEF NeededBy
    <2>5. PICK plan : plan = Waterfall(r, chosen)
      OBVIOUS
    <2>6. DOMAIN plan \subseteq req[r].held /\ Apply(r, plan)
      BY <2>2, <2>4, <2>5, WaterfallDomain
    <2> QED  BY <1>0, <2>1, <2>6, ApplyWrites DEF Inserting
  <1> QED  BY <1>1, <1>2

LEMMA ReallocateWrites ==
    ASSUME IInv, TypeInv, TypeInv', SnapsKept, NEW r \in Requests, CommitReallocate(r)
    PROVE  \E ids, view : Writing(r, ids, view)
  <1>0. req[r].pc = "read" /\ req[r].op = "reallocate"
    BY DEF CommitReallocate
  <1>1. PICK gone : gone = {k \in RowOf(req[r].snap, req[r].pay, req[r].inv) :
                               rows[k].state = "live"}
    OBVIOUS
  <1>2. PICK plan : plan = [i \in {req[r].to} |->
                              IF req[r].flag
                                THEN req[r].snap.rows[Min(RowOf(req[r].snap, req[r].pay, req[r].inv))].amt
                                ELSE req[r].amt]
    OBVIOUS
  <1>3. PICK at \in Placements(plan) :
          /\ rows' = SoftDeleted(Inserted(req[r].pay, plan, at), gone)
          /\ TriggersPass(req[r].snap,
                          View(req[r].snap, rows', NewIds(plan) \cup gone), NewIds(plan))
    BY <1>1, <1>2 DEF CommitReallocate
  <1>4. PICK ids, view, mid : /\ ids = NewIds(plan)
                              /\ view = View(req[r].snap, rows', ids \cup gone)
                              /\ mid = Inserted(req[r].pay, plan, at)
    OBVIOUS
  <1>5. Holds(req[r]) /\ NeededBy(req[r], payment) \subseteq req[r].held
    BY <1>0, AllocatorHolds DEF Inserting
  <1>6. DOMAIN plan \subseteq req[r].held
    BY <1>0, <1>2, <1>5 DEF NeededBy
  <1>7. \A k \in RowIds : view[k] = IF k \in ids \cup gone THEN rows'[k]
                                                          ELSE req[r].snap.rows[k]
    BY <1>4 DEF View
  <1>8. view \in [RowIds -> Row] /\ Kept(view, rows')
    <2>1. StepOf(r)
      BY DEF StepOf, Commit
    <2> QED  BY <1>0, <1>4, <2>1, ViewKept
  <1>9. /\ ids \in SUBSET RowIds
        /\ \A k \in gone : k \in RowIds /\ k \notin ids
    BY <1>1, <1>4, NewIdsUnused DEF RowOf, LiveOfPayment
  <1>10. ASSUME NEW k \in RowIds
         PROVE  /\ k \in ids => /\ rows'[k].state = "live" /\ rows'[k].pay = req[r].pay
                                /\ rows'[k].inv \in DOMAIN plan
                /\ k \in gone => rows'[k].state = "deleted"
                /\ k \notin ids \cup gone => rows'[k] = rows[k]
    <2>1. /\ k \in ids => /\ mid[k].state = "live" /\ mid[k].pay = req[r].pay
                          /\ mid[k].inv \in DOMAIN plan
          /\ k \notin ids => mid[k] = rows[k]
      BY <1>4, InsertedRows
    <2>2. rows[k] \in Row
      BY DEF TypeInv, DatabaseTyped
    <2>3. rows' = SoftDeleted(mid, gone)
      BY <1>3, <1>4
    <2>4. k \in gone => rows'[k] = [mid[k] EXCEPT !.state = "deleted"]
      BY <2>3 DEF SoftDeleted
    <2>5. k \notin gone => rows'[k] = mid[k]
      BY <2>3 DEF SoftDeleted
    <2> QED  BY <1>9, <2>1, <2>2, <2>4, <2>5 DEF Row
  <1>11. Writing(r, ids, view)
    BY <1>0, <1>3, <1>4, <1>5, <1>6, <1>7, <1>8, <1>9, <1>10 DEF Writing, Inserting
  <1> QED  BY <1>11

LEMMA RestoreWrites ==
    ASSUME IInv, TypeInv, TypeInv', SnapsKept, NEW r \in Requests, CommitRestore(r)
    PROVE  \E ids, view : Writing(r, ids, view)
  <1> DEFINE p == req[r].pay
  <1>0. req[r].pc = "read" /\ req[r].op = "restore"
    BY DEF CommitRestore
  <1>1. PICK seen : seen = {k \in RowIds : /\ req[r].snap.rows[k].state = "deleted"
                                           /\ req[r].snap.rows[k].pay = p}
    OBVIOUS
  <1>2. PICK ids : ids = IF seen = {} THEN {}
                         ELSE {k \in RowIds : rows[k].state = "deleted" /\ rows[k].pay = p}
    OBVIOUS
  <1>3. /\ rows' = [k \in RowIds |-> IF k \in ids THEN [rows[k] EXCEPT !.state = "live"]
                                                  ELSE rows[k]]
        /\ TriggersPass(req[r].snap, View(req[r].snap, rows', ids), ids)
        /\ revived' = revived \cup {req[r].snap.rows[k].inv : k \in seen}
    BY <1>1, <1>2 DEF CommitRestore
  <1>4. PICK view : view = View(req[r].snap, rows', ids)
    OBVIOUS
  <1>5. \A k \in RowIds : view[k] = IF k \in ids THEN rows'[k] ELSE req[r].snap.rows[k]
    BY <1>4 DEF View
  <1>6. view \in [RowIds -> Row] /\ Kept(view, rows')
    <2>1. StepOf(r)
      BY DEF StepOf, Commit
    <2> QED  BY <1>0, <1>4, <2>1, ViewKept
  <1>7. ASSUME NEW k \in ids
        PROVE  /\ rows'[k].state = "live" /\ rows'[k].pay = p
               /\ rows'[k].inv \in revived'
    <2>1. k \in RowIds /\ rows[k].state = "deleted" /\ rows[k].pay = p
      BY <1>2
    <2>2. req[r].snap.rows[k] = rows[k]
      BY <1>0, <2>1 DEF IInv, LocalOK, RestoreRows
    <2>3. rows[k].inv \in revived'
      BY <1>1, <1>3, <2>1, <2>2
    <2>4. rows[k] \in Row
      BY <2>1 DEF TypeInv, DatabaseTyped
    <2>5. rows'[k] = [rows[k] EXCEPT !.state = "live"]
      BY <1>3, <2>1
    <2> QED  BY <2>1, <2>3, <2>4, <2>5 DEF Row
  <1>8. \A k \in RowIds \ ids : rows'[k] = rows[k]
    BY <1>3
  <1>9. ids \in SUBSET RowIds /\ Holds(req[r])
    BY <1>0, <1>2 DEF Holds, LocksPayment
  <1>10. Writing(r, ids, view)
    BY <1>0, <1>3, <1>4, <1>5, <1>6, <1>7, <1>8, <1>9 DEF Writing
  <1> QED  BY <1>10

LEMMA RowsMove ==
    ASSUME IInv, TypeInv, TypeInv', SnapsKept, NEW r \in Requests, StepOf(r)
    PROVE  OnlyGone \/ \E ids, view : Writing(r, ids, view)
  <1>1. CASE rows' = rows
    BY <1>1 DEF OnlyGone
  <1>2. CASE CommitUnapply(r)
    <2>1. PICK ids : ids = RowOf(req[r].snap, req[r].pay, req[r].inv)
      OBVIOUS
    <2>2. \A k \in ids : k \in RowIds /\ rows[k].state # "unused"
      BY <1>2, <2>1 DEF CommitUnapply, IInv, LocalOK, UnapplyRows, RowOf, LiveOfPayment
    <2> QED  BY <1>2, <2>1, <2>2, GoneOrKept DEF CommitUnapply
  <1>3. CASE CommitDelete(r)
    <2>1. PICK ids : /\ ids = {} \/ ids = LiveOfPayment(rows, req[r].pay)
                     /\ rows' = SoftDeleted(rows, ids)
      BY <1>3 DEF CommitDelete
    <2>2. \A k \in ids : k \in RowIds /\ rows[k].state # "unused"
      BY <2>1 DEF LiveOfPayment
    <2> QED  BY <2>1, <2>2, GoneOrKept
  <1>4. CASE Release(r)
    <2>1. PICK ids : ids = LiveOnInvoice(rows, req[r].inv)
      OBVIOUS
    <2>2. \A k \in ids : k \in RowIds /\ rows[k].state # "unused"
      BY <2>1 DEF LiveOnInvoice
    <2> QED  BY <1>4, <2>1, <2>2, GoneOrKept DEF Release
  <1> QED  BY <1>1, <1>2, <1>3, <1>4, RowsStay, AllocateWrites, ReallocateWrites, RestoreWrites
           DEF StepOf, Commit, Settle


----------------------------------------------------------------------------
(* Invoices *)

LEMMA RevivedGrows ==
    ASSUME NEW r \in Requests, StepOf(r)
    PROVE  revived \subseteq revived'
  <1>1. CASE Begin(r)
    BY <1>1 DEF Begin, BeginAllocate, BeginAuto, BeginDelete, BeginRestore, BeginReallocate,
       BeginUnapply, BeginReassign, BeginUpdate, CheckVoid, AcceptCancellation, database
  <1>2. CASE Commit(r)
    BY <1>2 DEF Commit, CommitAllocate, CommitAuto, CommitReallocate, CommitUnapply,
       CommitReassign, CommitUpdate, CommitDelete, CommitRestore
  <1>3. CASE ~Begin(r) /\ ~Commit(r)
    BY <1>3 DEF StepOf, LockNext, ReadSnapshot, RefreshRead, RefreshWrite, Abandon, Settle,
       ReadExisting, SettleTerminal, Release, database
  <1> QED  BY <1>1, <1>2, <1>3

(* No row in use, live or deleted, of the payment or on the invoice is     *)
(* negative.                                                               *)
PlainOf(rs, p) ==
    \A k \in RowIds : rs[k].state # "unused" /\ rs[k].pay = p => rs[k].amt >= 0
PlainOn(rs, i) ==
    \A k \in RowIds : rs[k].state # "unused" /\ rs[k].inv = i => rs[k].amt >= 0

(* What is plain was plain before, and in every view.                      *)
LEMMA PlainKept ==
    ASSUME NEW rs \in [RowIds -> Row], NEW qs, Kept(rs, qs)
    PROVE  /\ \A p : PlainOf(qs, p) => PlainOf(rs, p) /\ Plain(rs, LiveOfPayment(rs, p))
           /\ \A i : PlainOn(qs, i) => PlainOn(rs, i) /\ Plain(rs, LiveOnInvoice(rs, i))
  <1>1. \A k \in RowIds : rs[k].amt \in Int
    BY DEF Row
  <1>2. ASSUME NEW p, PlainOf(qs, p)
        PROVE  PlainOf(rs, p) /\ Plain(rs, LiveOfPayment(rs, p))
    <2>1. PlainOf(rs, p)
      BY <1>2 DEF Kept, PlainOf
    <2>2. Plain(rs, LiveOfPayment(rs, p))
      BY <1>1, <2>1 DEF PlainOf, Plain, LiveOfPayment
    <2> QED  BY <2>1, <2>2
  <1>3. ASSUME NEW i, PlainOn(qs, i)
        PROVE  PlainOn(rs, i) /\ Plain(rs, LiveOnInvoice(rs, i))
    <2>1. PlainOn(rs, i)
      BY <1>3 DEF Kept, PlainOn
    <2>2. Plain(rs, LiveOnInvoice(rs, i))
      BY <1>1, <2>1 DEF PlainOn, Plain, LiveOnInvoice
    <2> QED  BY <2>1, <2>2
  <1> QED  BY <1>2, <1>3

LEMMA KeptSame == \A rs : Kept(rs, rs)
  BY DEF Kept

LEMMA NeverNegativeIs ==
    /\ \A p : NeverNegative(UsedOf(p)) <=> PlainOf(rows, p)
    /\ \A i : NeverNegative(UsedOn(i)) <=> PlainOn(rows, i)
  BY DEF NeverNegative, UsedOf, UsedOn, PlainOf, PlainOn

(* What is seen of an invoice is no less than what is there, where what is *)
(* there is seen as it is and no row is negative.                          *)
LEMMA InvoiceSeen ==
    ASSUME NEW view \in [RowIds -> Row], NEW qs \in [RowIds -> Row], NEW i,
           Kept(view, qs), PlainOn(qs, i),
           \A k \in LiveOnInvoice(qs, i) : qs[k].amt # 0 => view[k] = qs[k]
    PROVE  AllocatedTo(qs, i) <= AllocatedTo(view, i)
  <1>1. Plain(qs, LiveOnInvoice(qs, i)) /\ Plain(view, LiveOnInvoice(view, i))
    BY PlainKept, KeptSame
  <1>2. \A k \in LiveOnInvoice(qs, i) : qs[k].amt # 0 =>
            k \in LiveOnInvoice(view, i) /\ qs[k].amt = view[k].amt
    BY DEF LiveOnInvoice
  <1>3. SumOf(qs, LiveOnInvoice(qs, i)) <= SumOf(view, LiveOnInvoice(view, i))
    BY <1>1, <1>2, LiveRowIds, RowsMonotone
  <1> QED  BY <1>3 DEF AllocatedTo

LEMMA InvoiceKept ==
    ASSUME IInv, TypeInv, TypeInv', SnapsKept, NEW r \in Requests, StepOf(r),
           InvoiceNotOvercollected
    PROVE  InvoiceNotOvercollected'
  <1>1. PICK qs : qs = rows'
    OBVIOUS
  <1> SUFFICES ASSUME NEW i \in Invoices \ revived', PlainOn(qs, i)
               PROVE  AllocatedTo(qs, i) <= Total[i]
    BY <1>1 DEF InvoiceNotOvercollected, NeverNegative, UsedOn, PlainOn
  <1>2. /\ rows \in [RowIds -> Row] /\ qs \in [RowIds -> Row]
        /\ Kept(rows, qs)
    BY <1>1, RowsKept DEF TypeInv, DatabaseTyped
  <1>3. i \notin revived /\ AllocatedTo(rows, i) <= Total[i]
    <2>1. PlainOn(rows, i)
      BY <1>2, PlainKept
    <2> QED  BY <2>1, NeverNegativeIs, RevivedGrows DEF InvoiceNotOvercollected
  <1>4. ASSUME NEW rs \in [RowIds -> Row], AllocatedTo(qs, i) <= AllocatedTo(rs, i),
               AllocatedTo(rs, i) <= Total[i]
        PROVE  AllocatedTo(qs, i) <= Total[i]
    <2>1. AllocatedTo(qs, i) \in Int /\ AllocatedTo(rs, i) \in Int /\ Total[i] \in Int
      BY <1>2, AllocatedTyped, PaymentAssumption
    <2> QED  BY <1>4, <2>1
  <1>5. ASSUME \A k \in LiveOnInvoice(qs, i) : qs[k] = rows[k]
        PROVE  AllocatedTo(qs, i) <= Total[i]
    BY <1>2, <1>3, <1>4, <1>5, InvoiceSeen
  <1>6. CASE OnlyGone
    BY <1>1, <1>5, <1>6 DEF OnlyGone, LiveOnInvoice
  <1>7. ASSUME NEW ids, NEW view, Writing(r, ids, view)
        PROVE  AllocatedTo(qs, i) <= Total[i]
    <2>1. CASE \A k \in ids : qs[k].inv # i
      BY <1>1, <1>5, <1>7, <2>1 DEF Writing, LiveOnInvoice
    <2>2. ASSUME NEW k \in ids, qs[k].inv = i
          PROVE  AllocatedTo(qs, i) <= Total[i]
      <3>1. i \in req[r].held \ revived
        BY <1>1, <1>3, <1>7, <2>2 DEF Writing
      <3>2. ASSUME NEW l \in LiveOnInvoice(qs, i)
            PROVE  view[l] = qs[l]
        <4>1. l \in RowIds /\ rows'[l].state = "live" /\ rows'[l].inv = i
          BY <1>1 DEF LiveOnInvoice
        <4>2. CASE l \in ids
          BY <1>1, <1>7, <4>2 DEF Writing
        <4>3. CASE l \notin ids
          <5>1. rows'[l] = rows[l] /\ view[l] = req[r].snap.rows[l]
            BY <1>7, <4>1, <4>3 DEF Writing
          <5>2. req[r].snap.rows[l] = rows[l]
            BY <1>7, <3>1, <4>1, <5>1 DEF Writing, IInv, LocalOK, CoversInvoices
          <5> QED  BY <1>1, <5>1, <5>2
        <4> QED  BY <4>2, <4>3
      <3>3. view \in [RowIds -> Row] /\ Kept(view, qs)
        BY <1>1, <1>7 DEF Writing
      <3>4. AllocatedTo(qs, i) <= AllocatedTo(view, i)
        BY <1>2, <3>2, <3>3, InvoiceSeen
      <3>5. AllocatedTo(view, i) <= Total[i]
        BY <1>1, <1>7, <2>2 DEF Writing, TriggersPass
      <3> QED  BY <1>4, <3>3, <3>4, <3>5
    <2> QED  BY <2>1, <2>2
  <1> QED  BY <1>6, <1>7, RowsMove

LEMMA NothingAllocated ==
    ASSUME Init, NEW p, NEW i
    PROVE  AllocatedOf(rows, p) = 0 /\ AllocatedTo(rows, i) = 0
  <1>1. \A k \in RowIds : rows[k].state = "unused"
    BY AnyTyped DEF Init
  <1>2. LiveOfPayment(rows, p) = {} /\ LiveOnInvoice(rows, i) = {}
    BY <1>1 DEF LiveOfPayment, LiveOnInvoice
  <1> QED  BY <1>2, NoRows DEF AllocatedOf, AllocatedTo

(* DAL-04: an invoice never collects more than its total, for any number   *)
(* of requests allocating to it at once, because lockInvoicesForAllocation *)
(* comes before the first read.  A restored payment may break it, and then *)
(* only on the invoices it is put back on; and so may a negative           *)
(* reallocation, whose removal nothing refuses, and then only on the       *)
(* invoice it was made to.                                                 *)
THEOREM InvoiceTheorem == Spec => []InvoiceNotOvercollected
  <1>1. Init => InvoiceNotOvercollected
    <2> SUFFICES ASSUME Init PROVE InvoiceNotOvercollected
      OBVIOUS
    <2>1. \A i \in Invoices : Total[i] \in Nat
      BY PaymentAssumption
    <2> QED  BY <2>1, NothingAllocated DEF InvoiceNotOvercollected
  <1>2. IInv /\ TypeInv /\ TypeInv' /\ SnapsKept /\ InvoiceNotOvercollected /\ [Next]_vars
          => InvoiceNotOvercollected'
    <2> SUFFICES ASSUME IInv, TypeInv, TypeInv', SnapsKept, InvoiceNotOvercollected,
                        [Next]_vars
                 PROVE  InvoiceNotOvercollected'
      OBVIOUS
    <2>1. CASE UNCHANGED vars
      <3>1. PICK qs, rv : qs = rows' /\ rv = revived'
        OBVIOUS
      <3>2. qs = rows /\ rv = revived
        BY <2>1, <3>1 DEF vars
      <3> QED  BY <3>1, <3>2 DEF InvoiceNotOvercollected, NeverNegative, UsedOn
    <2>2. ASSUME NEW r \in Requests, StepOf(r) PROVE InvoiceNotOvercollected'
      BY <2>2, InvoiceKept
    <2> QED  BY <2>1, <2>2 DEF Next, StepOf
  <1> QED  BY <1>1, <1>2, Invariance, TypesHold, SnapsKeptHolds, PTL DEF Spec


----------------------------------------------------------------------------
(* Payments *)

(* What a request that holds a payment knows of it. *)
Knows(l, pm) ==
    Holds(l) =>
        /\ l.op \in Inserting \cup {"restore"} => pm[l.pay].completed
        /\ l.pc = "read" => l.snap.amount[l.pay] = pm[l.pay].amount

CompletedMoney ==
    \A k \in RowIds :
        rows[k].state = "live" /\ rows[k].amt # 0 /\ PlainOf(rows, rows[k].pay)
          => payment[rows[k].pay].completed

(* The inductive invariant of the payment's side. *)
PaymentInv ==
    /\ PaymentNotOverspent
    /\ CompletedMoney
    /\ \A r \in Requests : Knows(req[r], payment)

(* A request that holds its payment after its step read it when it began,  *)
(* and its amount in the snapshot.                                         *)
HolderMoved(r) ==
    \E l : /\ req' = [req EXCEPT ![r] = l]
           /\ Holds(l) => payment' = payment /\ Knows(l, payment)

LEMMA BeginsHolding ==
    ASSUME NEW r \in Requests, Begin(r)
    PROVE  HolderMoved(r)
  <1>0. Idle \in Locals
    BY IdleTyped DEF LocalTyped
  <1>1. ASSUME NEW l, Start(r, l), l.pc \in {"locking", "locked"},
               l.op \in Inserting \cup {"restore"} => payment[l.pay].completed,
               UNCHANGED database
        PROVE  HolderMoved(r)
    <2>1. Knows(l, payment) /\ payment' = payment /\ req' = [req EXCEPT ![r] = l]
      BY <1>1 DEF Knows, Start, database
    <2> QED  BY <2>1 DEF HolderMoved
  <1>2. ASSUME NEW l, Start(r, l), l.op \notin LocksPayment
        PROVE  HolderMoved(r)
    BY <1>2 DEF HolderMoved, Start, Holds
  <1>3. ASSUME NEW p \in Payments, NEW i \in Invoices, NEW amt,
               BeginAllocate(r, p, i, amt)
        PROVE  HolderMoved(r)
    <2>1. PICK l : l = [Idle EXCEPT !.op = "allocate", !.pc = "locking", !.pay = p,
                                    !.inv = i, !.to = i, !.amt = amt]
      OBVIOUS
    <2>2. l.pc = "locking" /\ l.pay = p
      BY <1>0, <2>1 DEF Locals
    <2> QED  BY <1>1, <1>3, <2>1, <2>2 DEF BeginAllocate, Settled
  <1>4. ASSUME NEW p \in Payments, BeginAuto(r, p)
        PROVE  HolderMoved(r)
    <2>1. PICK l : l = [Idle EXCEPT !.op = "auto", !.pc = "locking", !.pay = p]
      OBVIOUS
    <2>2. l.pc = "locking" /\ l.pay = p
      BY <1>0, <2>1 DEF Locals
    <2> QED  BY <1>1, <1>4, <2>1, <2>2 DEF BeginAuto, Settled
  <1>5. ASSUME NEW p \in Payments, NEW i \in Invoices, NEW j \in Invoices, NEW amt,
               NEW whole, BeginReallocate(r, p, i, j, amt, whole)
        PROVE  HolderMoved(r)
    <2>1. PICK l : l = [Idle EXCEPT !.op = "reallocate", !.pc = "locking",
                                    !.pay = p, !.inv = i, !.to = j,
                                    !.amt = amt, !.flag = whole]
      OBVIOUS
    <2>2. l.pc = "locking" /\ l.pay = p
      BY <1>0, <2>1 DEF Locals
    <2> QED  BY <1>1, <1>5, <2>1, <2>2 DEF BeginReallocate, Settled
  <1>6. ASSUME NEW p \in Payments, BeginDelete(r, p)
        PROVE  HolderMoved(r)
    <2>1. PICK l : l = [Idle EXCEPT !.op = "delete", !.pc = "locked", !.pay = p]
      OBVIOUS
    <2>2. l.pc = "locked" /\ l.op = "delete"
      BY <1>0, <2>1 DEF Locals
    <2> QED  BY <1>1, <1>6, <2>1, <2>2 DEF BeginDelete, Inserting
  <1>7. ASSUME NEW p \in Payments, BeginRestore(r, p)
        PROVE  HolderMoved(r)
    <2>1. PICK l : l = [Idle EXCEPT !.op = "restore", !.pc = "locked", !.pay = p]
      OBVIOUS
    <2>2. l.pc = "locked" /\ l.pay = p
      BY <1>0, <2>1 DEF Locals
    <2> QED  BY <1>1, <1>7, <2>1, <2>2 DEF BeginRestore
  <1>8. ASSUME NEW p \in Payments, NEW amt, NEW completed,
               BeginUpdate(r, p, amt, completed)
        PROVE  HolderMoved(r)
    <2>1. PICK l : l = [Idle EXCEPT !.op = "update", !.pc = "locked", !.pay = p,
                                    !.amt = amt, !.flag = completed]
      OBVIOUS
    <2>2. l.pc = "locked" /\ l.op = "update"
      BY <1>0, <2>1 DEF Locals
    <2> QED  BY <1>1, <1>8, <2>1, <2>2 DEF BeginUpdate, Inserting
  <1>9. ASSUME NEW p \in Payments, NEW i \in Invoices, BeginUnapply(r, p, i)
        PROVE  HolderMoved(r)
    <2>1. PICK l : l = [Idle EXCEPT !.op = "unapply", !.pc = "read", !.pay = p,
                                    !.inv = i, !.to = i, !.snap = Snapshot]
      OBVIOUS
    <2>2. l.op \notin LocksPayment
      BY <1>0, <2>1 DEF Locals, LocksPayment
    <2> QED  BY <1>2, <1>9, <2>1, <2>2 DEF BeginUnapply
  <1>10. ASSUME NEW p \in Payments, NEW c \in Clients, BeginReassign(r, p, c)
         PROVE  HolderMoved(r)
    <2>1. PICK l : l = [Idle EXCEPT !.op = "reassign", !.pc = "read", !.pay = p,
                                    !.client = c, !.amt = payment[p].amount]
      OBVIOUS
    <2>2. l.op \notin LocksPayment
      BY <1>0, <2>1 DEF Locals, LocksPayment
    <2> QED  BY <1>2, <1>10, <2>1, <2>2 DEF BeginReassign
  <1>11. ASSUME NEW i \in Invoices, CheckVoid(r, i) \/ AcceptCancellation(r, i)
         PROVE  HolderMoved(r)
    <2>1. PICK op \in {"void", "cancel"} :
            Start(r, [Idle EXCEPT !.op = op, !.pc = "checked", !.inv = i])
      BY <1>11 DEF CheckVoid, AcceptCancellation
    <2>2. PICK l : l = [Idle EXCEPT !.op = op, !.pc = "checked", !.inv = i]
      OBVIOUS
    <2>3. l.op \notin LocksPayment
      BY <1>0, <2>2 DEF Locals, LocksPayment
    <2> QED  BY <1>2, <2>1, <2>2, <2>3
  <1> QED  BY <1>3, <1>4, <1>5, <1>6, <1>7, <1>8, <1>9, <1>10, <1>11 DEF Begin

LEMMA HoldsOn ==
    ASSUME TypeInv, NEW r \in Requests, StepOf(r), Knows(req[r], payment)
    PROVE  HolderMoved(r)
  <1>0. req[r] \in Locals
    BY DEF TypeInv
  <1>1. ASSUME NEW l, Continue(r, l), l.pc \notin {"locking", "locked", "read"}
        PROVE  HolderMoved(r)
    BY <1>1 DEF HolderMoved, Continue, Holds
  <1>2. CASE Done(r)
    <2>1. PICK l : l = Idle
      OBVIOUS
    <2>2. l.pc = "idle"
      BY <2>1 DEF Idle
    <2> QED  BY <1>1, <1>2, <2>1, <2>2 DEF Done
  <1>3. CASE LockNext(r)
    <2>1. PICK l : /\ req' = [req EXCEPT ![r] = l]
                   /\ \/ l = [req[r] EXCEPT !.pc = "locked"]
                      \/ \E i : l = [req[r] EXCEPT !.held = @ \cup {i}]
      BY <1>3 DEF LockNext, Goto, Continue
    <2>2. req[r].pc = "locking" /\ payment' = payment
      BY <1>3 DEF LockNext, database
    <2>3. /\ l.op = req[r].op /\ l.pay = req[r].pay
          /\ l.pc \in {"locking", "locked"}
      BY <1>0, <2>1, <2>2 DEF Locals
    <2>4. Knows(l, payment)
      BY <2>2, <2>3 DEF Knows, Holds
    <2> QED  BY <2>1, <2>2, <2>4 DEF HolderMoved
  <1>4. CASE ReadSnapshot(r)
    <2>1. PICK l : l = [req[r] EXCEPT !.pc = "read", !.snap = Snapshot]
      OBVIOUS
    <2>2. req[r].pc = "locked" /\ payment' = payment /\ req' = [req EXCEPT ![r] = l]
      BY <1>4, <2>1 DEF ReadSnapshot, Continue, database
    <2>3. l.op = req[r].op /\ l.pay = req[r].pay /\ l.pc = "read" /\ l.snap = Snapshot
      BY <1>0, <2>1 DEF Locals
    <2>4. l.pay \in Payments
      BY <1>0, <2>3 DEF Locals
    <2>5. l.snap.amount[l.pay] = payment[l.pay].amount
      BY <2>3, <2>4 DEF Snapshot
    <2>6. Knows(l, payment)
      BY <2>2, <2>3, <2>5 DEF Knows, Holds
    <2> QED  BY <2>2, <2>6 DEF HolderMoved
  <1>5. CASE CommitReallocate(r)
    <2>1. PICK l : l = [req[r] EXCEPT !.pc = "refresh", !.flag = FALSE, !.held = {},
                                      !.snap = NoSnap]
      OBVIOUS
    <2>2. l.pc = "refresh"
      BY <1>0, <2>1 DEF Locals
    <2> QED  BY <1>1, <1>5, <2>1, <2>2 DEF CommitReallocate
  <1>6. CASE CommitUnapply(r)
    <2>1. PICK l : l = [req[r] EXCEPT !.pc = "refresh", !.snap = NoSnap]
      OBVIOUS
    <2>2. l.pc = "refresh"
      BY <1>0, <2>1 DEF Locals
    <2> QED  BY <1>1, <1>6, <2>1, <2>2 DEF CommitUnapply
  <1>7. CASE RefreshRead(r)
    <2>1. PICK l : l = [req[r] EXCEPT !.pc = "refreshing",
                                      !.flag = Covered(rows, req[r].inv)]
      OBVIOUS
    <2>2. l.pc = "refreshing"
      BY <1>0, <2>1 DEF Locals
    <2> QED  BY <1>1, <1>7, <2>1, <2>2 DEF RefreshRead
  <1>8. CASE RefreshWrite(r)
    <2>1. PICK l : l = [req[r] EXCEPT !.pc = "refresh", !.flag = FALSE,
                                      !.inv = req[r].to]
      OBVIOUS
    <2>2. l.pc = "refresh"
      BY <1>0, <2>1 DEF Locals
    <2> QED  BY <1>1, <1>2, <1>8, <2>1, <2>2 DEF RefreshWrite
  <1>9. CASE ReadExisting(r)
    <2>1. PICK l : l = [req[r] EXCEPT !.pc = "settling",
                                      !.flag = invoice[req[r].inv] \in Terminal]
      OBVIOUS
    <2>2. l.pc = "settling"
      BY <1>0, <2>1 DEF Locals
    <2> QED  BY <1>1, <1>2, <1>9, <2>1, <2>2 DEF ReadExisting
  <1>10. CASE SettleTerminal(r)
    <2>1. PICK l : l = [req[r] EXCEPT !.pc = "releasing"]
      OBVIOUS
    <2>2. l.pc = "releasing"
      BY <1>0, <2>1 DEF Locals
    <2> QED  BY <1>1, <1>2, <1>10, <2>1, <2>2 DEF SettleTerminal, Goto
  <1>11. CASE Commit(r) /\ ~CommitReallocate(r) /\ ~CommitUnapply(r)
    BY <1>2, <1>11 DEF Commit, CommitAllocate, CommitAuto, CommitReassign, CommitUpdate,
       CommitDelete, CommitRestore
  <1> QED  BY <1>2, <1>3, <1>4, <1>5, <1>6, <1>7, <1>8, <1>9, <1>10, <1>11, BeginsHolding
           DEF StepOf, Commit, Settle, Release, Abandon


(* Only an edit changes a payment's amount or whether it is completed.     *)
SameMoney(q) ==
    /\ payment'[q].amount = payment[q].amount
    /\ payment'[q].completed = payment[q].completed

LEMMA MoneyStays ==
    ASSUME TypeInv, NEW r \in Requests, StepOf(r), NEW q \in Payments,
           ~(CommitUpdate(r) /\ q = req[r].pay)
    PROVE  SameMoney(q)
  <1>0. /\ req[r].pay \in Payments
        /\ payment \in [Payments -> [deleted : BOOLEAN, completed : BOOLEAN,
                                     amount : Amounts, client : Clients]]
    BY DEF TypeInv, DatabaseTyped, Locals
  <1>1. CASE payment' = payment
    BY <1>1 DEF SameMoney
  <1>2. CASE \E c : \E p \in Payments : payment' = [payment EXCEPT ![p].client = c]
    BY <1>0, <1>2 DEF SameMoney
  <1>3. CASE \E b : \E p \in Payments : payment' = [payment EXCEPT ![p].deleted = b]
    BY <1>0, <1>3 DEF SameMoney
  <1>4. CASE CommitUpdate(r)
    <2>1. q # req[r].pay
      BY <1>4
    <2> QED  BY <1>0, <1>4, <2>1 DEF CommitUpdate, SameMoney
  <1>5. CASE Begin(r)
    BY <1>1, <1>5 DEF Begin, BeginAllocate, BeginAuto, BeginDelete, BeginRestore,
       BeginReallocate, BeginUnapply, BeginReassign, BeginUpdate, CheckVoid,
       AcceptCancellation, database
  <1>6. CASE CommitReassign(r)
    BY <1>0, <1>2, <1>6 DEF CommitReassign
  <1>7. CASE CommitDelete(r) \/ CommitRestore(r)
    BY <1>0, <1>3, <1>7 DEF CommitDelete, CommitRestore
  <1>8. CASE CommitAllocate(r) \/ CommitAuto(r) \/ CommitReallocate(r) \/ CommitUnapply(r)
    BY <1>1, <1>8 DEF CommitAllocate, CommitAuto, CommitReallocate, CommitUnapply
  <1>9. CASE ~Begin(r) /\ ~Commit(r)
    BY <1>1, <1>9 DEF StepOf, LockNext, ReadSnapshot, RefreshRead, RefreshWrite, Abandon,
       Settle, ReadExisting, SettleTerminal, Release, database
  <1> QED  BY <1>4, <1>5, <1>6, <1>7, <1>8, <1>9 DEF Commit

(* The other requests still know what they knew.                           *)
LEMMA OthersKnow ==
    ASSUME IInv, TypeInv, NEW r \in Requests, StepOf(r),
           NEW s \in Requests \ {r}, Knows(req[s], payment)
    PROVE  Knows(req[s], payment')
  <1> SUFFICES ASSUME Holds(req[s]) PROVE SameMoney(req[s].pay)
    BY DEF Knows, SameMoney
  <1>1. req[s].pay \in Payments
    BY DEF TypeInv, Locals
  <1>2. CASE CommitUpdate(r)
    <2>1. Holds(req[r])
      BY <1>2 DEF CommitUpdate, Holds, LocksPayment
    <2>2. req[s].pay # req[r].pay
      BY <2>1 DEF IInv, Apart
    <2> QED  BY <1>1, <2>2, MoneyStays
  <1>3. CASE ~CommitUpdate(r)
    BY <1>1, <1>3, MoneyStays
  <1> QED  BY <1>2, <1>3

LEMMA KnowledgeKept ==
    ASSUME IInv, TypeInv, TypeInv', PaymentInv, NEW r \in Requests, StepOf(r)
    PROVE  \A s \in Requests : Knows(req'[s], payment')
  <1>1. PICK l : /\ req' = [req EXCEPT ![r] = l]
                 /\ Holds(l) => payment' = payment /\ Knows(l, payment)
    BY HoldsOn DEF HolderMoved, PaymentInv
  <1>2. Knows(l, payment')
    BY <1>1 DEF Knows
  <1>3. \A s \in Requests \ {r} : Knows(req[s], payment')
    BY OthersKnow DEF PaymentInv
  <1>4. \A s \in Requests : req'[s] = IF s = r THEN l ELSE req[s]
    BY <1>1 DEF IInv
  <1> QED  BY <1>2, <1>3, <1>4

(* What a transaction that holds p sees of it is no less than what is      *)
(* there, where no row of p is negative.                                   *)
LEMMA PaymentSeen ==
    ASSUME NEW view \in [RowIds -> Row], NEW qs \in [RowIds -> Row], NEW p,
           Kept(view, qs), PlainOf(qs, p),
           \A k \in LiveOfPayment(qs, p) : view[k] = qs[k]
    PROVE  AllocatedOf(qs, p) <= AllocatedOf(view, p)
  <1>1. Plain(qs, LiveOfPayment(qs, p)) /\ Plain(view, LiveOfPayment(view, p))
    BY PlainKept, KeptSame
  <1>2. \A k \in LiveOfPayment(qs, p) : k \in LiveOfPayment(view, p) /\ qs[k].amt = view[k].amt
    BY DEF LiveOfPayment
  <1>3. SumOf(qs, LiveOfPayment(qs, p)) <= SumOf(view, LiveOfPayment(view, p))
    BY <1>1, <1>2, LiveRowIds, RowsMonotone
  <1> QED  BY <1>3 DEF AllocatedOf

(* assertPaymentEditKeepsMoneyConsistent: the allocations it sums are all  *)
(* there are, and if they sum to nothing each of them is nothing.          *)
LEMMA EditSees ==
    ASSUME IInv, TypeInv, SnapsKept, NEW r \in Requests, CommitUpdate(r),
           PlainOf(rows, req[r].pay)
    PROVE  /\ AllocatedOf(rows, req[r].pay) <= AllocatedOf(req[r].snap.rows, req[r].pay)
           /\ AllocatedOf(req[r].snap.rows, req[r].pay) <= 0 =>
                \A k \in LiveOfPayment(rows, req[r].pay) : rows[k].amt = 0
  <1>1. PICK p, seen : p = req[r].pay /\ seen = req[r].snap.rows
    OBVIOUS
  <1>2. /\ rows \in [RowIds -> Row] /\ seen \in [RowIds -> Row]
        /\ req[r].op = "update" /\ req[r].pc = "read"
    BY <1>1 DEF TypeInv, DatabaseTyped, Locals, Snapshots, CommitUpdate
  <1>3. \A k \in LiveOfPayment(rows, p) : seen[k] = rows[k]
    BY <1>1, <1>2 DEF IInv, LocalOK, CoversPayment, LocksPayment, LiveOfPayment
  <1>4. Kept(seen, rows)
    BY <1>1, <1>2 DEF SnapsKept
  <1>5. AllocatedOf(rows, p) <= AllocatedOf(seen, p)
    BY <1>1, <1>2, <1>3, <1>4, PaymentSeen
  <1>6. ASSUME AllocatedOf(seen, p) <= 0, NEW k \in LiveOfPayment(rows, p)
        PROVE  rows[k].amt = 0
    <2>1. Plain(rows, LiveOfPayment(rows, p)) /\ LiveOfPayment(rows, p) \in SUBSET RowIds
      BY <1>1, <1>2, PlainKept, KeptSame, LiveRowIds
    <2>2. rows[k].amt \in Nat /\ k \in RowIds /\ Plain(rows, {k})
      BY <2>1 DEF Plain
    <2>3. SumOf(rows, {k}) <= SumOf(rows, LiveOfPayment(rows, p))
      BY <2>1, <2>2, RowsMonotone
    <2>4. SumOf(rows, {k}) = rows[k].amt
      BY <2>2, OneRow
    <2>5. rows[k].amt <= AllocatedOf(rows, p)
      BY <2>3, <2>4 DEF AllocatedOf
    <2>6. AllocatedOf(rows, p) \in Int /\ AllocatedOf(seen, p) \in Int
      BY <1>2, AllocatedTyped
    <2> QED  BY <1>5, <1>6, <2>2, <2>5, <2>6
  <1> QED  BY <1>1, <1>5, <1>6

LEMMA CompletedKept ==
    ASSUME IInv, TypeInv, TypeInv', SnapsKept, PaymentInv, NEW r \in Requests, StepOf(r)
    PROVE  CompletedMoney'
  <1> SUFFICES ASSUME NEW k \in RowIds, rows'[k].state = "live", rows'[k].amt # 0,
                      PlainOf(rows', rows'[k].pay)
               PROVE  payment'[rows'[k].pay].completed
    BY DEF CompletedMoney
  <1>1. rows'[k].pay \in Payments
    BY DEF TypeInv, DatabaseTyped, Row
  <1>2. CASE CommitUpdate(r)
    <2>1. rows' = rows
      BY <1>2, RowsStay
    <2>2. PlainOf(rows, rows[k].pay) /\ payment[rows[k].pay].completed
      BY <2>1 DEF PaymentInv, CompletedMoney
    <2>3. CASE rows[k].pay # req[r].pay
      BY <1>1, <2>1, <2>2, <2>3, MoneyStays DEF SameMoney
    <2>4. CASE rows[k].pay = req[r].pay
      <3>1. k \in LiveOfPayment(rows, req[r].pay) /\ rows[k].amt # 0
        BY <2>1, <2>4 DEF LiveOfPayment
      <3>2. ~(AllocatedOf(req[r].snap.rows, req[r].pay) <= 0)
        BY <1>2, <2>2, <2>4, <3>1, EditSees
      <3>3. req[r].flag \in BOOLEAN /\ payment[req[r].pay].completed \in BOOLEAN
        BY <1>1, <2>1, <2>4 DEF TypeInv, DatabaseTyped, Locals
      <3>4. req[r].flag
        BY <1>2, <2>2, <2>4, <3>2, <3>3 DEF CommitUpdate
      <3>5. payment'[req[r].pay].completed = req[r].flag
        BY <1>1, <1>2, <2>1, <2>4 DEF CommitUpdate, TypeInv, DatabaseTyped
      <3> QED  BY <2>1, <2>4, <3>4, <3>5
    <2> QED  BY <2>3, <2>4
  <1>3. CASE ~CommitUpdate(r)
    <2>1. SameMoney(rows'[k].pay)
      BY <1>1, <1>3, MoneyStays
    <2>2. CASE rows'[k] = rows[k]
      <3>1. rows \in [RowIds -> Row] /\ Kept(rows, rows')
        BY RowsKept DEF TypeInv, DatabaseTyped
      <3>2. PlainOf(rows, rows[k].pay)
        BY <2>2, <3>1, PlainKept
      <3> QED  BY <2>1, <2>2, <3>2 DEF SameMoney, PaymentInv, CompletedMoney
    <2>3. CASE rows'[k] # rows[k]
      <3>1. PICK ids, view : Writing(r, ids, view)
        BY <2>3, RowsMove DEF OnlyGone
      <3>2. rows'[k].pay = req[r].pay /\ Holds(req[r])
            /\ req[r].op \in Inserting \cup {"restore"}
        BY <2>3, <3>1 DEF Writing
      <3>3. payment[req[r].pay].completed
        BY <3>2 DEF PaymentInv, Knows
      <3> QED  BY <2>1, <3>2, <3>3 DEF SameMoney
    <2> QED  BY <2>2, <2>3
  <1> QED  BY <1>2, <1>3


LEMMA PaymentKept ==
    ASSUME IInv, TypeInv, TypeInv', SnapsKept, PaymentInv, NEW r \in Requests, StepOf(r)
    PROVE  PaymentNotOverspent'
  <1>1. PICK qs : qs = rows'
    OBVIOUS
  <1> SUFFICES ASSUME NEW q \in Payments, PlainOf(qs, q)
               PROVE  AllocatedOf(qs, q) <= payment'[q].amount
    BY <1>1 DEF PaymentNotOverspent, NeverNegative, UsedOf, PlainOf
  <1>2. rows \in [RowIds -> Row] /\ qs \in [RowIds -> Row] /\ Kept(rows, qs)
    BY <1>1, RowsKept DEF TypeInv, DatabaseTyped
  <1>3. PlainOf(rows, q) /\ AllocatedOf(rows, q) <= payment[q].amount
    <2>1. PlainOf(rows, q)
      BY <1>2, PlainKept
    <2> QED  BY <2>1, NeverNegativeIs DEF PaymentInv, PaymentNotOverspent
  <1>4. payment[q].amount \in Int /\ payment'[q].amount \in Int
    <2>1. payment[q].amount \in Amounts /\ payment'[q].amount \in Amounts
      BY DEF TypeInv, DatabaseTyped
    <2>2. \A amt \in Amounts : amt \in Int
      BY PaymentAssumption
    <2> QED  BY <2>1, <2>2
  <1>5. ASSUME NEW rs \in [RowIds -> Row], AllocatedOf(qs, q) <= AllocatedOf(rs, q),
               NEW most \in Int, AllocatedOf(rs, q) <= most
        PROVE  AllocatedOf(qs, q) <= most
    <2>1. AllocatedOf(qs, q) \in Int /\ AllocatedOf(rs, q) \in Int
      BY <1>2, AllocatedTyped
    <2> QED  BY <1>5, <2>1
  <1>6. CASE CommitUpdate(r) /\ q = req[r].pay
    <2>1. qs = rows
      BY <1>1, <1>6, RowsStay
    <2>2. payment'[q].amount = req[r].amt
      BY <1>6 DEF CommitUpdate, TypeInv, DatabaseTyped
    <2>3. CASE req[r].amt = payment[q].amount
      BY <1>3, <2>1, <2>2, <2>3
    <2>4. CASE req[r].amt # payment[q].amount
      <3>1. PICK seen : seen = req[r].snap.rows
        OBVIOUS
      <3>2. req[r].amt >= AllocatedOf(seen, q)
        BY <1>6, <2>4, <3>1 DEF CommitUpdate
      <3>3. AllocatedOf(rows, q) <= AllocatedOf(seen, q)
        BY <1>3, <1>6, <3>1, EditSees
      <3>4. seen \in [RowIds -> Row] /\ req[r].amt \in Int
        BY <3>1 DEF TypeInv, Locals, Snapshots
      <3>5. AllocatedOf(seen, q) \in Int
        BY <3>4, AllocatedTyped
      <3>6. AllocatedOf(seen, q) <= req[r].amt
        BY <3>2, <3>4, <3>5
      <3> QED  BY <1>5, <2>1, <2>2, <3>3, <3>4, <3>6
    <2> QED  BY <2>3, <2>4
  <1>7. CASE ~(CommitUpdate(r) /\ q = req[r].pay)
    <2>1. payment'[q].amount = payment[q].amount
      BY <1>7, MoneyStays DEF SameMoney
    <2>2. ASSUME \A k \in LiveOfPayment(qs, q) : rows[k] = qs[k]
          PROVE  AllocatedOf(qs, q) <= payment[q].amount
      BY <1>2, <1>3, <1>4, <1>5, <2>2, PaymentSeen
    <2>3. CASE OnlyGone
      BY <1>1, <2>1, <2>2, <2>3 DEF OnlyGone, LiveOfPayment
    <2>4. ASSUME NEW ids, NEW view, Writing(r, ids, view)
          PROVE  AllocatedOf(qs, q) <= payment[q].amount
      <3>1. CASE \A k \in ids : qs[k].pay # q
        BY <1>1, <2>2, <2>4, <3>1 DEF Writing, LiveOfPayment
      <3>2. ASSUME NEW k \in ids, qs[k].pay = q
            PROVE  AllocatedOf(qs, q) <= payment[q].amount
        <4>1. /\ q = req[r].pay /\ view[k].pay = q
              /\ Holds(req[r]) /\ req[r].pc = "read"
          BY <1>1, <2>4, <3>2 DEF Writing
        <4>2. ASSUME NEW l \in LiveOfPayment(qs, q)
              PROVE  view[l] = qs[l]
          <5>1. l \in RowIds /\ rows'[l].state = "live" /\ rows'[l].pay = q
            BY <1>1 DEF LiveOfPayment
          <5>2. CASE l \in ids
            BY <1>1, <2>4, <5>2 DEF Writing
          <5>3. CASE l \notin ids
            <6>1. rows'[l] = rows[l] /\ view[l] = req[r].snap.rows[l]
              BY <2>4, <5>1, <5>3 DEF Writing
            <6>2. req[r].snap.rows[l] = rows[l]
              BY <4>1, <5>1, <6>1 DEF Holds, IInv, LocalOK, CoversPayment
            <6> QED  BY <1>1, <6>1, <6>2
          <5> QED  BY <5>2, <5>3
        <4>3. view \in [RowIds -> Row] /\ Kept(view, qs)
          BY <1>1, <2>4 DEF Writing
        <4>4. AllocatedOf(qs, q) <= AllocatedOf(view, q)
          BY <1>2, <4>2, <4>3, PaymentSeen
        <4>5. AllocatedOf(view, q) <= req[r].snap.amount[q]
          BY <2>4, <4>1 DEF Writing, TriggersPass
        <4>6. req[r].snap.amount[q] = payment[q].amount
          BY <4>1 DEF PaymentInv, Knows
        <4> QED  BY <1>4, <1>5, <4>3, <4>4, <4>5, <4>6
      <3> QED  BY <3>1, <3>2
    <2> QED  BY <1>1, <2>1, <2>3, <2>4, RowsMove
  <1> QED  BY <1>6, <1>7

LEMMA InitPaymentInv == Init => PaymentInv
  <1> SUFFICES ASSUME Init PROVE PaymentInv
    OBVIOUS
  <1>1. PaymentNotOverspent
    <2>1. TypeInv
      BY InitTypeInv
    <2>2. \A p \in Payments : payment[p].amount \in Nat
      BY <2>1, PaymentAssumption DEF TypeInv, DatabaseTyped
    <2> QED  BY <2>2, NothingAllocated DEF PaymentNotOverspent
  <1>2. CompletedMoney
    BY AnyTyped DEF Init, CompletedMoney
  <1>3. \A r \in Requests : Knows(req[r], payment)
    <2>1. PICK l : l = Idle
      OBVIOUS
    <2>2. l.pc = "idle"
      BY <2>1 DEF Idle
    <2>3. \A r \in Requests : req[r] = l
      BY <2>1 DEF Init
    <2> QED  BY <2>2, <2>3 DEF Knows, Holds
  <1> QED  BY <1>1, <1>2, <1>3 DEF PaymentInv

LEMMA NextPaymentInv ==
    IInv /\ TypeInv /\ TypeInv' /\ SnapsKept /\ PaymentInv /\ [Next]_vars => PaymentInv'
  <1> SUFFICES ASSUME IInv, TypeInv, TypeInv', SnapsKept, PaymentInv, [Next]_vars
               PROVE  PaymentInv'
    OBVIOUS
  <1>1. CASE UNCHANGED vars
    <2>1. PICK qs, pm, rq : qs = rows' /\ pm = payment' /\ rq = req'
      OBVIOUS
    <2>2. qs = rows /\ pm = payment /\ rq = req
      BY <1>1, <2>1 DEF vars
    <2>3. PaymentNotOverspent' /\ CompletedMoney'
      BY <2>1, <2>2 DEF PaymentInv, PaymentNotOverspent, NeverNegative, UsedOf,
         CompletedMoney
    <2>4. \A r \in Requests : Knows(req'[r], payment')
      BY <2>1, <2>2 DEF PaymentInv
    <2> QED  BY <2>3, <2>4 DEF PaymentInv
  <1>2. ASSUME NEW r \in Requests, StepOf(r)
        PROVE  PaymentInv'
    <2>1. PaymentNotOverspent'
      BY <1>2, PaymentKept
    <2>2. CompletedMoney'
      BY <1>2, CompletedKept
    <2>3. \A s \in Requests : Knows(req'[s], payment')
      BY <1>2, KnowledgeKept
    <2> QED  BY <2>1, <2>2, <2>3 DEF PaymentInv
  <1> QED  BY <1>1, <1>2 DEF Next, StepOf

LEMMA PaymentInvariance == Spec => []PaymentInv
  BY InitPaymentInv, NextPaymentInv, Invariance, TypesHold, SnapsKeptHolds, PTL DEF Spec

(* A payment is never spent twice: for any number of requests, and with    *)
(* unapply, reassign and the release of a terminal invoice locking         *)
(* nothing, the row lock on the payment comes before every sum that lets   *)
(* an allocation in, an amount down or a payment back.  Only a payment     *)
(* that was reallocated a negative amount may be overspent.                *)
THEOREM PaymentTheorem == Spec => []PaymentNotOverspent
  <1>1. PaymentInv => PaymentNotOverspent
    BY DEF PaymentInv
  <1> QED  BY <1>1, PaymentInvariance, PTL

(* Only money that arrived settles invoices: destroy() leaves no live      *)
(* allocation of the payment, an edit to another status is refused while   *)
(* the live ones sum to something, and no allocating route makes one in    *)
(* between.  Allocations of nothing may stay, and a negative reallocation  *)
(* may have balanced the others when the payment was edited.               *)
THEOREM SettledTheorem == Spec => []OnlySettledMoney
  <1>1. IInv /\ PaymentInv => OnlySettledMoney
    BY NeverNegativeIs
       DEF IInv, NoRowsOfDeleted, PaymentInv, CompletedMoney, OnlySettledMoney, Settled
  <1> QED  BY <1>1, Invariance, PaymentInvariance, PTL

(* The steps that touch neither the payments nor the credit. *)
LEMMA BooksStay ==
    ASSUME NEW r \in Requests, StepOf(r),
           ~CommitReassign(r), ~CommitUpdate(r), ~CommitDelete(r), ~CommitRestore(r)
    PROVE  payment' = payment /\ credit' = credit
  <1>1. CASE Begin(r)
    BY <1>1 DEF Begin, BeginAllocate, BeginAuto, BeginDelete, BeginRestore, BeginReallocate,
       BeginUnapply, BeginReassign, BeginUpdate, CheckVoid, AcceptCancellation, database
  <1>2. CASE Commit(r)
    BY <1>2 DEF Commit, CommitAllocate, CommitAuto, CommitReallocate, CommitUnapply
  <1>3. CASE ~Begin(r) /\ ~Commit(r)
    BY <1>3 DEF StepOf, LockNext, ReadSnapshot, RefreshRead, RefreshWrite, Abandon, Settle,
       ReadExisting, SettleTerminal, Release, database
  <1> QED  BY <1>1, <1>2, <1>3

(* The others renew it from the payment they hold. *)
LEMMA CreditRenewed ==
    ASSUME IInv, TypeInv, PaymentInv, NEW r \in Requests,
           CommitUpdate(r) \/ CommitDelete(r) \/ CommitRestore(r),
           NEW p \in Payments, CreditMirrors(p)
    PROVE  CreditMirrors(p)'
  <1>1. /\ req[r].pay \in Payments /\ req[r].flag \in BOOLEAN
        /\ payment \in [Payments -> [deleted : BOOLEAN, completed : BOOLEAN,
                                     amount : Amounts, client : Clients]]
        /\ credit \in [Payments -> SUBSET [client : Clients, amount : Amounts]]
    BY DEF TypeInv, DatabaseTyped, Locals
  <1>2. Holds(req[r])
    BY DEF CommitUpdate, CommitDelete, CommitRestore, Holds, LocksPayment
  <1>3. payment[req[r].pay].deleted = (req[r].op = "restore")
    BY <1>2 DEF IInv, LocalOK, PayState
  <1>4. CASE p # req[r].pay
    <2>1. payment'[p] = payment[p] /\ credit'[p] = credit[p]
      BY <1>1, <1>4 DEF CommitUpdate, CommitDelete, CommitRestore
    <2> QED  BY <2>1 DEF CreditMirrors, Settled
  <1>5. CASE p = req[r].pay /\ CommitUpdate(r)
    <2>1. ~payment[p].deleted
      BY <1>3, <1>5 DEF CommitUpdate
    <2>2. payment'[p] = [payment[p] EXCEPT !.amount = req[r].amt, !.completed = req[r].flag]
      BY <1>1, <1>5 DEF CommitUpdate
    <2>3. /\ payment'[p].amount = req[r].amt /\ payment'[p].completed = req[r].flag
          /\ payment'[p].client = payment[p].client /\ ~payment'[p].deleted
      BY <1>1, <2>1, <2>2
    <2>4. CASE req[r].amt # payment[p].amount \/ req[r].flag # payment[p].completed
      <3>1. credit'[p] = IF req[r].flag THEN {[client |-> payment[p].client,
                                               amount |-> req[r].amt]}
                                        ELSE {}
        BY <1>1, <1>5, <2>4 DEF CommitUpdate
      <3> QED  BY <2>3, <3>1 DEF CreditMirrors, Settled
    <2>5. CASE req[r].amt = payment[p].amount /\ req[r].flag = payment[p].completed
      <3>1. credit' = credit
        BY <1>5, <2>5 DEF CommitUpdate
      <3> QED  BY <2>1, <2>3, <2>5, <3>1 DEF CreditMirrors, Settled
    <2> QED  BY <2>4, <2>5
  <1>6. CASE p = req[r].pay /\ CommitDelete(r)
    <2>1. payment'[p].deleted /\ credit'[p] = {}
      BY <1>1, <1>6 DEF CommitDelete
    <2> QED  BY <2>1 DEF CreditMirrors, Settled
  <1>7. CASE p = req[r].pay /\ CommitRestore(r)
    <2>1. payment[p].completed
      BY <1>2, <1>7 DEF PaymentInv, Knows, CommitRestore
    <2>2. /\ ~payment'[p].deleted /\ payment'[p].completed = payment[p].completed
          /\ payment'[p].client = payment[p].client
          /\ payment'[p].amount = payment[p].amount
          /\ credit'[p] = {[client |-> payment[p].client, amount |-> payment[p].amount]}
      <3>1. /\ payment' = [payment EXCEPT ![p].deleted = FALSE]
            /\ credit' = [credit EXCEPT ![p] = {[client |-> payment[p].client,
                                                 amount |-> payment[p].amount]}]
        BY <1>7 DEF CommitRestore
      <3> QED  BY <1>1, <3>1
    <2> QED  BY <2>1, <2>2 DEF CreditMirrors, Settled
  <1> QED  BY <1>4, <1>5, <1>6, <1>7

(* The credit of a payment mirrors it through every edit, delete and       *)
(* restore, whatever runs beside: they hold the payment they renew it      *)
(* from.  Only a reassign, which read the payment without a lock, takes    *)
(* them apart, and only if the payment changed meanwhile or never settled. *)
THEOREM CreditTheorem == Spec => CreditFollowsPayment
  <1>1. ASSUME IInv, TypeInv, PaymentInv, NEW r \in Requests, StepOf(r),
               NEW p \in Payments, CreditMirrors(p), ~CreditMirrors(p)'
        PROVE  /\ req[r].op = "reassign" /\ req[r].pay = p /\ req'[r] = Idle
               /\ ~Settled(p) \/ payment[p].amount # req[r].amt
    <2>1. CASE CommitReassign(r)
      <3>1. /\ payment \in [Payments -> [deleted : BOOLEAN, completed : BOOLEAN,
                                         amount : Amounts, client : Clients]]
            /\ credit \in [Payments -> SUBSET [client : Clients, amount : Amounts]]
            /\ req \in [Requests -> Locals]
        BY <1>1 DEF TypeInv, DatabaseTyped
      <3>2. req[r].op = "reassign" /\ req'[r] = Idle
        BY <2>1, <3>1 DEF CommitReassign, Done, Continue
      <3>3. req[r].pay = p
        <4>1. SUFFICES ASSUME req[r].pay # p PROVE FALSE
          OBVIOUS
        <4>2. payment'[p] = payment[p] /\ credit'[p] = credit[p]
          BY <2>1, <3>1, <4>1 DEF CommitReassign
        <4> QED  BY <1>1, <4>2 DEF CreditMirrors, Settled
      <3>4. ~Settled(p) \/ payment[p].amount # req[r].amt
        <4>1. SUFFICES ASSUME Settled(p), payment[p].amount = req[r].amt PROVE FALSE
          OBVIOUS
        <4>2. /\ payment'[p].client = req[r].client
              /\ payment'[p].amount = payment[p].amount
              /\ payment'[p].completed = payment[p].completed
              /\ payment'[p].deleted = payment[p].deleted
              /\ credit'[p] = {[client |-> req[r].client, amount |-> req[r].amt]}
          BY <2>1, <3>1, <3>3 DEF CommitReassign
        <4> QED  BY <1>1, <4>1, <4>2 DEF CreditMirrors, Settled
      <3> QED  BY <3>2, <3>3, <3>4
    <2>2. CASE CommitUpdate(r) \/ CommitDelete(r) \/ CommitRestore(r)
      BY <1>1, <2>2, CreditRenewed
    <2>3. CASE /\ ~CommitReassign(r) /\ ~CommitUpdate(r)
               /\ ~CommitDelete(r) /\ ~CommitRestore(r)
      <3>1. payment' = payment /\ credit' = credit
        BY <1>1, <2>3, BooksStay
      <3> QED  BY <1>1, <3>1 DEF CreditMirrors, Settled
    <2> QED  BY <2>1, <2>2, <2>3
  <1>2. IInv /\ TypeInv /\ PaymentInv /\ [Next]_vars
          => [\A p \in Payments : CreditMirrors(p) /\ ~CreditMirrors(p)' =>
                \E r \in Requests :
                   /\ req[r].op = "reassign" /\ req[r].pay = p /\ req'[r] = Idle
                   /\ ~Settled(p) \/ payment[p].amount # req[r].amt]_<<payment, credit>>
    BY <1>1 DEF Next, StepOf, vars
  <1> QED  BY <1>2, Invariance, TypesHold, PaymentInvariance, PTL
           DEF Spec, CreditFollowsPayment


----------------------------------------------------------------------------
(* What allocateAcrossInvoices gives *)

(* Shares taken one after the other, each no more than what is left when   *)
(* its turn comes: give cent n of share i the number before(i) + n.        *)
LEMMA SharesFit ==
    ASSUME NEW S \in SUBSET Nat, IsFiniteSet(S), NEW whole \in Nat,
           NEW share, DOMAIN share = S, \A i \in S : share[i] \in Nat,
           NEW before, \A i \in S : before[i] \in Nat,
           \A i \in S : before[i] + share[i] <= whole,
           \A i, j \in S : i < j => before[i] + share[i] <= before[j]
    PROVE  SumOver(share) <= whole
  <1> DEFINE place == [c \in Cents(share) |-> before[c[1]] + c[2]]
  <1>1. ASSUME NEW c \in Cents(share)
        PROVE  /\ c = <<c[1], c[2]>> /\ c[1] \in S
               /\ c[2] \in Nat /\ 1 <= c[2] /\ c[2] <= share[c[1]]
    BY DEF Cents
  <1>2. ASSUME NEW c \in Cents(share)
        PROVE  before[c[1]] + c[2] \in 1..whole
    BY <1>1
  <1>3. ASSUME NEW c \in Cents(share), NEW d \in Cents(share),
               before[c[1]] + c[2] = before[d[1]] + d[2]
        PROVE  c = d
    <2>1. c[1] \in Nat /\ d[1] \in Nat
      BY <1>1
    <2>2. CASE c[1] = d[1]
      <3>1. c[2] \in Nat /\ d[2] \in Nat /\ before[c[1]] \in Nat
        BY <1>1
      <3>2. c[2] = d[2]
        BY <1>3, <2>2, <3>1
      <3>3. c = <<c[1], c[2]>> /\ d = <<d[1], d[2]>>
        BY <1>1
      <3> QED
        BY <2>2, <3>2, <3>3
    <2>3. ASSUME NEW a \in Cents(share), NEW b \in Cents(share), a[1] < b[1]
          PROVE  before[a[1]] + a[2] < before[b[1]] + b[2]
      BY <1>1, <2>3
    <2> QED  BY <1>1, <1>3, <2>1, <2>2, <2>3
  <1>4. place \in Injection(Cents(share), 1..whole)
    BY <1>2, <1>3 DEF Injection, IsInjective
  <1>5. IsFiniteSet(1..whole) /\ Cardinality(1..whole) = whole
    BY FS_Interval
  <1> QED  BY <1>4, <1>5, FS_Injection DEF SumOver


(* What comes before a later share holds the share and all before it.      *)
LEMMA SharesBefore ==
    ASSUME NEW open \in SUBSET Nat, IsFiniteSet(open),
           NEW due, \A k \in open : due[k] \in Nat,
           NEW i \in open, NEW j \in open, i < j
    PROVE  SumOver([k \in {l \in open : l < i} |-> due[k]]) + due[i]
             <= SumOver([k \in {l \in open : l < j} |-> due[k]])
  <1>1. PICK S, T : S = {l \in open : l < i} /\ T = {l \in open : l < j}
    OBVIOUS
  <1>2. PICK f, g, h : /\ f = [k \in S |-> due[k]]
                       /\ g = [k \in S \cup {i} |-> due[k]]
                       /\ h = [k \in T |-> due[k]]
    OBVIOUS
  <1>3. IsFiniteSet(S) /\ IsFiniteSet(T)
    BY <1>1, FS_Subset
  <1>4. i \notin S /\ S \cup {i} \subseteq T
    <2>1. \A l \in open : l \in Nat
      OBVIOUS
    <2>2. ~(i < i) /\ \A l \in open : l < i => l < j
      BY <2>1
    <2> QED  BY <1>1, <2>2
  <1>5. SumOver(g) = SumOver(f) + due[i]
    <2>1. /\ DOMAIN f = S /\ DOMAIN g = S \cup {i}
          /\ \A k \in S : f[k] = g[k]
          /\ \A k \in S \cup {i} : g[k] \in Nat
          /\ g[i] = due[i]
      BY <1>1, <1>2
    <2>2. IsFiniteSet(S) /\ i \notin S
      BY <1>3, <1>4
    <2>3. SumOver(g) = SumOver(f) + g[i]
      BY <2>1, <2>2, SumAdds
    <2> QED  BY <2>1, <2>3
  <1>6. SumOver(g) <= SumOver(h)
    <2>1. /\ DOMAIN g \subseteq T /\ DOMAIN h = T
          /\ \A k \in T : h[k] \in Nat
          /\ \A k \in DOMAIN g : g[k] = h[k]
      BY <1>1, <1>2, <1>4
    <2> QED  BY <1>3, <2>1, SumMonotone
  <1> QED  BY <1>1, <1>2, <1>5, <1>6

LEMMA WaterfallWithin ==
    ASSUME TypeInv, NEW r \in Requests, NEW chosen \in SUBSET Invoices
    PROVE  /\ \A i \in DOMAIN Waterfall(r, chosen) :
                Waterfall(r, chosen)[i] <= Total[i] - AllocatedTo(req[r].snap.rows, i)
           /\ DOMAIN Waterfall(r, chosen) # {} =>
                SumOver(Waterfall(r, chosen))
                  <= payment[req[r].pay].amount - AllocatedOf(req[r].snap.rows, req[r].pay)
  <1> DEFINE p == req[r].pay
             snap == req[r].snap
             remainder == payment[p].amount - AllocatedOf(snap.rows, p)
             balance(i) == Total[i] - AllocatedTo(snap.rows, i)
             open == {i \in chosen : balance(i) > 0 /\ ~Applied(p, i)}
             before(i) == SumOver([j \in {k \in open : k < i} |-> balance(j)])
             to == {j \in open : before(j) < remainder}
  <1>1. p \in Payments /\ snap.rows \in [RowIds -> Row]
    BY DEF TypeInv, Locals, Snapshots
  <1>2. remainder \in Int
    <2>1. payment[p].amount \in Nat
      BY <1>1, PaymentAssumption DEF TypeInv, DatabaseTyped
    <2>2. AllocatedOf(snap.rows, p) \in Int
      BY <1>1, AllocatedTyped
    <2> QED  BY <2>1, <2>2
  <1>3. ASSUME NEW i \in Invoices PROVE balance(i) \in Int
    <2>1. AllocatedTo(snap.rows, i) \in Int
      BY <1>1, AllocatedTyped
    <2>2. Total[i] \in Nat
      BY PaymentAssumption
    <2> QED  BY <2>1, <2>2
  <1>4. PICK O, due, whole : /\ O = open /\ due = [i \in Invoices |-> balance(i)]
                             /\ whole = remainder
    OBVIOUS
  <1>5. /\ O \in SUBSET Nat /\ IsFiniteSet(O) /\ O \subseteq Invoices
        /\ \A i \in O : due[i] \in Nat \ {0}
    <2>1. O \subseteq Invoices
      BY <1>4
    <2>2. \A i \in O : balance(i) \in Nat \ {0}
      BY <1>3, <1>4
    <2> QED  BY <1>4, <2>1, <2>2, FS_Subset, PaymentAssumption
  <1>6. PICK earlier : earlier = [i \in O |-> SumOver([k \in {l \in O : l < i} |-> due[k]])]
    OBVIOUS
  <1>7. ASSUME NEW i \in O PROVE before(i) = earlier[i]
    <2>1. [j \in {k \in open : k < i} |-> balance(j)] = [k \in {l \in O : l < i} |-> due[k]]
      BY <1>4, <1>5
    <2> QED  BY <1>6, <2>1
  <1>8. ASSUME NEW i \in O PROVE earlier[i] \in Nat
    <2>1. PICK S, f : S = {l \in O : l < i} /\ f = [k \in S |-> due[k]]
      OBVIOUS
    <2>2. IsFiniteSet(S) /\ DOMAIN f = S /\ \A k \in S : f[k] \in Nat
      BY <1>5, <2>1, FS_Subset
    <2>3. SumOver(f) \in Nat
      BY <2>2, SumType
    <2> QED  BY <1>6, <2>1, <2>3
  <1>9. PICK T, plan : /\ T = {j \in O : earlier[j] < whole}
                       /\ plan = [i \in T |-> Min({due[i], whole - earlier[i]})]
    OBVIOUS
  <1>10. plan = Waterfall(r, chosen)
    <2>1. T = to
      BY <1>4, <1>7, <1>9
    <2>2. \A i \in T : due[i] = balance(i) /\ earlier[i] = before(i)
      BY <1>4, <1>5, <1>7, <1>9
    <2>3. plan = [i \in to |-> Min({balance(i), remainder - before(i)})]
      BY <1>4, <1>9, <2>1, <2>2
    <2> QED  BY <2>3 DEF Waterfall
  <1> HIDE DEF p, snap, remainder, balance, open, before, to
  <1>11. ASSUME NEW i \in T
         PROVE  /\ plan[i] \in Nat /\ plan[i] <= due[i]
                /\ earlier[i] + plan[i] <= whole
    <2>1. /\ due[i] \in Nat /\ earlier[i] \in Nat /\ whole - earlier[i] \in Nat
          /\ whole \in Int
      BY <1>2, <1>4, <1>5, <1>8, <1>9
    <2>2. PICK a, b : a = due[i] /\ b = whole - earlier[i]
      OBVIOUS
    <2>3. {a, b} \in SUBSET Nat /\ {a, b} # {}
      BY <2>1, <2>2
    <2>4. Min({a, b}) \in {a, b} /\ Min({a, b}) <= a /\ Min({a, b}) <= b
      BY <2>3, MinIsOne
    <2>5. plan[i] = Min({a, b})
      BY <1>9, <2>2
    <2> QED  BY <2>1, <2>2, <2>4, <2>5
  <1>12. ASSUME T # {}
         PROVE  SumOver(plan) <= whole
    <2>1. T \in SUBSET Nat /\ IsFiniteSet(T) /\ DOMAIN plan = T
      BY <1>5, <1>9, FS_Subset
    <2>2. whole \in Nat
      <3>1. PICK i \in T : TRUE
        BY <1>12
      <3>2. earlier[i] \in Nat /\ earlier[i] < whole /\ whole \in Int
        BY <1>2, <1>4, <1>8, <1>9
      <3> QED  BY <3>2
    <2>3. ASSUME NEW i \in T, NEW j \in T, i < j
          PROVE  earlier[i] + plan[i] <= earlier[j]
      <3>1. i \in O /\ j \in O /\ \A k \in O : due[k] \in Nat
        BY <1>5, <1>9
      <3>2. earlier[i] + due[i] <= earlier[j]
        BY <1>5, <1>6, <2>3, <3>1, SharesBefore
      <3>3. /\ earlier[i] \in Nat /\ earlier[j] \in Nat /\ due[i] \in Nat
            /\ plan[i] \in Nat /\ plan[i] <= due[i]
        BY <1>8, <1>11, <3>1
      <3> QED  BY <3>2, <3>3
    <2>4. \A i \in T : plan[i] \in Nat /\ earlier[i] \in Nat /\ earlier[i] + plan[i] <= whole
      BY <1>8, <1>9, <1>11
    <2> QED  BY <2>1, <2>2, <2>3, <2>4, SharesFit
  <1>13. DOMAIN plan = T /\ \A i \in T : due[i] = Total[i] - AllocatedTo(req[r].snap.rows, i)
    BY <1>4, <1>5, <1>9 DEF balance, snap
  <1>14. whole = payment[req[r].pay].amount - AllocatedOf(req[r].snap.rows, req[r].pay)
    BY <1>4 DEF remainder, p, snap
  <1> QED  BY <1>10, <1>11, <1>12, <1>13, <1>14

(* allocate-auto: the oldest-first waterfall never plans more than the     *)
(* rest of the payment, nor more for an invoice than it owes, for any      *)
(* invoices, any choice among them and any snapshot it can carry.          *)
THEOREM WaterfallTheorem == Spec => []WaterfallFits
  <1>1. TypeInv => WaterfallFits
    <2> SUFFICES ASSUME TypeInv, NEW r \in Requests, NEW chosen \in SUBSET Invoices
                 PROVE  LET plan == Waterfall(r, chosen)
                            snap == req[r].snap
                        IN
                        /\ \A i \in DOMAIN plan :
                             0 < plan[i] /\ plan[i] <= Total[i] - AllocatedTo(snap.rows, i)
                        /\ DOMAIN plan # {} =>
                             SumOver(plan) <= payment[req[r].pay].amount
                                                - AllocatedOf(snap.rows, req[r].pay)
      BY DEF WaterfallFits
    <2>1. \A i \in DOMAIN Waterfall(r, chosen) : 0 < Waterfall(r, chosen)[i]
      BY WaterfallTyped DEF PlanTyped
    <2> QED  BY <2>1, WaterfallWithin
  <1> QED  BY <1>1, TypesHold, PTL


=============================================================================
