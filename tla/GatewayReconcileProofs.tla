----------------------- MODULE GatewayReconcileProofs -----------------------
(* Theorems about GatewayReconcile, for any sets of deliveries, refund     *)
(* requests and subscriptions and any number of faults.                    *)
EXTENDS GatewayReconcile, TLAPS

----------------------------------------------------------------------------
(* Type correctness *)

LEMMA InitTypeOK == Init => TypeOK
  BY GatewayAssumption
     DEF Init, TypeOK, IdleHook, IdleRefunder, GatewayStatuses, References,
         EventStatuses

LEMMA FaultType == TypeOK /\ Fault => faults' \in 0..MaxFaults
  BY GatewayAssumption DEF TypeOK, Fault

LEMMA SendType ==
  ASSUME TypeOK, NEW es, Send(es)
  PROVE  subscribed' \in Subscriptions /\ sent' \subseteq subscribed'
  BY DEF TypeOK, Send

LEMMA NewStatusType ==
  \A e \in Events : NewStatus(e) \in {"succeeded", "failed", "disputed", "refunded"}
  BY DEF NewStatus

LEMMA BooksType ==
  ASSUME TypeOK, reconcilePayment \/ reverseRefund \/ UNCHANGED books
  PROVE  books' \in [payment : {"none", "completed", "refunded"},
                     credits : Nat, debits : Nat]
  <1>1. books \in [payment : {"none", "completed", "refunded"},
                   credits : Nat, debits : Nat]
    BY DEF TypeOK
  <1>2. books.credits + 1 \in Nat /\ books.debits + 1 \in Nat
    BY <1>1
  <1>3. CASE reconcilePayment
    BY <1>1, <1>2, <1>3 DEF reconcilePayment
  <1>4. CASE reverseRefund
    BY <1>1, <1>2, <1>4 DEF reverseRefund
  <1> QED
    BY <1>1, <1>3, <1>4

(* What a position implies of the local variables: a delivery under way is *)
(* of an event, and an answer that arrived is one.                         *)
BusyKnows ==
    /\ \A h \in Hooks : hook[h].pc # "idle" => hook[h].ev \in Events
    /\ maker.pc = "answered" => maker.res # "none"

LEMMA BusyInit == Init => BusyKnows
  BY DEF Init, BusyKnows, IdleHook

(* Creating the transaction keeps the types.                               *)
LEMMA MakerTypeOK == TypeOK /\ BusyKnows /\ Maker => TypeOK'
  <1> SUFFICES ASSUME TypeOK, BusyKnows, Maker PROVE TypeOK'
    OBVIOUS
  <1>1. CASE Checkout
    BY <1>1 DEF TypeOK, Checkout, Making, notMaker, GatewayStatuses, References
  <1>2. CASE InsertCharge
    BY <1>2 DEF TypeOK, InsertCharge, Making, notMaker, provider, GatewayStatuses,
                References
  <1>3. CASE CallProvider
    <2>1. subscribed' \in Subscriptions /\ sent' \subseteq subscribed'
      BY <1>3, SendType DEF CallProvider, TypeOK
    <2>2. faults' \in 0..MaxFaults
      BY <1>3, FaultType DEF CallProvider, TypeOK
    <2> QED
      BY <1>3, <2>1, <2>2 DEF TypeOK, CallProvider, notMaker
  <1>4. CASE RecordAnswer
    <2>1. tx' \in [status : GatewayStatuses, ref : References, meta : BOOLEAN]
      BY <1>4 DEF TypeOK, BusyKnows, RecordAnswer, GatewayStatuses, References,
                  Making
    <2> QED
      BY <1>4, <2>1 DEF TypeOK, RecordAnswer, Making, notMaker, provider
  <1>5. CASE StoreKey
    BY <1>5, FaultType DEF TypeOK, StoreKey, Making, notMaker, provider
  <1>6. CASE FailCharge
    BY <1>6 DEF TypeOK, FailCharge, Making, notMaker, provider, GatewayStatuses
  <1>7. CASE CrashMaker
    BY <1>7, FaultType DEF TypeOK, CrashMaker, notMaker, provider
  <1> QED
    BY <1>1, <1>2, <1>3, <1>4, <1>5, <1>6, <1>7 DEF Maker

(* So does what happens at the provider.                                   *)
LEMMA ProviderTypeOK == TypeOK /\ Provider => TypeOK'
  <1> SUFFICES ASSUME TypeOK, Provider PROVE TypeOK'
    OBVIOUS
  <1>1. UNCHANGED notProvider /\ money' \in {"none", "open", "captured", "returned"}
    BY DEF TypeOK, Provider, CustomerPays, AttemptDeclined, MoneyReturned,
           DisputeMoves
  <1>2. \E es : Send(es)
    BY DEF Provider, CustomerPays, AttemptDeclined, MoneyReturned, DisputeMoves
  <1>3. subscribed' \in Subscriptions /\ sent' \subseteq subscribed'
    BY <1>2, SendType
  <1> QED
    BY <1>1, <1>3 DEF TypeOK, notProvider

HookLocals == [pc : {"idle", "insert", "reclaim", "match", "update", "mark",
                     "post", "reverse", "chargeback", "failed"},
               ev : Events \cup {"none"}]

(* The deliveries keep the types.                                          *)
LEMMA HookTypeOK ==
  ASSUME TypeOK, BusyKnows, NEW h \in Hooks, Hook(h)
  PROVE  TypeOK'
  <1>a. hook \in [Hooks -> HookLocals] /\ event \in [Events -> EventStatuses]
    BY DEF TypeOK, HookLocals
  <1>b. IdleHook \in HookLocals
    BY DEF IdleHook, HookLocals
  <1>c. hook[h].pc # "idle" => hook[h].ev \in Events
    BY DEF BusyKnows
  <1>1. hook' \in [Hooks -> HookLocals]
    <2>1. CASE \E e \in Events : Receive(h, e)
      BY <1>a, <2>1 DEF Receive, HookLocals
    <2>2. CASE LeaveHook(h)
      BY <1>a, <1>b, <2>2 DEF LeaveHook
    <2>3. CASE \E to \in {"match", "update", "mark", "post", "reverse",
                          "chargeback", "failed"} : HookTo(h, to)
      BY <1>a, <2>3 DEF HookTo, HookLocals
    <2> QED
      BY <2>1, <2>2, <2>3
         DEF Hook, ClaimEvent, Match, UpdateStatus, MarkProcessed, HookPosts,
             HookThrows, MarkFailed, HookReverses, RecordChargeback, CrashHook
  <1>2. event' \in [Events -> EventStatuses]
    <2>1. \/ UNCHANGED event
          \/ \E status \in EventStatuses : MarkEvent(h, status)
      BY DEF Hook, Receive, ClaimEvent, Match, UpdateStatus, MarkProcessed,
             HookPosts, HookThrows, MarkFailed, HookReverses, RecordChargeback,
             CrashHook, EventStatuses
    <2> QED
      BY <1>a, <2>1 DEF MarkEvent
  <1>3. tx' \in [status : GatewayStatuses, ref : References, meta : BOOLEAN]
    <2>1. CASE UpdateStatus(h)
      <3>1. hook[h].ev \in Events
        BY <1>c, <2>1 DEF UpdateStatus, InHook
      <3>2. NewStatus(hook[h].ev) \in GatewayStatuses
        BY <3>1, NewStatusType DEF GatewayStatuses
      <3> QED
        BY <2>1, <3>2 DEF UpdateStatus, TypeOK, References
    <2>2. CASE UNCHANGED tx
      BY <2>2 DEF TypeOK
    <2> QED
      BY <2>1, <2>2
         DEF Hook, Receive, ClaimEvent, Match, MarkProcessed, HookPosts, HookThrows,
             MarkFailed, HookReverses, RecordChargeback, CrashHook
  <1>4. books' \in [payment : {"none", "completed", "refunded"},
                    credits : Nat, debits : Nat]
    <2>1. reconcilePayment \/ reverseRefund \/ UNCHANGED books
      BY DEF Hook, Receive, ClaimEvent, Match, UpdateStatus, MarkProcessed,
             HookPosts, HookThrows, MarkFailed, HookReverses, RecordChargeback,
             CrashHook
    <2> QED
      BY <2>1, BooksType
  <1>5. chargeback' \in {"none", "received", "won", "lost"}
    BY DEF TypeOK, Hook, Receive, ClaimEvent, Match, UpdateStatus,
           MarkProcessed, HookPosts, HookThrows, MarkFailed, HookReverses,
           RecordChargeback, CrashHook
  <1>6. slips' \subseteq {"overtaken", "lost", "released"}
    BY DEF TypeOK, Hook, Receive, ClaimEvent, Match, UpdateStatus,
           MarkProcessed, HookPosts, HookThrows, MarkFailed, HookReverses,
           RecordChargeback, CrashHook
  <1>7. faults' \in 0..MaxFaults
    <2>1. UNCHANGED faults \/ Fault
      BY DEF Hook, Receive, ClaimEvent, Match, UpdateStatus, MarkProcessed,
             HookPosts, HookThrows, MarkFailed, HookReverses, RecordChargeback,
             CrashHook
    <2> QED
      BY <2>1, FaultType DEF TypeOK
  <1>8. UNCHANGED notHook
    BY DEF Hook, Receive, ClaimEvent, Match, UpdateStatus, MarkProcessed,
           HookPosts, HookThrows, MarkFailed, HookReverses, RecordChargeback,
           CrashHook
  <1> QED
    BY <1>1, <1>2, <1>3, <1>4, <1>5, <1>6, <1>7, <1>8
       DEF TypeOK, notHook, provider, HookLocals

RefundLocals == [pc : {"idle", "claim", "call", "release", "record", "reverse"},
                 ref : References]

(* So do the refund requests.                                              *)
LEMMA RefundTypeOK ==
  ASSUME TypeOK, NEW r \in Refunders, Refund(r)
  PROVE  TypeOK'
  <1>a. refunder \in [Refunders -> RefundLocals]
    BY DEF TypeOK, RefundLocals
  <1>b. IdleRefunder \in RefundLocals
    BY DEF IdleRefunder, RefundLocals, References
  <1>c. tx \in [status : GatewayStatuses, ref : References, meta : BOOLEAN]
    BY DEF TypeOK
  <1>1. refunder' \in [Refunders -> RefundLocals]
    <2>1. CASE ReadRefundable(r)
      BY <1>a, <1>c, <2>1 DEF ReadRefundable, RefundLocals
    <2>2. CASE LeaveRefund(r)
      BY <1>a, <1>b, <2>2 DEF LeaveRefund
    <2>3. CASE \E to \in {"call", "release", "record", "reverse"} : RefundTo(r, to)
      BY <1>a, <2>3 DEF RefundTo, RefundLocals
    <2> QED
      BY <2>1, <2>2, <2>3
         DEF Refund, ClaimRefund, CallRefund, ReleaseRefund, RecordRefund,
             RefundReverses, CrashRefund
  <1>2. tx' \in [status : GatewayStatuses, ref : References, meta : BOOLEAN]
    <2>1. \/ UNCHANGED tx
          \/ tx' = [tx EXCEPT !.status = "refunded"]
          \/ tx' = [tx EXCEPT !.status = "succeeded"]
          \/ tx' = [tx EXCEPT !.ref = "refund"]
      BY <1>c DEF Refund, ReadRefundable, ClaimRefund, CallRefund,
                  ReleaseRefund, RecordRefund, RefundReverses, CrashRefund
    <2>2. "refunded" \in GatewayStatuses /\ "succeeded" \in GatewayStatuses
          /\ "refund" \in References
      BY DEF GatewayStatuses, References
    <2> QED
      BY <1>c, <2>1, <2>2
  <1>3. books' \in [payment : {"none", "completed", "refunded"},
                    credits : Nat, debits : Nat]
    <2>1. reverseRefund \/ UNCHANGED books
      BY DEF Refund, ReadRefundable, ClaimRefund, CallRefund, ReleaseRefund,
             RecordRefund, RefundReverses, CrashRefund
    <2> QED
      BY <2>1, BooksType
  <1>4. /\ money' \in {"none", "open", "captured", "returned"}
        /\ subscribed' \in Subscriptions
        /\ sent' \subseteq subscribed'
    <2>1. \/ UNCHANGED provider
          \/ money' = "returned" /\ Send({"refunded"})
      BY DEF Refund, ReadRefundable, ClaimRefund, CallRefund, ReleaseRefund,
             RecordRefund, RefundReverses, CrashRefund
    <2>2. CASE UNCHANGED provider
      BY <2>2 DEF TypeOK, provider
    <2>3. CASE money' = "returned" /\ Send({"refunded"})
      BY <2>3, SendType
    <2> QED
      BY <2>1, <2>2, <2>3
  <1>5. slips' \subseteq {"overtaken", "lost", "released"}
    BY DEF TypeOK, Refund, ReadRefundable, ClaimRefund, CallRefund,
           ReleaseRefund, RecordRefund, RefundReverses, CrashRefund
  <1>6. faults' \in 0..MaxFaults
    <2>1. UNCHANGED faults \/ Fault
      BY DEF Refund, ReadRefundable, ClaimRefund, CallRefund, ReleaseRefund,
             RecordRefund, RefundReverses, CrashRefund
    <2> QED
      BY <2>1, FaultType DEF TypeOK
  <1>7. UNCHANGED notRefund
    BY DEF Refund, ReadRefundable, ClaimRefund, CallRefund, ReleaseRefund,
           RecordRefund, RefundReverses, CrashRefund
  <1> QED
    BY <1>1, <1>2, <1>3, <1>4, <1>5, <1>6, <1>7
       DEF TypeOK, notRefund, RefundLocals

(* And the sweep.                                                          *)
LEMMA SweepTypeOK == TypeOK /\ SweepStep => TypeOK'
  <1> SUFFICES ASSUME TypeOK, SweepStep PROVE TypeOK'
    OBVIOUS
  <1>1. sweep' \in {"idle", "post"} /\ UNCHANGED notSweep
    BY DEF SweepStep, SweepSelect, SweepPosts
  <1>2. books' \in [payment : {"none", "completed", "refunded"},
                    credits : Nat, debits : Nat]
    BY BooksType DEF SweepStep, SweepSelect, SweepPosts
  <1>3. faults' \in 0..MaxFaults
    BY FaultType DEF TypeOK, SweepStep, SweepSelect, SweepPosts
  <1> QED
    BY <1>1, <1>2, <1>3 DEF TypeOK, notSweep, provider

(* Only a delivery's own steps move it, and only to an event or to rest.   *)
LEMMA BusyStep == TypeOK /\ BusyKnows /\ [Next]_vars => BusyKnows'
  <1> SUFFICES ASSUME TypeOK, BusyKnows, [Next]_vars PROVE BusyKnows'
    OBVIOUS
  <1>1. CASE Maker
    <2>1. maker'.pc = "answered" => maker'.res # "none"
      BY <1>1 DEF TypeOK, BusyKnows, Maker, Checkout, InsertCharge, CallProvider,
                  RecordAnswer, StoreKey, FailCharge, CrashMaker, Making
    <2>2. UNCHANGED hook
      BY <1>1 DEF Maker, Checkout, InsertCharge, CallProvider, RecordAnswer,
                  StoreKey, FailCharge, CrashMaker, notMaker
    <2> QED
      BY <2>1, <2>2 DEF BusyKnows
  <1>2. ASSUME NEW h \in Hooks, Hook(h) PROVE BusyKnows'
    <2>a. hook \in [Hooks -> HookLocals]
      BY DEF TypeOK, HookLocals
    <2>1. UNCHANGED maker
      BY <1>2 DEF Hook, Receive, ClaimEvent, Match, UpdateStatus,
                  MarkProcessed, HookPosts, HookThrows, MarkFailed, HookReverses,
                  RecordChargeback, CrashHook, notHook
    <2>2. \A g \in Hooks \ {h} : hook'[g] = hook[g]
      BY <1>2, <2>a DEF Hook, Receive, ClaimEvent, Match, UpdateStatus,
                  MarkProcessed, HookPosts, HookThrows, MarkFailed, HookReverses,
                  RecordChargeback, CrashHook, HookTo, LeaveHook
    <2>3. hook'[h].pc # "idle" => hook'[h].ev \in Events
      <3>1. CASE \E e \in Events : Receive(h, e)
        BY <2>a, <3>1 DEF Receive
      <3>2. CASE LeaveHook(h)
        BY <2>a, <3>2 DEF LeaveHook, IdleHook
      <3>3. CASE hook[h].pc # "idle" /\ \E to : HookTo(h, to)
        BY <2>a, <3>3 DEF HookTo, HookLocals, BusyKnows
      <3> QED
        BY <1>2, <3>1, <3>2, <3>3
           DEF Hook, ClaimEvent, Match, UpdateStatus, MarkProcessed, HookPosts,
               HookThrows, MarkFailed, HookReverses, RecordChargeback, CrashHook,
               InHook
    <2> QED
      BY <2>1, <2>2, <2>3 DEF BusyKnows
  <1>3. CASE UNCHANGED <<hook, maker>>
    BY <1>3 DEF BusyKnows
  <1> QED
    BY <1>1, <1>2, <1>3
       DEF Next, Provider, CustomerPays, AttemptDeclined, MoneyReturned,
           DisputeMoves, notProvider, Refund, ReadRefundable, ClaimRefund,
           CallRefund, ReleaseRefund, RecordRefund, RefundReverses, CrashRefund,
           notRefund, SweepStep, SweepSelect, SweepPosts, notSweep, vars

LEMMA StepTypeOK == TypeOK /\ BusyKnows /\ [Next]_vars => TypeOK'
  <1> SUFFICES ASSUME TypeOK, BusyKnows, [Next]_vars PROVE TypeOK'
    OBVIOUS
  <1>1. CASE UNCHANGED vars
    BY <1>1 DEF TypeOK, vars, provider
  <1> QED
    BY <1>1, MakerTypeOK, ProviderTypeOK, SweepTypeOK, HookTypeOK, RefundTypeOK
       DEF Next

(* Every reachable state is well typed.                                    *)
THEOREM TypeCorrect == Spec => [](TypeOK /\ BusyKnows)
  <1>1. Init => TypeOK /\ BusyKnows
    BY InitTypeOK, BusyInit
  <1>2. (TypeOK /\ BusyKnows) /\ [Next]_vars => (TypeOK /\ BusyKnows)'
    BY StepTypeOK, BusyStep
  <1> QED
    BY <1>1, <1>2, PTL DEF Spec

(* Every variable stays among the values the columns and the code's        *)
(* positions can have.                                                     *)
THEOREM GatewayTyped == Spec => []TypeOK
  BY TypeCorrect, PTL

----------------------------------------------------------------------------
(* The ledger *)

(* Whatever happens, the payment and its entries change by posting or      *)
(* reversing only.                                                         *)
LEMMA BooksStep ==
  ASSUME [Next]_vars
  PROVE  reconcilePayment \/ reverseRefund \/ UNCHANGED books
  <1>1. CASE Maker
    BY <1>1 DEF Maker, Checkout, InsertCharge, CallProvider, RecordAnswer,
                StoreKey, FailCharge, CrashMaker, notMaker
  <1>2. CASE Provider
    BY <1>2 DEF Provider, CustomerPays, AttemptDeclined, MoneyReturned,
                DisputeMoves, notProvider
  <1>3. CASE SweepStep
    BY <1>3 DEF SweepStep, SweepSelect, SweepPosts
  <1>4. ASSUME NEW h \in Hooks, Hook(h)
        PROVE  reconcilePayment \/ reverseRefund \/ UNCHANGED books
    BY <1>4 DEF Hook, Receive, ClaimEvent, Match, UpdateStatus, MarkProcessed,
                HookPosts, HookThrows, MarkFailed, HookReverses, RecordChargeback,
                CrashHook
  <1>5. ASSUME NEW r \in Refunders, Refund(r)
        PROVE  reverseRefund \/ UNCHANGED books
    BY <1>5 DEF Refund, ReadRefundable, ClaimRefund, CallRefund, ReleaseRefund,
                RecordRefund, RefundReverses, CrashRefund
  <1> QED
    BY <1>1, <1>2, <1>3, <1>4, <1>5 DEF Next, vars

(* The payment is posted at most once and reversed at most once, whatever  *)
(* deliveries, sweeps and refunds meet: each of reconcilePayment and       *)
(* reverseRefund judges the payment inside the transaction that changes it.*)
THEOREM LedgerTheorem == Spec => []LedgerMatchesPayment
  <1>1. Init => LedgerMatchesPayment
    BY DEF Init, LedgerMatchesPayment
  <1>2. TypeOK /\ LedgerMatchesPayment /\ [Next]_vars => LedgerMatchesPayment'
    <2> SUFFICES ASSUME TypeOK, LedgerMatchesPayment, [Next]_vars
                 PROVE  LedgerMatchesPayment'
      OBVIOUS
    <2>1. books \in [payment : {"none", "completed", "refunded"},
                     credits : Nat, debits : Nat]
      BY DEF TypeOK
    <2>2. CASE UNCHANGED books
      BY <2>2 DEF LedgerMatchesPayment
    <2>3. CASE reconcilePayment /\ ~UNCHANGED books
      <3>1. books.payment = "none" /\ books.credits = 0 /\ books.debits = 0
        BY <2>3 DEF reconcilePayment, LedgerMatchesPayment
      <3>2. books' = [books EXCEPT !.payment = "completed", !.credits = @ + 1]
        BY <2>3 DEF reconcilePayment
      <3>3. books'.payment = "completed" /\ books'.credits = 1 /\ books'.debits = 0
        BY <2>1, <3>1, <3>2
      <3> QED
        BY <3>3 DEF LedgerMatchesPayment
    <2>4. CASE reverseRefund /\ ~UNCHANGED books
      <3>1. books.payment = "completed" /\ books.credits = 1 /\ books.debits = 0
        BY <2>4 DEF reverseRefund, LedgerMatchesPayment
      <3>2. books' = [books EXCEPT !.payment = "refunded", !.debits = @ + 1]
        BY <2>4 DEF reverseRefund
      <3>3. books'.payment = "refunded" /\ books'.credits = 1 /\ books'.debits = 1
        BY <2>1, <3>1, <3>2
      <3> QED
        BY <3>3 DEF LedgerMatchesPayment
    <2> QED
      BY <2>2, <2>3, <2>4, BooksStep
  <1> QED
    BY <1>1, <1>2, TypeCorrect, PTL DEF Spec

----------------------------------------------------------------------------
(* One delivery processes an event *)

Claimed == {"match", "update", "mark"}

(* An event some delivery holds is processing, or processed and being      *)
(* followed up; and a delivery that holds an event holds it alone.         *)
ClaimInv ==
    /\ \A h \in Hooks : hook[h].pc \in Claimed => event[hook[h].ev] = "processing"
    /\ \A h \in Hooks : hook[h].pc = "post" => event[hook[h].ev] = "processed"
    /\ \A h \in Hooks : hook[h].pc = "failed" =>
          event[hook[h].ev] \in {"processing", "processed"}
    /\ \A g, h \in Hooks :
          /\ hook[g].pc \in Claimed \cup {"post", "failed"}
          /\ hook[h].pc \in Claimed \cup {"post", "failed"}
          /\ hook[g].ev = hook[h].ev
          => g = h

(* A step that leaves the deliveries and the events alone keeps it.        *)
LEMMA ClaimUnmoved == ClaimInv /\ UNCHANGED <<hook, event>> => ClaimInv'
  BY DEF ClaimInv

(* A delivery's own steps keep it: it is claimed only when no delivery     *)
(* holds its event, and an event is marked only by the delivery that does. *)
LEMMA ClaimHook ==
  ASSUME TypeOK, BusyKnows, ClaimInv, NEW h \in Hooks, Hook(h)
  PROVE  ClaimInv'
  <1>a. hook \in [Hooks -> HookLocals] /\ event \in [Events -> EventStatuses]
    BY DEF TypeOK, HookLocals
  <1>c. hook[h].pc # "idle" => hook[h].ev \in Events
    BY DEF BusyKnows
  <1>d. \A g \in Hooks : hook[g].pc # "idle" => hook[g].ev \in Events
    BY DEF BusyKnows
  (* Leaving needs the event's status only from other deliveries.          *)
  <1>1. CASE LeaveHook(h) /\ UNCHANGED event
    BY <1>1, <1>a DEF LeaveHook, IdleHook, ClaimInv, Claimed
  <1>2. ASSUME NEW st, LeaveHook(h), MarkEvent(h, st),
               hook[h].pc \in Claimed \cup {"post", "failed"}
        PROVE  ClaimInv'
    <2>1. \A g \in Hooks \ {h} :
             hook[g].pc \in Claimed \cup {"post", "failed"} => hook[g].ev # hook[h].ev
      BY <1>2 DEF ClaimInv
    <2> QED
      BY <1>2, <1>a, <1>d, <2>1
         DEF LeaveHook, IdleHook, MarkEvent, ClaimInv, Claimed
  <1>3. CASE \E e \in Events : Receive(h, e)
    BY <1>3, <1>a DEF Receive, ClaimInv, Claimed
  <1>4. CASE ClaimEvent(h)
    <2>1. CASE UNCHANGED event /\ LeaveHook(h)
      BY <2>1, <1>1
    <2>2. CASE /\ event[hook[h].ev] \in {"none", "failed", "no_match"}
               /\ MarkEvent(h, "processing") /\ HookTo(h, "match")
               /\ hook[h].pc # "idle"
      <3>1. \A g \in Hooks : hook[g].pc \in Claimed \cup {"post", "failed"} =>
               hook[g].ev # hook[h].ev
        BY <2>2 DEF ClaimInv
      <3> QED
        BY <2>2, <3>1, <1>a, <1>d DEF MarkEvent, HookTo, ClaimInv, Claimed
    <2> QED
      BY <1>4, <2>1, <2>2 DEF ClaimEvent, InHook
  <1>5. CASE Match(h)
    <2>1. CASE HookTo(h, "update") /\ UNCHANGED event
      BY <1>5, <2>1, <1>a DEF Match, InHook, HookTo, ClaimInv, Claimed
    <2>2. CASE LeaveHook(h) /\ \E st : MarkEvent(h, st)
      BY <1>5, <2>2, <1>2 DEF Match, InHook, Claimed
    <2> QED
      BY <1>5, <2>1, <2>2 DEF Match
  <1>6. CASE UpdateStatus(h)
    BY <1>6, <1>a DEF UpdateStatus, InHook, HookTo, ClaimInv, Claimed
  <1>7. CASE MarkProcessed(h)
    <2>1. CASE LeaveHook(h)
      BY <1>7, <2>1, <1>2 DEF MarkProcessed, InHook, Claimed
    <2>2. ASSUME NEW to \in {"post", "reverse", "chargeback"}, HookTo(h, to)
          PROVE  ClaimInv'
      <3>1. \A g \in Hooks \ {h} :
               hook[g].pc \in Claimed \cup {"post", "failed"} => hook[g].ev # hook[h].ev
        BY <1>7 DEF ClaimInv, MarkProcessed, InHook, Claimed
      <3>2. event'[hook[h].ev] = "processed"
        BY <1>7, <1>a, <1>c DEF MarkProcessed, MarkEvent, InHook
      <3>3. \A e \in Events \ {hook[h].ev} : event'[e] = event[e]
        BY <1>7, <1>a DEF MarkProcessed, MarkEvent
      <3>4. hook'[h].pc = to /\ hook'[h].ev = hook[h].ev
            /\ \A g \in Hooks \ {h} : hook'[g] = hook[g]
        BY <2>2, <1>a DEF HookTo, HookLocals
      <3> QED
        BY <3>1, <3>2, <3>3, <3>4, <1>d DEF ClaimInv, Claimed
    <2> QED
      BY <1>7, <2>1, <2>2 DEF MarkProcessed
  <1>8. CASE HookPosts(h)
    BY <1>8, <1>1 DEF HookPosts
  <1>12. CASE HookThrows(h)
    BY <1>12, <1>a DEF HookThrows, HookTo, ClaimInv, Claimed
  <1>9. CASE MarkFailed(h)
    BY <1>9, <1>2 DEF MarkFailed, InHook
  <1>10. CASE HookReverses(h)
    <2>1. CASE HookTo(h, "chargeback")
      BY <1>10, <2>1, <1>a DEF HookReverses, InHook, HookTo, ClaimInv, Claimed
    <2> QED
      BY <1>10, <2>1, <1>1 DEF HookReverses
  <1>11. CASE RecordChargeback(h) \/ CrashHook(h)
    BY <1>11, <1>1 DEF RecordChargeback, CrashHook
  <1> QED
    BY <1>3, <1>4, <1>5, <1>6, <1>7, <1>8, <1>9, <1>10, <1>11, <1>12 DEF Hook

(* Nothing but a delivery's steps moves deliveries or marks events.        *)
LEMMA ClaimStep == TypeOK /\ BusyKnows /\ ClaimInv /\ [Next]_vars => ClaimInv'
  <1> SUFFICES ASSUME TypeOK, BusyKnows, ClaimInv, [Next]_vars PROVE ClaimInv'
    OBVIOUS
  <1>1. CASE \E h \in Hooks : Hook(h)
    BY <1>1, ClaimHook
  <1>2. CASE Maker
    BY <1>2, ClaimUnmoved
       DEF Maker, Checkout, InsertCharge, CallProvider, RecordAnswer, StoreKey,
           FailCharge, CrashMaker, notMaker
  <1>3. CASE Provider
    BY <1>3, ClaimUnmoved
       DEF Provider, CustomerPays, AttemptDeclined, MoneyReturned, DisputeMoves,
           notProvider
  <1>4. CASE SweepStep
    BY <1>4, ClaimUnmoved DEF SweepStep, SweepSelect, SweepPosts, notSweep
  <1>5. CASE \E r \in Refunders : Refund(r)
    BY <1>5, ClaimUnmoved
       DEF Refund, ReadRefundable, ClaimRefund, CallRefund, ReleaseRefund,
           RecordRefund, RefundReverses, CrashRefund, notRefund
  <1>6. CASE UNCHANGED vars
    BY <1>6, ClaimUnmoved DEF vars
  <1> QED
    BY <1>1, <1>2, <1>3, <1>4, <1>5, <1>6 DEF Next

(* Concurrent deliveries of one event are duplicates, for any number of    *)
(* them and also when a failed event is taken up again: the unique key of  *)
(* the INSERT and the compare-and-set of the claim let one through.        *)
THEOREM OneDeliveryTheorem == Spec => []OneDeliveryProcesses
  <1>1. Init => ClaimInv
    BY DEF Init, ClaimInv, IdleHook, Claimed
  <1>2. ClaimInv => OneDeliveryProcesses
    BY DEF ClaimInv, OneDeliveryProcesses, Claimed
  <1> QED
    BY <1>1, <1>2, ClaimStep, TypeCorrect, PTL DEF Spec

----------------------------------------------------------------------------
(* What is reversed was returned *)

Return == {"refunded", "dispute_lost"}

(* The provider's word for a return is the money's return; a delivery is   *)
(* of an event that was sent; whoever is about to reverse has that word or *)
(* the provider's answer.  Nobody creates the charge a second time, so the *)
(* money, once returned, stays so.                                         *)
ReturnInv ==
    /\ maker.pc \in {"start", "calling"} => money = "none"
    /\ sent \cap Return # {} => money = "returned"
    /\ \A h \in Hooks : hook[h].pc # "idle" => hook[h].ev \in sent
    /\ \A h \in Hooks : hook[h].pc = "reverse" => hook[h].ev \in Return
    /\ \A r \in Refunders : refunder[r].pc \in {"record", "reverse"} =>
          money = "returned"
    /\ ReversedWasReturned

(* A step keeps the first two, and takes no return back, if ...            *)
MoneyKept ==
    /\ maker'.pc \in {"start", "calling"} => money' = "none"
    /\ sent' \cap Return # {} => money' = "returned"
    /\ sent \subseteq sent'
    /\ money = "returned" => money' = "returned"

LEMMA MoneyMaker == ASSUME TypeOK, ReturnInv, Maker PROVE MoneyKept
  <1>1. CASE Checkout
    BY <1>1 DEF TypeOK, Checkout, Making, ReturnInv, MoneyKept
  <1>2. CASE CallProvider
    BY <1>2 DEF TypeOK, CallProvider, Send, ReturnInv, MoneyKept, Return
  <1>3. CASE InsertCharge \/ RecordAnswer \/ StoreKey \/ FailCharge \/ CrashMaker
    BY <1>3 DEF TypeOK, InsertCharge, RecordAnswer, StoreKey, FailCharge,
                CrashMaker, Making, provider, ReturnInv, MoneyKept
  <1> QED
    BY <1>1, <1>2, <1>3 DEF Maker

LEMMA MoneyProvider == ASSUME ReturnInv, Provider PROVE MoneyKept
  <1>1. money \in {"open", "captured"} /\ UNCHANGED maker
    BY DEF Provider, CustomerPays, AttemptDeclined, MoneyReturned, DisputeMoves,
           notProvider
  <1>2. maker.pc \notin {"start", "calling"} /\ sent \cap Return = {}
    BY <1>1 DEF ReturnInv
  <1>3. sent \subseteq sent' /\ (sent' \cap Return # {} => money' = "returned")
    BY <1>2 DEF Provider, CustomerPays, AttemptDeclined, MoneyReturned,
                DisputeMoves, Send, Return
  <1> QED
    BY <1>1, <1>2, <1>3 DEF MoneyKept

LEMMA MoneyRefund ==
  ASSUME ReturnInv, NEW r \in Refunders, Refund(r) PROVE MoneyKept
  <1>1. UNCHANGED maker
    BY DEF Refund, ReadRefundable, ClaimRefund, CallRefund, ReleaseRefund,
           RecordRefund, RefundReverses, CrashRefund, notRefund
  <1>2. CASE money = "captured" /\ money' = "returned" /\ Send({"refunded"})
    BY <1>1, <1>2 DEF ReturnInv, Send, MoneyKept
  <1>3. CASE UNCHANGED provider
    BY <1>1, <1>3 DEF ReturnInv, provider, MoneyKept
  <1> QED
    BY <1>2, <1>3 DEF Refund, ReadRefundable, ClaimRefund, CallRefund,
           ReleaseRefund, RecordRefund, RefundReverses, CrashRefund

LEMMA MoneyStep == ASSUME TypeOK, ReturnInv, [Next]_vars PROVE MoneyKept
  <1>1. CASE \E h \in Hooks : Hook(h)
    <2>1. UNCHANGED <<provider, maker>>
      BY <1>1 DEF Hook, Receive, ClaimEvent, Match, UpdateStatus,
             MarkProcessed, HookPosts, HookThrows, MarkFailed, HookReverses,
             RecordChargeback, CrashHook, notHook
    <2> QED
      BY <2>1 DEF ReturnInv, provider, MoneyKept
  <1>2. CASE SweepStep \/ UNCHANGED vars
    BY <1>2 DEF SweepStep, SweepSelect, SweepPosts, notSweep, vars, provider,
                ReturnInv, MoneyKept
  <1> QED
    BY <1>1, <1>2, MoneyMaker, MoneyProvider, MoneyRefund DEF Next

(* Deliveries know what they are about.                                    *)
HooksKnow == \A h \in Hooks : /\ hook[h].pc # "idle" => hook[h].ev \in sent
                              /\ hook[h].pc = "reverse" => hook[h].ev \in Return

LEMMA HooksKnowStep ==
  ASSUME TypeOK, BusyKnows, ReturnInv, [Next]_vars PROVE HooksKnow'
  <1>s. sent \subseteq sent'
    BY MoneyStep DEF MoneyKept
  <1>i. HooksKnow
    BY DEF ReturnInv, HooksKnow
  <1>1. ASSUME NEW h \in Hooks, Hook(h) PROVE HooksKnow'
    <2>a. hook \in [Hooks -> HookLocals]
      BY DEF TypeOK, HookLocals
    <2>1. \A g \in Hooks \ {h} : hook'[g] = hook[g]
      BY <1>1, <2>a DEF Hook, Receive, ClaimEvent, Match, UpdateStatus,
                  MarkProcessed, HookPosts, HookThrows, MarkFailed, HookReverses,
                  RecordChargeback, CrashHook, HookTo, LeaveHook
    <2>2. /\ hook'[h].pc # "idle" => hook'[h].ev \in sent
          /\ hook'[h].pc = "reverse" => hook'[h].ev \in Return
      <3>1. CASE \E e \in Events : Receive(h, e)
        BY <2>a, <3>1 DEF Receive
      <3>2. CASE LeaveHook(h)
        BY <2>a, <3>2 DEF LeaveHook, IdleHook
      <3>3. CASE hook[h].pc # "idle"
                 /\ \E to \in {"match", "update", "mark", "post", "chargeback",
                               "failed"} : HookTo(h, to)
        BY <2>a, <3>3, <1>i DEF HookTo, HookLocals, HooksKnow
      <3>4. CASE MarkProcessed(h) /\ HookTo(h, "reverse")
        <4>1. hook'[h] = [hook[h] EXCEPT !.pc = "reverse"]
              /\ hook[h] \in HookLocals /\ hook[h].pc = "mark"
          BY <3>4, <2>a DEF MarkProcessed, InHook, HookTo
        <4>2. hook[h].ev \in Events /\ hook[h].ev \in sent
          BY <4>1, <1>i DEF BusyKnows, HooksKnow
        <4>3. NewStatus(hook[h].ev) = "refunded"
          BY <3>4, <4>1, <4>2, NewStatusType
             DEF MarkProcessed, HookTo, LeaveHook, IdleHook, HookLocals
        <4>4. hook[h].ev \in Return
          BY <4>2, <4>3 DEF NewStatus, Events, Return
        <4> QED
          BY <4>1, <4>2, <4>4 DEF HookLocals
      <3> QED
        BY <1>1, <3>1, <3>2, <3>3, <3>4
           DEF Hook, ClaimEvent, Match, UpdateStatus, MarkProcessed, HookPosts,
               HookThrows, MarkFailed, HookReverses, RecordChargeback, CrashHook,
               InHook
    <2> QED
      BY <2>1, <2>2, <1>i, <1>s DEF HooksKnow
  <1>2. CASE UNCHANGED hook
    BY <1>2, <1>i, <1>s DEF HooksKnow
  <1> QED
    BY <1>1, <1>2
       DEF Next, Maker, Checkout, InsertCharge, CallProvider, RecordAnswer,
           StoreKey, FailCharge, CrashMaker, notMaker,
           Provider, CustomerPays, AttemptDeclined, MoneyReturned,
           DisputeMoves, notProvider, Refund, ReadRefundable, ClaimRefund,
           CallRefund, ReleaseRefund, RecordRefund, RefundReverses, CrashRefund,
           notRefund, SweepStep, SweepSelect, SweepPosts, notSweep, vars

(* A refund request goes on to its reversal only on the provider's answer. *)
RefundersKnow == \A r \in Refunders :
    refunder[r].pc \in {"record", "reverse"} => money = "returned"

LEMMA RefundersKnowStep ==
  ASSUME TypeOK, ReturnInv, [Next]_vars PROVE RefundersKnow'
  <1>s. money = "returned" => money' = "returned"
    BY MoneyStep DEF MoneyKept
  <1>i. RefundersKnow
    BY DEF ReturnInv, RefundersKnow
  <1>1. ASSUME NEW r \in Refunders, Refund(r) PROVE RefundersKnow'
    <2>a. refunder \in [Refunders -> RefundLocals]
      BY DEF TypeOK, RefundLocals
    <2>1. \A q \in Refunders \ {r} : refunder'[q] = refunder[q]
      BY <1>1, <2>a DEF Refund, ReadRefundable, ClaimRefund, CallRefund,
                  ReleaseRefund, RecordRefund, RefundReverses, CrashRefund,
                  RefundTo, LeaveRefund
    <2>2. refunder'[r].pc \in {"record", "reverse"} => money' = "returned"
      <3>1. CASE CallRefund(r) \/ RecordRefund(r)
        BY <3>1, <2>a, <1>i, <1>s
           DEF CallRefund, RecordRefund, RefundTo, RefundLocals, RefundersKnow
      <3>2. CASE RefundTo(r, "call") \/ LeaveRefund(r) \/ ReadRefundable(r)
        BY <3>2, <2>a
           DEF ReadRefundable, LeaveRefund, IdleRefunder, RefundTo, RefundLocals
      <3> QED
        BY <1>1, <3>1, <3>2 DEF Refund, ClaimRefund, ReleaseRefund,
                                RefundReverses, CrashRefund
    <2> QED
      BY <2>1, <2>2, <1>i, <1>s DEF RefundersKnow
  <1>2. CASE UNCHANGED refunder
    BY <1>2, <1>i, <1>s DEF RefundersKnow
  <1> QED
    BY <1>1, <1>2
       DEF Next, Maker, Checkout, InsertCharge, CallProvider, RecordAnswer,
           StoreKey, FailCharge, CrashMaker, notMaker, Provider, CustomerPays,
           AttemptDeclined, MoneyReturned, DisputeMoves, notProvider, Hook,
           Receive, ClaimEvent, Match, UpdateStatus, MarkProcessed, HookPosts,
           HookThrows, MarkFailed, HookReverses, RecordChargeback, CrashHook,
           notHook, SweepStep, SweepSelect, SweepPosts, notSweep, vars

(* Whoever reverses knows that the money went back.                        *)
LEMMA ReversedStep ==
  ASSUME TypeOK, ReturnInv, [Next]_vars PROVE ReversedWasReturned'
  <1>s. money = "returned" => money' = "returned"
    BY MoneyStep DEF MoneyKept
  <1>i. ReversedWasReturned
    BY DEF ReturnInv
  <1>1. CASE UNCHANGED books
    BY <1>1, <1>s, <1>i DEF ReversedWasReturned
  <1>2. CASE reconcilePayment /\ ~UNCHANGED books
    <2>1. books' = [books EXCEPT !.payment = "completed", !.credits = @ + 1]
      BY <1>2 DEF reconcilePayment
    <2>2. books'.payment = "completed"
      BY <2>1 DEF TypeOK
    <2> QED
      BY <2>2 DEF ReversedWasReturned
  <1>3. ASSUME NEW h \in Hooks, HookReverses(h) PROVE money = "returned"
    BY <1>3 DEF HookReverses, InHook, ReturnInv
  <1>4. ASSUME NEW r \in Refunders, RefundReverses(r) PROVE money = "returned"
    BY <1>4 DEF RefundReverses, ReturnInv
  <1>5. \/ reconcilePayment \/ UNCHANGED books
        \/ \E h \in Hooks : HookReverses(h)
        \/ \E r \in Refunders : RefundReverses(r)
    BY DEF Next, Maker, Checkout, InsertCharge, CallProvider, RecordAnswer,
           StoreKey, FailCharge, CrashMaker, notMaker,
           Provider, CustomerPays, AttemptDeclined, MoneyReturned,
           DisputeMoves, notProvider, Hook, Receive, ClaimEvent, Match,
           UpdateStatus, MarkProcessed, HookPosts, HookThrows, MarkFailed,
           RecordChargeback, CrashHook, SweepStep, SweepSelect,
           SweepPosts, Refund, ReadRefundable, ClaimRefund, CallRefund,
           ReleaseRefund, RecordRefund, CrashRefund, vars
  <1> QED
    BY <1>s, <1>1, <1>2, <1>3, <1>4, <1>5 DEF ReversedWasReturned

(* A payment is reversed only when the provider has really returned the    *)
(* money (reverseRefund, called by the refund request on the provider's    *)
(* answer and by a delivery of an event that says so), for any number of   *)
(* requests, deliveries and faults.                                        *)
THEOREM ReversedTheorem == Spec => []ReversedWasReturned
  <1>1. Init => ReturnInv
    BY DEF Init, ReturnInv, ReversedWasReturned, IdleHook, IdleRefunder
  <1>2. TypeOK /\ BusyKnows /\ ReturnInv /\ [Next]_vars => ReturnInv'
    BY MoneyStep, HooksKnowStep, RefundersKnowStep, ReversedStep
       DEF ReturnInv, MoneyKept, HooksKnow, RefundersKnow
  <1>3. ReturnInv => ReversedWasReturned
    BY DEF ReturnInv
  <1> QED
    BY <1>1, <1>2, <1>3, TypeCorrect, PTL DEF Spec

----------------------------------------------------------------------------
(* One refund at the provider *)

(* Until the provider's answer is stored nothing finds the row: no         *)
(* delivery updates it and nobody refunds it.                              *)
Unfindable ==
    maker.pc \in {"start", "calling", "answered"} =>
       /\ tx.status \in {"absent", "pending"}
       /\ tx.ref = "provisional"
       /\ ~tx.meta
       /\ \A h \in Hooks : hook[h].pc # "update"
       /\ \A r \in Refunders : refunder[r].pc = "idle"

(* A request that has claimed the refund finds its claim in the row, which *)
(* only that request gives back, unless a slip took it away.               *)
Asking(r) == refunder[r].pc \in {"call", "release", "record"}
Kept == "overtaken" \notin slips

ClaimsHold ==
    Kept => /\ \A r \in Refunders : Asking(r) => tx.status = "refunded"
            /\ \A r, q \in Refunders : Asking(r) /\ Asking(q) => r = q

LEMMA UnfindableMaker ==
  ASSUME TypeOK, Unfindable, Maker PROVE Unfindable'
  <1>1. CASE InsertCharge
    BY <1>1 DEF TypeOK, InsertCharge, Making, notMaker, Unfindable
  <1>2. CASE CallProvider
    BY <1>2 DEF TypeOK, CallProvider, notMaker, Unfindable
  <1>3. CASE Checkout \/ RecordAnswer \/ StoreKey \/ FailCharge \/ CrashMaker
    BY <1>3 DEF TypeOK, Checkout, RecordAnswer, StoreKey, FailCharge, CrashMaker,
                Making, Unfindable
  <1> QED
    BY <1>1, <1>2, <1>3 DEF Maker

LEMMA UnfindableHook ==
  ASSUME TypeOK, BusyKnows, Unfindable, NEW h \in Hooks, Hook(h)
  PROVE  Unfindable'
  <1>1. SUFFICES ASSUME maker.pc \in {"start", "calling", "answered"}
                 PROVE  /\ UNCHANGED <<tx, refunder>>
                        /\ \A g \in Hooks : hook'[g].pc # "update"
    BY DEF Unfindable, Hook, Receive, ClaimEvent, Match, UpdateStatus,
           MarkProcessed, HookPosts, HookThrows, MarkFailed, HookReverses,
           RecordChargeback, CrashHook, notHook
  <1>a. hook \in [Hooks -> HookLocals]
    BY DEF TypeOK, HookLocals
  <1>2. ~UpdateStatus(h)
    BY <1>1 DEF Unfindable, UpdateStatus, InHook
  <1>3. ~Found(hook[h].ev)
    BY <1>1 DEF Unfindable, Found, RefOf
  <1>4. UNCHANGED <<tx, refunder>>
    BY <1>2 DEF Hook, Receive, ClaimEvent, Match, MarkProcessed, HookPosts,
                HookThrows, MarkFailed, HookReverses, RecordChargeback, CrashHook,
                notHook
  <1>5. \A g \in Hooks \ {h} : hook'[g] = hook[g]
    BY <1>a DEF Hook, Receive, ClaimEvent, Match, UpdateStatus,
                MarkProcessed, HookPosts, HookThrows, MarkFailed, HookReverses,
                RecordChargeback, CrashHook, HookTo, LeaveHook
  <1>6. hook'[h].pc # "update"
    <2>1. CASE \E e \in Events : Receive(h, e)
      BY <1>a, <2>1 DEF Receive
    <2>2. CASE LeaveHook(h)
      BY <1>a, <2>2 DEF LeaveHook, IdleHook
    <2>3. CASE \E to \in {"match", "mark", "post", "reverse", "chargeback",
                          "failed"} : HookTo(h, to)
      BY <1>a, <2>3 DEF HookTo, HookLocals
    <2> QED
      BY <1>2, <1>3, <2>1, <2>2, <2>3
         DEF Hook, ClaimEvent, Match, MarkProcessed, HookPosts, HookThrows,
             MarkFailed, HookReverses, RecordChargeback, CrashHook
  <1> QED
    BY <1>1, <1>4, <1>5, <1>6 DEF Unfindable

LEMMA UnfindableRefund ==
  ASSUME Unfindable, NEW r \in Refunders, Refund(r)
  PROVE  Unfindable'
  <1>1. UNCHANGED <<maker, hook>>
    BY DEF Refund, ReadRefundable, ClaimRefund, CallRefund, ReleaseRefund,
           RecordRefund, RefundReverses, CrashRefund, notRefund
  <1>2. refunder[r].pc # "idle" \/ tx.status = "succeeded"
    BY DEF Refund, ReadRefundable, ClaimRefund, CallRefund, ReleaseRefund,
           RecordRefund, RefundReverses, CrashRefund
  <1> QED
    BY <1>1, <1>2 DEF Unfindable

LEMMA UnfindableStep ==
  ASSUME TypeOK, BusyKnows, Unfindable, [Next]_vars PROVE Unfindable'
  <1>1. CASE Provider \/ SweepStep \/ UNCHANGED vars
    BY <1>1 DEF Provider, CustomerPays, AttemptDeclined, MoneyReturned,
                DisputeMoves, notProvider, SweepStep, SweepSelect, SweepPosts,
                notSweep, vars, Unfindable
  <1> QED
    BY <1>1, UnfindableMaker, UnfindableHook, UnfindableRefund DEF Next

(* A refunded row stays so, whatever the others do, or a slip is noted.    *)
LEMMA ClaimsOthers ==
  ASSUME TypeOK, BusyKnows, Unfindable, ClaimsHold, UNCHANGED refunder,
         slips \subseteq slips',
         "overtaken" \notin slips' /\ tx.status = "refunded"
            => tx'.status = "refunded"
  PROVE  ClaimsHold'
  BY DEF ClaimsHold, Kept, Asking

LEMMA ClaimsMaker ==
  ASSUME TypeOK, BusyKnows, Unfindable, ClaimsHold, Maker PROVE ClaimsHold'
  <1>1. UNCHANGED refunder /\ slips \subseteq slips'
    BY DEF Maker, Checkout, InsertCharge, CallProvider, RecordAnswer, StoreKey,
           FailCharge, CrashMaker, notMaker
  <1>2. CASE Checkout \/ InsertCharge \/ RecordAnswer
    <2>1. tx.status # "refunded"
      BY <1>2 DEF Checkout, InsertCharge, RecordAnswer, Making, Unfindable
    <2> QED
      BY <1>1, <2>1, ClaimsOthers
  <1>3. CASE CallProvider \/ StoreKey \/ FailCharge \/ CrashMaker
    BY <1>1, <1>3, ClaimsOthers DEF CallProvider, StoreKey, FailCharge, CrashMaker
  <1> QED
    BY <1>2, <1>3 DEF Maker

LEMMA ClaimsHook ==
  ASSUME TypeOK, BusyKnows, Unfindable, ClaimsHold, NEW h \in Hooks, Hook(h)
  PROVE  ClaimsHold'
  <1>1. UNCHANGED refunder /\ slips \subseteq slips'
    BY DEF Hook, Receive, ClaimEvent, Match, UpdateStatus, MarkProcessed,
           HookPosts, HookThrows, MarkFailed, HookReverses, RecordChargeback,
           CrashHook, notHook
  <1>2. CASE UpdateStatus(h)
    <2>1. tx'.status = NewStatus(hook[h].ev)
      BY <1>2 DEF UpdateStatus, TypeOK
    <2>2. tx.status = "refunded" /\ tx'.status # "refunded" => "overtaken" \in slips'
      BY <1>2, <2>1 DEF UpdateStatus, isAllowedGatewayTransition
    <2> QED
      BY <1>1, <2>2, ClaimsOthers
  <1>3. CASE UNCHANGED tx
    BY <1>1, <1>3, ClaimsOthers
  <1> QED
    BY <1>2, <1>3 DEF Hook, Receive, ClaimEvent, Match, MarkProcessed, HookPosts,
                      HookThrows, MarkFailed, HookReverses, RecordChargeback,
                      CrashHook

(* The compare-and-set of the claim finds it taken, and only the request   *)
(* that holds it gives it back.                                            *)
LEMMA ClaimsRefund ==
  ASSUME TypeOK, ClaimsHold, NEW r \in Refunders, Refund(r)
  PROVE  ClaimsHold'
  <1>a. refunder \in [Refunders -> RefundLocals]
    BY DEF TypeOK, RefundLocals
  <1>t. tx \in [status : GatewayStatuses, ref : References, meta : BOOLEAN]
    BY DEF TypeOK
  <1>1. slips \subseteq slips'
    BY DEF Refund, ReadRefundable, ClaimRefund, CallRefund, ReleaseRefund,
           RecordRefund, RefundReverses, CrashRefund
  <1>2. \A q \in Refunders \ {r} : refunder'[q] = refunder[q]
    BY <1>a DEF Refund, ReadRefundable, ClaimRefund, CallRefund, ReleaseRefund,
                RecordRefund, RefundReverses, CrashRefund, RefundTo, LeaveRefund
  <1>3. SUFFICES ASSUME Kept'
                 PROVE  /\ \A q \in Refunders : Asking(q)' => tx'.status = "refunded"
                        /\ \A p, q \in Refunders : Asking(p)' /\ Asking(q)' => p = q
    BY DEF ClaimsHold
  <1>4. /\ \A q \in Refunders : Asking(q) => tx.status = "refunded"
        /\ \A p, q \in Refunders : Asking(p) /\ Asking(q) => p = q
    BY <1>1, <1>3 DEF ClaimsHold, Kept
  <1>5. CASE ClaimRefund(r) /\ tx.status = "succeeded"
    <2>1. tx'.status = "refunded"
      BY <1>5, <1>t DEF ClaimRefund
    <2>2. \A q \in Refunders \ {r} : ~Asking(q)'
      BY <1>2, <1>4, <1>5 DEF Asking
    <2> QED
      BY <2>1, <2>2
  <1>6. CASE ReleaseRefund(r)
    <2>1. ~Asking(r)'
      BY <1>6, <1>a DEF ReleaseRefund, LeaveRefund, IdleRefunder, Asking
    <2>2. \A q \in Refunders \ {r} : ~Asking(q)'
      BY <1>2, <1>4, <1>6 DEF ReleaseRefund, Asking
    <2> QED
      BY <2>1, <2>2
  <1>7. CASE tx'.status = tx.status /\ (Asking(r)' => Asking(r))
    BY <1>2, <1>4, <1>7 DEF Asking
  <1>8. CASE ReadRefundable(r) \/ CallRefund(r) \/ RefundReverses(r) \/ CrashRefund(r)
             \/ RecordRefund(r) \/ (ClaimRefund(r) /\ tx.status # "succeeded")
    <2>1. tx'.status = tx.status
      BY <1>8, <1>t DEF ReadRefundable, CallRefund, RefundReverses, CrashRefund,
                        RecordRefund, ClaimRefund
    <2>2. Asking(r)' => Asking(r)
      BY <1>8, <1>a DEF ReadRefundable, CallRefund, RefundReverses, CrashRefund,
                        RecordRefund, ClaimRefund, RefundTo, LeaveRefund,
                        IdleRefunder, RefundLocals, Asking
    <2> QED
      BY <2>1, <2>2, <1>7
  <1> QED
    BY <1>5, <1>6, <1>8 DEF Refund

LEMMA ClaimsStep ==
  ASSUME TypeOK, BusyKnows, Unfindable, ClaimsHold, [Next]_vars
  PROVE  ClaimsHold'
  <1>1. CASE Provider \/ SweepStep \/ UNCHANGED vars
    BY <1>1, ClaimsOthers
       DEF Provider, CustomerPays, AttemptDeclined, MoneyReturned,
           DisputeMoves, notProvider, SweepStep, SweepSelect, SweepPosts,
           notSweep, vars
  <1> QED
    BY <1>1, ClaimsMaker, ClaimsHook, ClaimsRefund DEF Next

(* However many staff ask, one request at a time is with the provider (the *)
(* claim of refund), as long as no stale update takes the claim out of the *)
(* row.                                                                    *)
THEOREM OneRefundTheorem == Spec => []OneRefundAtProvider
  <1>1. Init => Unfindable /\ ClaimsHold
    BY DEF Init, Unfindable, ClaimsHold, Asking, IdleHook, IdleRefunder
  <1>2. (TypeOK /\ BusyKnows) /\ (Unfindable /\ ClaimsHold) /\ [Next]_vars
          => (Unfindable /\ ClaimsHold)'
    BY UnfindableStep, ClaimsStep
  <1>3. Unfindable /\ ClaimsHold => OneRefundAtProvider
    BY DEF ClaimsHold, Kept, Asking, OneRefundAtProvider
  <1> QED
    BY <1>1, <1>2, <1>3, TypeCorrect, PTL DEF Spec

----------------------------------------------------------------------------
(* The dispute's outcome *)

(* Only the upsert of a delivery writes the chargeback.                    *)
LEMMA ChargebackMoves ==
  ASSUME [Next]_vars
  PROVE  UNCHANGED chargeback \/ \E h \in Hooks : RecordChargeback(h)
  <1>1. CASE \E h \in Hooks : Hook(h)
    BY <1>1 DEF Hook, Receive, ClaimEvent, Match, UpdateStatus, MarkProcessed,
                HookPosts, HookThrows, MarkFailed, HookReverses, CrashHook
  <1>2. CASE ~ \E h \in Hooks : Hook(h)
    BY <1>2 DEF Next, Maker, Checkout, InsertCharge, CallProvider, RecordAnswer,
           StoreKey, FailCharge, CrashMaker, notMaker,
           Provider, CustomerPays, AttemptDeclined, MoneyReturned,
           DisputeMoves, notProvider, Refund, ReadRefundable, ClaimRefund,
           CallRefund, ReleaseRefund, RecordRefund, RefundReverses, CrashRefund,
           notRefund, SweepStep, SweepSelect, SweepPosts, notSweep, vars
  <1> QED
    BY <1>1, <1>2

(* A late 'disputed' event, repeated or overtaken by the outcome's, never  *)
(* reopens a chargeback (the CASE of the upsert).                          *)
THEOREM OutcomeTheorem == Spec => OutcomeKept
  <1>1. [Next]_vars => [chargeback' = "received" => chargeback = "none"]_chargeback
    <2> SUFFICES ASSUME [Next]_vars, chargeback' # chargeback, chargeback' = "received"
                 PROVE  chargeback = "none"
      OBVIOUS
    <2>1. PICK h \in Hooks : RecordChargeback(h)
      BY ChargebackMoves
    <2>2. CASE hook[h].ev = "dispute_won"
      BY <2>1, <2>2 DEF RecordChargeback
    <2>3. CASE hook[h].ev = "dispute_lost"
      BY <2>1, <2>3 DEF RecordChargeback
    <2>4. CASE hook[h].ev \notin {"dispute_won", "dispute_lost"}
      <3>1. chargeback' = IF chargeback = "none" THEN "received" ELSE chargeback
        BY <2>1, <2>4 DEF RecordChargeback
      <3> QED
        BY <3>1
    <2> QED
      BY <2>2, <2>3, <2>4
  <1> QED
    BY <1>1, PTL DEF Spec, OutcomeKept


----------------------------------------------------------------------------
(* What a success event established *)

Paid == {"session_paid", "intent_paid"}
Captured == tx.status \in {"succeeded", "refunded", "disputed"}

(* Without a slip: a success event that was processed, or is about to be   *)
(* marked so, has left the row counted as captured.                        *)
CaptureInv ==
    slips = {} =>
       /\ (\E e \in Paid : event[e] = "processed") => Captured
       /\ \A h \in Hooks : hook[h].pc = "mark" /\ hook[h].ev \in Paid => Captured

(* A slip is never forgotten.                                              *)
LEMMA SlipsGrow == ASSUME [Next]_vars PROVE slips \subseteq slips'
  <1>1. CASE \E h \in Hooks : Hook(h)
    BY <1>1 DEF Hook, Receive, ClaimEvent, Match, UpdateStatus, MarkProcessed,
                HookPosts, HookThrows, MarkFailed, HookReverses, RecordChargeback,
                CrashHook
  <1>2. CASE \E r \in Refunders : Refund(r)
    BY <1>2 DEF Refund, ReadRefundable, ClaimRefund, CallRefund, ReleaseRefund,
                RecordRefund, RefundReverses, CrashRefund
  <1>3. CASE Maker \/ Provider \/ SweepStep \/ UNCHANGED vars
    BY <1>3 DEF Maker, Checkout, InsertCharge, CallProvider, RecordAnswer,
                StoreKey, FailCharge, CrashMaker, Provider, CustomerPays,
                AttemptDeclined, MoneyReturned, DisputeMoves, notProvider,
                SweepStep, SweepSelect, SweepPosts, notSweep, vars
  <1> QED
    BY <1>1, <1>2, <1>3 DEF Next

(* A step that takes the capture back is a slip: isAllowedGatewayTransition*)
(* judges every event, and charge's catch cannot write its 'failed'.       *)
LEMMA CapturedKept ==
  ASSUME TypeOK, Unfindable, [Next]_vars, Captured, slips' = {}
  PROVE  Captured'
  <1>t. tx \in [status : GatewayStatuses, ref : References, meta : BOOLEAN]
    BY DEF TypeOK
  <1>1. CASE \E h \in Hooks : UpdateStatus(h)
    <2>1. PICK h \in Hooks : UpdateStatus(h)
      BY <1>1
    <2>2. tx'.status = NewStatus(hook[h].ev)
      BY <2>1, <1>t DEF UpdateStatus
    <2>3. isAllowedGatewayTransition(tx.status, NewStatus(hook[h].ev))
      BY <2>1 DEF UpdateStatus
    <2> QED
      BY <2>2, <2>3 DEF isAllowedGatewayTransition, Captured
  <1>2. CASE Maker
    <2>1. ~(Checkout \/ InsertCharge \/ RecordAnswer)
      BY DEF Checkout, InsertCharge, RecordAnswer, Making, Unfindable, Captured
    <2> QED
      BY <1>2, <2>1 DEF Maker, CallProvider, StoreKey, FailCharge, CrashMaker,
                        Captured
  <1>3. ASSUME NEW r \in Refunders, Refund(r) PROVE Captured'
    <2>1. CASE UNCHANGED tx
      BY <2>1 DEF Captured
    <2>2. CASE \/ tx' = [tx EXCEPT !.status = "refunded"]
               \/ tx' = [tx EXCEPT !.status = IF @ = "refunded" THEN "succeeded"
                                                                ELSE @]
               \/ tx' = [tx EXCEPT !.ref = "refund"]
      BY <2>2, <1>t DEF Captured
    <2> QED
      BY <1>3, <2>1, <2>2
         DEF Refund, ReadRefundable, ClaimRefund, CallRefund, ReleaseRefund,
             RecordRefund, RefundReverses, CrashRefund
  <1>4. CASE UNCHANGED tx
    BY <1>4 DEF Captured
  <1> QED
    BY <1>1, <1>2, <1>3, <1>4
       DEF Next, Provider, CustomerPays, AttemptDeclined, MoneyReturned,
           DisputeMoves, notProvider, Hook, Receive, ClaimEvent, Match,
           MarkProcessed, HookPosts, HookThrows, MarkFailed, HookReverses,
           RecordChargeback, CrashHook, SweepStep, SweepSelect, SweepPosts,
           notSweep, vars

(* One delivery moves at a time, and nothing else moves deliveries or      *)
(* marks events.                                                           *)
LEMMA HookMoves ==
  ASSUME TypeOK, [Next]_vars, NEW h \in Hooks
  PROVE  hook'[h] = hook[h] \/ Hook(h)
  <1>a. hook \in [Hooks -> HookLocals]
    BY DEF TypeOK, HookLocals
  <1>1. ASSUME NEW g \in Hooks \ {h}, Hook(g) PROVE hook'[h] = hook[h]
    BY <1>1, <1>a
       DEF Hook, Receive, ClaimEvent, Match, UpdateStatus, MarkProcessed,
           HookPosts, HookThrows, MarkFailed, HookReverses, RecordChargeback,
           CrashHook, HookTo, LeaveHook
  <1>2. CASE UNCHANGED hook
    BY <1>2
  <1> QED
    BY <1>1, <1>2
       DEF Next, Maker, Checkout, InsertCharge, CallProvider, RecordAnswer,
           StoreKey, FailCharge, CrashMaker, notMaker,
           Provider, CustomerPays, AttemptDeclined, MoneyReturned,
           DisputeMoves, notProvider, Refund, ReadRefundable, ClaimRefund,
           CallRefund, ReleaseRefund, RecordRefund, RefundReverses, CrashRefund,
           notRefund, SweepStep, SweepSelect, SweepPosts, notSweep, vars

(* An event's status changes when a delivery that holds it claims it, or   *)
(* gives it one of the outcomes of its position.                           *)
LEMMA EventMoves ==
  ASSUME TypeOK, BusyKnows, [Next]_vars, NEW e \in Events, event'[e] # event[e]
  PROVE  \E h \in Hooks :
            /\ hook[h].ev = e
            /\ \/ /\ ClaimEvent(h) /\ HookTo(h, "match")
                  /\ event'[e] = "processing"
               \/ Match(h) /\ ~HookTo(h, "update") /\ ~Found(e) /\ event'[e] = "no_match"
               \/ Match(h) /\ ~HookTo(h, "update") /\ Found(e) /\ event'[e] = "ignored"
               \/ MarkProcessed(h) /\ event'[e] = "processed"
               \/ MarkFailed(h) /\ event'[e] = "failed"
  <1>a. hook \in [Hooks -> HookLocals] /\ event \in [Events -> EventStatuses]
    BY DEF TypeOK, HookLocals
  <1>1. PICK h \in Hooks : Hook(h)
    BY DEF Next, Maker, Checkout, InsertCharge, CallProvider, RecordAnswer,
           StoreKey, FailCharge, CrashMaker, notMaker,
           Provider, CustomerPays, AttemptDeclined, MoneyReturned,
           DisputeMoves, notProvider, Refund, ReadRefundable, ClaimRefund,
           CallRefund, ReleaseRefund, RecordRefund, RefundReverses, CrashRefund,
           notRefund, SweepStep, SweepSelect, SweepPosts, notSweep, vars
  <1>2. \A st : MarkEvent(h, st) => hook[h].ev = e /\ event'[e] = st
    BY <1>a DEF MarkEvent
  <1>3. CASE ClaimEvent(h)
    BY <1>2, <1>3 DEF ClaimEvent
  <1>4. CASE Match(h)
    <2>1. MarkEvent(h, IF Found(hook[h].ev) THEN "ignored" ELSE "no_match")
          /\ LeaveHook(h)
      BY <1>4 DEF Match
    <2>2. ~HookTo(h, "update")
      <3>1. hook'[h].pc = "idle"
        BY <2>1, <1>a DEF LeaveHook, IdleHook
      <3> QED
        BY <3>1, <1>a DEF HookTo, HookLocals
    <2> QED
      BY <1>2, <1>4, <2>1, <2>2
  <1>5. CASE MarkProcessed(h)
    BY <1>2, <1>5 DEF MarkProcessed
  <1>6. CASE MarkFailed(h)
    BY <1>2, <1>6 DEF MarkFailed
  <1> QED
    BY <1>1, <1>3, <1>4, <1>5, <1>6
       DEF Hook, Receive, UpdateStatus, HookPosts, HookThrows, HookReverses,
           RecordChargeback, CrashHook


(* A delivery comes to mark its event only by updating the row.            *)
LEMMA MarkMoves ==
  ASSUME TypeOK, [Next]_vars, NEW h \in Hooks, hook'[h].pc = "mark"
  PROVE  \/ hook'[h] = hook[h]
         \/ UpdateStatus(h) /\ hook'[h].ev = hook[h].ev
  <1>a. hook \in [Hooks -> HookLocals]
    BY DEF TypeOK, HookLocals
  <1>1. CASE Hook(h)
    <2>1. CASE \E e \in Events : Receive(h, e)
      BY <1>a, <2>1 DEF Receive
    <2>2. CASE LeaveHook(h)
      BY <1>a, <2>2 DEF LeaveHook, IdleHook
    <2>3. CASE \E to \in {"match", "update", "post", "reverse", "chargeback",
                          "failed"} : HookTo(h, to)
      BY <1>a, <2>3 DEF HookTo, HookLocals
    <2>4. CASE UpdateStatus(h)
      BY <1>a, <2>4 DEF UpdateStatus, HookTo, HookLocals
    <2> QED
      BY <1>1, <2>1, <2>2, <2>3, <2>4
         DEF Hook, ClaimEvent, Match, MarkProcessed, HookPosts, HookThrows,
             MarkFailed, HookReverses, RecordChargeback, CrashHook
  <1> QED
    BY <1>1, HookMoves

LEMMA CaptureStep ==
  ASSUME TypeOK, BusyKnows, Unfindable, CaptureInv, [Next]_vars
  PROVE  CaptureInv'
  <1> SUFFICES ASSUME slips' = {}
               PROVE  /\ (\E e \in Paid : event'[e] = "processed") => Captured'
                      /\ \A h \in Hooks : hook'[h].pc = "mark" /\ hook'[h].ev \in Paid
                            => Captured'
    BY DEF CaptureInv
  <1>s. slips = {}
    BY SlipsGrow
  <1>1. ASSUME NEW e \in Paid, event'[e] = "processed" PROVE Captured'
    <2>1. CASE event[e] = "processed"
      BY <2>1, <1>s, CapturedKept DEF CaptureInv
    <2>2. CASE event[e] # "processed"
      <3>1. e \in Events
        BY DEF Paid, Events
      <3>2. PICK h \in Hooks : hook[h].ev = e /\ MarkProcessed(h)
        BY <1>1, <2>2, <3>1, EventMoves
      <3>3. hook[h].pc = "mark"
        BY <3>2 DEF MarkProcessed, InHook
      <3> QED
        BY <3>2, <3>3, <1>s, CapturedKept DEF CaptureInv
    <2> QED
      BY <2>1, <2>2
  <1>2. ASSUME NEW h \in Hooks, hook'[h].pc = "mark", hook'[h].ev \in Paid
        PROVE  Captured'
    <2>1. CASE hook'[h] = hook[h]
      BY <1>2, <2>1, <1>s, CapturedKept DEF CaptureInv
    <2>2. CASE UpdateStatus(h) /\ hook'[h].ev = hook[h].ev
      <3>1. NewStatus(hook[h].ev) = "succeeded"
        BY <1>2, <2>2 DEF NewStatus, Paid
      <3>2. tx'.status = "succeeded"
        BY <2>2, <3>1 DEF UpdateStatus, TypeOK
      <3> QED
        BY <3>2 DEF Captured
    <2> QED
      BY <1>2, <2>1, <2>2, MarkMoves
  <1> QED
    BY <1>1, <1>2

(* Whatever the order, the repetition and the interleaving of deliveries,  *)
(* a late decline does not take back a capture that a success event        *)
(* recorded (isAllowedGatewayTransition in processWebhookEvent): only the  *)
(* named slips do.                                                         *)
THEOREM CapturedTheorem == Spec => []CapturedNotDemoted
  <1>1. Init => Unfindable /\ CaptureInv
    BY DEF Init, Unfindable, CaptureInv, IdleHook, IdleRefunder, Paid, Events
  <1>2. (TypeOK /\ BusyKnows) /\ (Unfindable /\ CaptureInv) /\ [Next]_vars
          => (Unfindable /\ CaptureInv)'
    BY UnfindableStep, CaptureStep
  <1>3. CaptureInv => CapturedNotDemoted
    BY DEF CaptureInv, CapturedNotDemoted, Paid, Captured
  <1> QED
    BY <1>1, <1>2, <1>3, TypeCorrect, PTL DEF Spec


----------------------------------------------------------------------------
(* The books follow the money *)

(* An event has a row only after the provider sent it.                     *)
EventsSent == \A e \in Events : event[e] # "none" => e \in sent

(* Without a slip, money that the row does not show as returned is about   *)
(* to be shown so.                                                         *)
ReturnFollowed ==
    slips = {} /\ money = "returned" /\ tx.status # "refunded" => ReturnAwaited

LEMMA EventsSentStep ==
  ASSUME TypeOK, BusyKnows, ReturnInv, EventsSent, [Next]_vars
  PROVE  EventsSent'
  <1>1. sent \subseteq sent'
    BY MoneyStep DEF MoneyKept
  <1>2. ASSUME NEW e \in Events, event'[e] # "none" PROVE e \in sent
    <2>1. CASE event'[e] = event[e]
      BY <1>2, <2>1 DEF EventsSent
    <2>2. CASE event'[e] # event[e]
      <3>1. PICK h \in Hooks :
               /\ hook[h].ev = e
               /\ ClaimEvent(h) \/ Match(h) \/ MarkProcessed(h) \/ MarkFailed(h)
        BY <2>2, EventMoves
      <3>2. hook[h].pc # "idle"
        BY <3>1 DEF ClaimEvent, Match, MarkProcessed, MarkFailed, InHook
      <3> QED
        BY <3>1, <3>2 DEF ReturnInv
    <2> QED
      BY <2>1, <2>2
  <1> QED
    BY <1>1, <1>2 DEF EventsSent

LEMMA ReturnIsRefund == \A e \in Return : e \in Events /\ NewStatus(e) = "refunded"
  BY DEF Return, Events, NewStatus

(* The money goes back on a staff refund, or an event not yet delivered    *)
(* tells of it.                                                            *)
LEMMA MoneyMoves ==
  ASSUME TypeOK, ReturnInv, EventsSent, [Next]_vars,
         money # "returned", money' = "returned"
  PROVE  \/ ReturnAwaited'
         \/ \E r \in Refunders : /\ CallRefund(r)
                                 /\ refunder'[r].pc \in {"release", "record"}
  <1>1. CASE \E e \in Return : MoneyReturned(e)
    <2>1. PICK e \in Return : MoneyReturned(e)
      BY <1>1
    <2>2. e \in sent' /\ UNCHANGED event
      BY <2>1 DEF MoneyReturned, Send, notProvider
    <2>3. e \in Events /\ event[e] = "none"
      BY ReturnIsRefund DEF ReturnInv, EventsSent
    <2>4. event'[e] = "none"
      BY <2>2, <2>3
    <2> QED
      BY <2>2, <2>4 DEF ReturnAwaited, Return
  <1>2. ASSUME NEW r \in Refunders, Refund(r)
        PROVE  CallRefund(r) /\ refunder'[r].pc \in {"release", "record"}
    <2>1. CallRefund(r)
      BY <1>2 DEF Refund, ReadRefundable, ClaimRefund, ReleaseRefund,
                  RecordRefund, RefundReverses, CrashRefund, provider
    <2>2. RefundTo(r, "record") \/ RefundTo(r, "release")
      BY <2>1 DEF CallRefund
    <2> QED
      BY <2>1, <2>2 DEF RefundTo, TypeOK
  <1>3. ~Maker
    BY DEF TypeOK, Maker, Checkout, InsertCharge, CallProvider, RecordAnswer,
           StoreKey, FailCharge, CrashMaker, provider
  <1>4. Provider => \E e \in Return : MoneyReturned(e)
    BY DEF Provider, CustomerPays, AttemptDeclined, DisputeMoves, Return
  <1>5. ~SweepStep /\ ~UNCHANGED vars /\ \A h \in Hooks : ~Hook(h)
    BY DEF SweepStep, SweepSelect, SweepPosts, notSweep, provider, vars, Hook,
           Receive, ClaimEvent, Match, UpdateStatus, MarkProcessed, HookPosts,
           HookThrows, MarkFailed, HookReverses, RecordChargeback, CrashHook,
           notHook
  <1> QED
    BY <1>1, <1>2, <1>3, <1>4, <1>5 DEF Next

(* An event that tells of it is not lost: it is delivered again until it   *)
(* updates the row.                                                        *)
LEMMA AwaitedEvent ==
  ASSUME TypeOK, BusyKnows, ReturnInv, ClaimInv, [Next]_vars,
         NEW e \in sent \cap Return, event[e] \in {"none", "failed", "no_match"}
  PROVE  ReturnAwaited'
  <1>1. e \in sent' /\ e \in Events
    BY MoneyStep, ReturnIsRefund DEF MoneyKept
  <1>2. CASE event'[e] = event[e]
    BY <1>1, <1>2 DEF ReturnAwaited, Return
  <1>3. CASE event'[e] # event[e]
    <2>1. PICK h \in Hooks :
             /\ hook[h].ev = e
             /\ \/ ClaimEvent(h) /\ HookTo(h, "match")
                \/ Match(h) \/ MarkProcessed(h) \/ MarkFailed(h)
      BY <1>1, <1>3, EventMoves
    <2>2. ~(Match(h) \/ MarkProcessed(h) \/ MarkFailed(h))
      BY <2>1 DEF Match, MarkProcessed, MarkFailed, InHook, ClaimInv, Claimed
    <2>3. HookTo(h, "match")
      BY <2>1, <2>2
    <2>4. hook'[h].pc = "match" /\ hook'[h].ev = e
      BY <2>1, <2>3 DEF HookTo, TypeOK
    <2> QED
      BY <2>4 DEF ReturnAwaited, Returning, Return
  <1> QED
    BY <1>2, <1>3


(* Nor is the delivery that holds it: it updates the row, or does not find *)
(* it or fails and leaves the event to be delivered again; the update is   *)
(* allowed from every status.                                              *)
LEMMA AwaitedDelivery ==
  ASSUME TypeOK, BusyKnows, ReturnInv, [Next]_vars, slips' = {},
         NEW h \in Hooks, hook[h].ev \in Return,
         hook[h].pc \in {"match", "update", "failed"}, ~UpdateStatus(h)
  PROVE  ReturnAwaited'
  <1>a. hook \in [Hooks -> HookLocals] /\ event \in [Events -> EventStatuses]
    BY DEF TypeOK, HookLocals
  <1>1. hook[h].ev \in sent' /\ hook[h].ev \in Events
    BY MoneyStep, ReturnIsRefund DEF MoneyKept, ReturnInv
  <1>2. CASE hook'[h] = hook[h] \/ HookTo(h, "update") \/ HookTo(h, "failed")
    <2>1. hook'[h].pc \in {"match", "update", "failed"} /\ hook'[h].ev = hook[h].ev
      BY <1>2, <1>a DEF HookTo, HookLocals
    <2> QED
      BY <2>1 DEF ReturnAwaited, Returning, Return
  <1>3. CASE Match(h) /\ ~HookTo(h, "update")
    <2>1. isAllowedGatewayTransition(tx.status, "refunded")
      BY DEF isAllowedGatewayTransition
    <2>2. ~Found(hook[h].ev)
      BY <1>3, <2>1, ReturnIsRefund DEF Match
    <2>3. event'[hook[h].ev] = "no_match"
      BY <1>3, <1>1, <2>2, <1>a DEF Match, MarkEvent
    <2> QED
      BY <1>1, <2>3 DEF ReturnAwaited, Return
  <1>4. CASE CrashHook(h)
    BY <1>4 DEF CrashHook
  <1>5. CASE MarkFailed(h)
    <2>1. event'[hook[h].ev] = "failed"
      BY <1>5, <1>1, <1>a DEF MarkFailed, MarkEvent
    <2> QED
      BY <1>1, <2>1 DEF ReturnAwaited, Return
  <1> QED
    BY <1>2, <1>3, <1>4, <1>5, HookMoves
       DEF Hook, Receive, ClaimEvent, MarkProcessed, HookPosts, HookThrows,
           HookReverses, RecordChargeback, InHook

LEMMA AwaitedMoves ==
  ASSUME TypeOK, BusyKnows, ReturnInv, ClaimInv, [Next]_vars, slips' = {},
         ReturnAwaited
  PROVE  \/ ReturnAwaited'
         \/ \E h \in Hooks : hook[h].ev \in Return /\ UpdateStatus(h)
  <1>1. CASE \E e \in sent \cap Return : event[e] \in {"none", "failed", "no_match"}
    BY <1>1, AwaitedEvent
  <1>2. CASE \E h \in Hooks : /\ hook[h].ev \in Return
                             /\ hook[h].pc \in {"match", "update", "failed"}
    BY <1>2, AwaitedDelivery
  <1> QED
    BY <1>1, <1>2 DEF ReturnAwaited, Returning, Return

(* A return leaves the row again only when the claim of a refund is given  *)
(* back, or by a slip.                                                     *)
LEMMA RefundedKept ==
  ASSUME TypeOK, Unfindable, [Next]_vars, slips' = {},
         tx.status = "refunded", tx'.status # "refunded"
  PROVE  \E r \in Refunders : ReleaseRefund(r)
  <1>t. tx \in [status : GatewayStatuses, ref : References, meta : BOOLEAN]
    BY DEF TypeOK
  <1>1. ~Maker
    <2>1. ~(Checkout \/ InsertCharge \/ RecordAnswer)
      BY DEF Checkout, InsertCharge, RecordAnswer, Making, Unfindable
    <2> QED
      BY <2>1 DEF Maker, CallProvider, StoreKey, FailCharge, CrashMaker
  <1>2. ASSUME NEW h \in Hooks PROVE ~UpdateStatus(h)
    <2> SUFFICES ASSUME UpdateStatus(h) PROVE FALSE
      OBVIOUS
    <2>1. tx'.status = NewStatus(hook[h].ev)
      BY <1>t DEF UpdateStatus
    <2>2. isAllowedGatewayTransition(tx.status, NewStatus(hook[h].ev))
      BY DEF UpdateStatus
    <2> QED
      BY <2>1, <2>2 DEF isAllowedGatewayTransition
  <1>3. ASSUME NEW r \in Refunders, Refund(r) PROVE ReleaseRefund(r)
    BY <1>3, <1>t
       DEF Refund, ReadRefundable, ClaimRefund, CallRefund, RecordRefund,
           RefundReverses, CrashRefund
  <1> QED
    BY <1>1, <1>2, <1>3
       DEF Next, Provider, CustomerPays, AttemptDeclined, MoneyReturned,
           DisputeMoves, notProvider, Hook, Receive, ClaimEvent, Match,
           MarkProcessed, HookPosts, HookThrows, MarkFailed, HookReverses,
           RecordChargeback, CrashHook, SweepStep, SweepSelect, SweepPosts,
           notSweep, vars

(* A release without a slip, once the money went back, leaves an event to  *)
(* tell of it.                                                             *)
LEMMA ReleaseAwaits ==
  ASSUME NEW r \in Refunders, ReleaseRefund(r), slips' = {}, money = "returned"
  PROVE  ReturnAwaited'
  <1>1. ReturnAwaited
    BY DEF ReleaseRefund
  <1>2. UNCHANGED <<sent, event, hook>>
    BY DEF ReleaseRefund, provider, notRefund
  <1> QED
    BY <1>1, <1>2 DEF ReturnAwaited, Returning

LEMMA ReturnFollowedStep ==
  ASSUME TypeOK, BusyKnows, ReturnInv, ClaimInv, Unfindable, ClaimsHold,
         EventsSent, ReturnFollowed, [Next]_vars
  PROVE  ReturnFollowed'
  <1> SUFFICES ASSUME slips' = {}, money' = "returned", tx'.status # "refunded"
               PROVE  ReturnAwaited'
    BY DEF ReturnFollowed
  <1>s. slips = {}
    BY SlipsGrow
  <1>1. CASE money # "returned"
    <2>1. ASSUME NEW r \in Refunders, CallRefund(r) PROVE FALSE
      <3>1. Asking(r) /\ UNCHANGED tx
        BY <2>1 DEF CallRefund, Asking
      <3> QED
        BY <1>s, <3>1 DEF ClaimsHold, Kept
    <2> QED
      BY <1>1, <2>1, MoneyMoves
  <1>2. CASE money = "returned" /\ tx.status # "refunded"
    <2>1. ReturnAwaited
      BY <1>2, <1>s DEF ReturnFollowed
    <2>2. ASSUME NEW h \in Hooks, hook[h].ev \in Return, UpdateStatus(h) PROVE FALSE
      BY <2>2, ReturnIsRefund DEF UpdateStatus, TypeOK
    <2> QED
      BY <2>1, <2>2, AwaitedMoves
  <1>3. CASE money = "returned" /\ tx.status = "refunded"
    BY <1>3, RefundedKept, ReleaseAwaits
  <1> QED
    BY <1>1, <1>2, <1>3


(* Whoever has updated the row goes on to reverse the payment, or fails    *)
(* and leaves the event to be delivered again ...                          *)
LEMMA ReversalMoves ==
  ASSUME TypeOK, BusyKnows, [Next]_vars, slips' = {},
         books.payment = "completed", books'.payment = "completed",
         Returning({"mark", "reverse"})
  PROVE  ReturnAwaited' \/ Returning({"mark", "reverse"})'
  <1>a. hook \in [Hooks -> HookLocals]
    BY DEF TypeOK, HookLocals
  <1>1. PICK h \in Hooks : hook[h].ev \in Return /\ hook[h].pc \in {"mark", "reverse"}
    BY DEF Returning, Return
  <1>2. CASE hook'[h] = hook[h]
    BY <1>1, <1>2 DEF Returning, Return
  <1>3. CASE MarkProcessed(h)
    <2>1. HookTo(h, "reverse")
      BY <1>1, <1>3, ReturnIsRefund DEF MarkProcessed
    <2>2. hook'[h].pc = "reverse" /\ hook'[h].ev = hook[h].ev
      BY <2>1, <1>a DEF HookTo, HookLocals
    <2> QED
      BY <1>1, <2>2 DEF Returning, Return
  <1>4. ~HookReverses(h)
    <2>1. ASSUME reverseRefund PROVE FALSE
      BY <2>1 DEF reverseRefund, TypeOK
    <2> QED
      BY <2>1 DEF HookReverses
  <1>5. ~CrashHook(h)
    BY <1>1 DEF CrashHook
  <1>6. CASE HookThrows(h)
    <2>1. hook'[h].pc = "failed" /\ hook'[h].ev = hook[h].ev
      BY <1>6, <1>a DEF HookThrows, HookTo, HookLocals
    <2> QED
      BY <1>1, <2>1 DEF ReturnAwaited, Returning, Return
  <1> QED
    BY <1>1, <1>2, <1>3, <1>4, <1>5, <1>6, HookMoves
       DEF Hook, Receive, ClaimEvent, Match, UpdateStatus, HookPosts, MarkFailed,
           RecordChargeback, InHook

(* ... and so does a refund request with the provider's answer, unless the *)
(* answer was lost, and then an event tells of it.                         *)
LEMMA RequestMoves ==
  ASSUME TypeOK, [Next]_vars, slips' = {}, money = "returned",
         books.payment = "completed", books'.payment = "completed",
         NEW r \in Refunders, refunder[r].pc \in {"release", "record", "reverse"}
  PROVE  ReturnAwaited' \/ refunder'[r].pc \in {"release", "record", "reverse"}
  <1>a. refunder \in [Refunders -> RefundLocals]
    BY DEF TypeOK, RefundLocals
  <1>1. CASE Refund(r)
    <2>1. CASE ReleaseRefund(r)
      BY <2>1, ReleaseAwaits
    <2>2. CASE RecordRefund(r)
      BY <2>2, <1>a DEF RecordRefund, RefundTo, RefundLocals
    <2>3. ~RefundReverses(r)
      <3>1. ASSUME reverseRefund PROVE FALSE
        BY <3>1 DEF reverseRefund, TypeOK
      <3> QED
        BY <3>1 DEF RefundReverses
    <2>4. ~CrashRefund(r)
      BY DEF CrashRefund
    <2> QED
      BY <1>1, <2>1, <2>2, <2>3, <2>4
         DEF Refund, ReadRefundable, ClaimRefund, CallRefund
  <1>2. ASSUME NEW q \in Refunders \ {r}, Refund(q) PROVE refunder'[r] = refunder[r]
    BY <1>2, <1>a
       DEF Refund, ReadRefundable, ClaimRefund, CallRefund, ReleaseRefund,
           RecordRefund, RefundReverses, CrashRefund, RefundTo, LeaveRefund
  <1>3. CASE UNCHANGED refunder
    BY <1>3
  <1> QED
    BY <1>1, <1>2, <1>3
       DEF Next, Maker, Checkout, InsertCharge, CallProvider, RecordAnswer,
           StoreKey, FailCharge, CrashMaker, notMaker, Provider, CustomerPays,
           AttemptDeclined, MoneyReturned, DisputeMoves, notProvider, Hook,
           Receive, ClaimEvent, Match, UpdateStatus, MarkProcessed, HookPosts,
           HookThrows, MarkFailed, HookReverses, RecordChargeback, CrashHook,
           notHook, SweepStep, SweepSelect, SweepPosts, notSweep, vars

(* A payment is posted only while the row says 'succeeded', and by a step  *)
(* that moves neither the money nor the events.                            *)
LEMMA PostingMoves ==
  ASSUME TypeOK, [Next]_vars,
         books.payment # "completed", books'.payment = "completed"
  PROVE  tx.status = "succeeded" /\ UNCHANGED <<tx, provider, event, slips>>
         /\ (ReturnAwaited => ReturnAwaited')
  <1>1. ~reverseRefund /\ ~UNCHANGED books
    BY DEF reverseRefund, TypeOK
  <1>2. CASE \E h \in Hooks : HookPosts(h)
    <2>1. PICK h \in Hooks : HookPosts(h)
      BY <1>2
    <2>2. UNCHANGED <<tx, provider, event, slips>> /\ hook[h].pc = "post"
      BY <2>1 DEF HookPosts, notHook, InHook
    <2>3. tx.status = "succeeded"
      BY <1>1, <2>1 DEF HookPosts, reconcilePayment
    <2>4. \A g \in Hooks \ {h} : hook'[g] = hook[g]
      BY <2>1 DEF HookPosts, LeaveHook, TypeOK
    <2>5. ReturnAwaited => ReturnAwaited'
      BY <2>2, <2>4 DEF ReturnAwaited, Returning, provider
    <2> QED
      BY <2>2, <2>3, <2>5
  <1>3. CASE SweepPosts
    <2>1. tx.status = "succeeded"
      BY <1>1, <1>3 DEF SweepPosts, reconcilePayment
    <2> QED
      BY <1>3, <2>1 DEF SweepPosts, notSweep, ReturnAwaited, Returning, provider
  <1>4. ASSUME NEW h \in Hooks, Hook(h) PROVE HookPosts(h)
    BY <1>1, <1>4
       DEF Hook, Receive, ClaimEvent, Match, UpdateStatus, MarkProcessed,
           HookThrows, MarkFailed, HookReverses, RecordChargeback, CrashHook
  <1> QED
    BY <1>1, <1>2, <1>3, <1>4
       DEF Next, Maker, Checkout, InsertCharge, CallProvider, RecordAnswer,
           StoreKey, FailCharge, CrashMaker, notMaker,
           Provider, CustomerPays, AttemptDeclined, MoneyReturned,
           DisputeMoves, notProvider, SweepStep, SweepSelect, Refund,
           ReadRefundable, ClaimRefund, CallRefund, ReleaseRefund,
           RecordRefund, RefundReverses, CrashRefund, vars

LEMMA BooksFollowStep ==
  ASSUME TypeOK, BusyKnows, ReturnInv, ClaimInv, EventsSent, ReturnFollowed,
         BooksFollowMoney, [Next]_vars
  PROVE  BooksFollowMoney'
  <1> DEFINE Way == \/ ReturnAwaited \/ Returning({"mark", "reverse"})
                    \/ \E r \in Refunders :
                          refunder[r].pc \in {"release", "record", "reverse"}
  <1> SUFFICES ASSUME slips' = {}, money' = "returned", books'.payment = "completed"
               PROVE  Way'
    BY DEF BooksFollowMoney
  <1>s. slips = {}
    BY SlipsGrow
  <1>1. CASE books.payment # "completed"
    <2>1. tx.status = "succeeded" /\ money = "returned" /\ (ReturnAwaited => ReturnAwaited')
      BY <1>1, PostingMoves DEF provider
    <2>2. ReturnAwaited
      BY <1>s, <2>1 DEF ReturnFollowed
    <2> QED
      BY <2>1, <2>2
  <1>2. CASE money # "returned"
    BY <1>2, MoneyMoves
  <1>3. CASE books.payment = "completed" /\ money = "returned"
    <2>1. CASE ReturnAwaited
      <3>1. ASSUME NEW h \in Hooks, hook[h].ev \in Return, UpdateStatus(h)
            PROVE  Returning({"mark", "reverse"})'
        <4>1. hook'[h].pc = "mark" /\ hook'[h].ev = hook[h].ev
          BY <3>1 DEF UpdateStatus, HookTo, TypeOK
        <4> QED
          BY <3>1, <4>1 DEF Returning, Return
      <3> QED
        BY <2>1, <3>1, AwaitedMoves
    <2>2. CASE Returning({"mark", "reverse"})
      BY <1>3, <2>2, ReversalMoves
    <2>3. CASE \E r \in Refunders : refunder[r].pc \in {"release", "record", "reverse"}
      BY <1>3, <2>3, RequestMoves
    <2> QED
      BY <1>3, <1>s, <2>1, <2>2, <2>3 DEF BooksFollowMoney
  <1> QED
    BY <1>1, <1>2, <1>3

(* Once the provider returned the money, whether a staff refund, a refund  *)
(* made there or a lost dispute sent it back, a payment still counted as   *)
(* completed is about to be reversed: an event is still to update the row  *)
(* or a delivery or a request is about to reverse (processWebhookEvent,    *)
(* refund), as long as no step was lost, overtaken or released too early.  *)
THEOREM BooksTheorem == Spec => []BooksFollowMoney
  <1> DEFINE Known == ReturnInv /\ ClaimInv /\ Unfindable /\ ClaimsHold
             Follow == EventsSent /\ ReturnFollowed /\ BooksFollowMoney
  <1>1. Init => Known /\ Follow
    BY DEF Init, ReturnInv, ReversedWasReturned, ClaimInv, Claimed, Unfindable,
           ClaimsHold, Asking, EventsSent, ReturnFollowed, BooksFollowMoney,
           IdleHook, IdleRefunder
  <1>2. TypeOK /\ BusyKnows /\ Known /\ [Next]_vars => Known'
    BY MoneyStep, HooksKnowStep, RefundersKnowStep, ReversedStep, ClaimStep,
       UnfindableStep, ClaimsStep
       DEF ReturnInv, MoneyKept, HooksKnow, RefundersKnow
  <1>3. TypeOK /\ BusyKnows /\ Known /\ Follow /\ [Next]_vars => Follow'
    BY EventsSentStep, ReturnFollowedStep, BooksFollowStep
  <1>4. Follow => BooksFollowMoney
    OBVIOUS
  <1> HIDE DEF Known, Follow
  <1> QED
    BY <1>1, <1>2, <1>3, <1>4, TypeCorrect, PTL DEF Spec


=============================================================================
