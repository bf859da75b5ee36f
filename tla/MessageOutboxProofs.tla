------------------------ MODULE MessageOutboxProofs ------------------------
(* Theorems about MessageOutbox, for any finite sets of messages and       *)
(* workers and any bounds.                                                 *)
EXTENDS MessageOutbox, FiniteSetTheorems, TLAPS

----------------------------------------------------------------------------
(* Type correctness *)

Sweeps == [pc : {"recover", "select", "deliver"}, batch : SUBSET Messages,
           seen : [Messages -> Nat], used : [Channels -> Nat]]

LEMMA StatusNames ==
    /\ Statuses = {"none", "queued", "claimed", "sending", "sent", "skipped",
                   "failed", "outcome_unknown", "cancelled"}
    /\ 0 \in 0..SendingStale /\ OverAMinute \in 0..SendingStale
  BY DEF Statuses, Final, SendingStale, OverAMinute

LEMMA IdleType == Idle \in Locals
  <1>1. AnyMessage \in Messages
    BY OutboxAssumption DEF AnyMessage
  <1> QED
    BY <1>1 DEF Idle, Locals, PCs, Results

LEMMA EmptySweepType == EmptySweep \in Sweeps
  BY DEF EmptySweep, Sweeps

LEMMA InitTypeOK == Init => TypeOK
  <1> SUFFICES ASSUME Init PROVE TypeOK
    OBVIOUS
  <1>2. row \in [Messages -> Rows]
    BY StatusNames DEF Init, Rows
  <1>3. worker \in [Workers -> Locals]
    BY IdleType DEF Init
  <1> QED
    BY <1>2, <1>3, EmptySweepType DEF Init, TypeOK, Sweeps, Results

(* Every action keeps the row, the workers, the sweep and the rest typed. *)
LEMMA StepTypeOK == TypeOK /\ [Next]_vars => TypeOK'
  <1> SUFFICES ASSUME TypeOK, [Next]_vars PROVE TypeOK'
    OBVIOUS
  <1> DEFINE Rest == /\ org \in [active : BOOLEAN, epoch : Nat]
                     /\ job \subseteq Messages
                     /\ reported \in [Messages -> Results]
                     /\ accepted \in [Messages -> Nat]
                     /\ requeues \in [Messages -> Nat]
                     /\ confirms \in [Messages -> Nat]
                     /\ faults \in Nat
  <1>a. row \in [Messages -> Rows] /\ worker \in [Workers -> Locals] /\ sweep \in Sweeps
    BY DEF TypeOK, Sweeps
  <1>b. Rest
    BY DEF TypeOK
  <1>c. /\ row' \in [Messages -> Rows] /\ worker' \in [Workers -> Locals]
        /\ sweep' \in Sweeps /\ Rest'
        => TypeOK'
    BY DEF TypeOK, Sweeps
  <1>1. ASSUME NEW m \in Messages, Enqueue(m)
        PROVE TypeOK'
    <2>1. row' \in [Messages -> Rows]
      <3>1. PICK status \in Statuses :
               row' = [row EXCEPT ![m].status = status,
                                  ![m].epoch = org.epoch, ![m].body = TRUE]
        BY <1>1, StatusNames DEF Enqueue
      <3>2. org.epoch \in Nat
        BY <1>b
      <3>3. row'[m] \in Rows
        BY <1>a, <3>1, <3>2 DEF Rows
      <3> QED
        BY <1>a, <3>1, <3>3
    <2>2. worker' \in [Workers -> Locals]
      BY <1>1, <1>a DEF Enqueue
    <2>3. sweep' \in Sweeps
      BY <1>1, <1>a DEF Enqueue
    <2>4. Rest'
      BY <1>1, <1>a, <1>b DEF Enqueue, history
    <2> QED
      BY <2>1, <2>2, <2>3, <2>4, <1>c
  <1>2. ASSUME NEW w \in Requests, NEW m \in Messages, DeliverNow(w, m)
        PROVE TypeOK'
    <2>1. row' \in [Messages -> Rows]
      BY <1>2, <1>a DEF DeliverNow
    <2>2. worker' \in [Workers -> Locals]
      BY <1>2, <1>a DEF DeliverNow, Holding, Rows, Locals, PCs, Results, Requests
    <2>3. sweep' \in Sweeps
      BY <1>2, <1>a DEF DeliverNow
    <2>4. Rest'
      BY <1>2, <1>a, <1>b DEF DeliverNow, history
    <2> QED
      BY <2>1, <2>2, <2>3, <2>4, <1>c
  <1>3. ASSUME NEW w \in Requests, NEW m \in Messages, SendNow(w, m)
        PROVE TypeOK'
    <2>1. row' \in [Messages -> Rows]
      BY <1>3, <1>a DEF SendNow
    <2>2. worker' \in [Workers -> Locals]
      BY <1>3, <1>a DEF SendNow, Holding, Rows, Locals, PCs, Results, Requests
    <2>3. sweep' \in Sweeps
      BY <1>3, <1>a DEF SendNow
    <2>4. Rest'
      BY <1>3, <1>a, <1>b DEF SendNow, history
    <2> QED
      BY <2>1, <2>2, <2>3, <2>4, <1>c
  <1>4. CASE RecoverStale
    <2>1. row' \in [Messages -> Rows]
      <3>1. ASSUME NEW m \in Messages PROVE RecoveredRow(m) \in Rows
        <4>1. /\ [row[m] EXCEPT !.status = "queued", !.age = 0] \in Rows
              /\ [row[m] EXCEPT !.status = "outcome_unknown"] \in Rows
              /\ row[m] \in Rows
          BY <1>a, StatusNames DEF Rows
        <4> QED
          BY <4>1 DEF RecoveredRow, RequeuedClaim
      <3> QED
        BY <1>4, <3>1 DEF RecoverStale
    <2>2. worker' \in [Workers -> Locals]
      BY <1>4, <1>a DEF RecoverStale
    <2>3. sweep' \in Sweeps
      BY <1>4, <1>a DEF RecoverStale, Sweeps
    <2>4. Rest'
      BY <1>4, <1>a, <1>b DEF RecoverStale, history
    <2> QED
      BY <2>1, <2>2, <2>3, <2>4, <1>c
  <1>5. CASE SelectDue
    <2>1. row' \in [Messages -> Rows]
      BY <1>5, <1>a DEF SelectDue
    <2>2. worker' \in [Workers -> Locals]
      BY <1>5, <1>a DEF SelectDue
    <2>3. sweep' \in Sweeps
      <3>1. ASSUME NEW c \in Channels PROVE Cardinality(SentThisMinute(c)) \in Nat
        <4>1. IsFiniteSet(SentThisMinute(c))
          BY OutboxAssumption, FS_Subset, SentThisMinute(c) \subseteq Messages
             DEF SentThisMinute
        <4> QED
          BY <4>1, FS_CardinalityType
      <3>2. \A m \in Messages : row[m].attempts \in Nat
        BY <1>a DEF Rows
      <3>3. DueRows \subseteq Messages
        BY DEF DueRows
      <3> QED
        BY <1>5, <3>1, <3>2, <3>3, EmptySweepType DEF SelectDue, Sweeps
    <2>4. Rest'
      BY <1>5, <1>a, <1>b DEF SelectDue, history
    <2> QED
      BY <2>1, <2>2, <2>3, <2>4, <1>c
  <1>6. ASSUME NEW m \in Messages, Defer(m)
        PROVE TypeOK'
    <2>1. row' \in [Messages -> Rows]
      <3>1. \/ row' = row
            \/ row' = [row EXCEPT ![m].due = FALSE]
        BY <1>6 DEF Defer
      <3>2. row'[m] \in Rows
        BY <1>a, <3>1 DEF Rows
      <3> QED
        BY <1>a, <3>1, <3>2
    <2>2. worker' \in [Workers -> Locals]
      BY <1>6, <1>a DEF Defer
    <2>3. sweep' \in Sweeps
      BY <1>6, <1>a DEF Defer, Without, Sweeps
    <2>4. Rest'
      BY <1>6, <1>a, <1>b DEF Defer, history
    <2> QED
      BY <2>1, <2>2, <2>3, <2>4, <1>c
  <1>7. ASSUME NEW m \in Messages, PickDue(m)
        PROVE TypeOK'
    <2>1. row' \in [Messages -> Rows]
      BY <1>7, <1>a DEF PickDue
    <2>2. worker' \in [Workers -> Locals]
      BY <1>7, <1>a, OutboxAssumption DEF PickDue, Holding, Locals, PCs, Results, Sweeps
    <2>3. sweep' \in Sweeps
      BY <1>7, <1>a DEF PickDue, Without, Sweeps
    <2>4. Rest'
      BY <1>7, <1>a, <1>b DEF PickDue, history
    <2> QED
      BY <2>1, <2>2, <2>3, <2>4, <1>c
  <1>8. CASE EndPass
    <2>1. row' \in [Messages -> Rows]
      BY <1>8, <1>a DEF EndPass
    <2>2. worker' \in [Workers -> Locals]
      BY <1>8, <1>a DEF EndPass
    <2>3. sweep' \in Sweeps
      BY <1>8, <1>a, EmptySweepType DEF EndPass
    <2>4. Rest'
      BY <1>8, <1>a, <1>b DEF EndPass, history
    <2> QED
      BY <2>1, <2>2, <2>3, <2>4, <1>c
  <1>9. ASSUME NEW w \in Workers, Claim(w)
        PROVE TypeOK'
    <2>1. row' \in [Messages -> Rows]
      BY <1>9, <1>a, StatusNames DEF Rows, Locals, Claim
    <2>2. worker' \in [Workers -> Locals]
      BY <1>9, <1>a, IdleType DEF Locals, PCs, Claim
    <2>3. sweep' \in Sweeps
      BY <1>9, <1>a DEF Claim
    <2>4. Rest'
      BY <1>9, <1>a, <1>b DEF Claim, history
    <2> QED
      BY <2>1, <2>2, <2>3, <2>4, <1>c
  <1>10. ASSUME NEW w \in Workers, ReadOwner(w)
         PROVE TypeOK'
    <2>1. row' \in [Messages -> Rows]
      BY <1>10, <1>a DEF ReadOwner
    <2>2. worker' \in [Workers -> Locals]
      BY <1>10, <1>a DEF Locals, PCs, ReadOwner, Goto
    <2>3. sweep' \in Sweeps
      BY <1>10, <1>a DEF ReadOwner
    <2>4. Rest'
      BY <1>10, <1>a, <1>b DEF ReadOwner, history
    <2> QED
      BY <2>1, <2>2, <2>3, <2>4, <1>c
  <1>11. ASSUME NEW w \in Workers, MarkBlocked(w)
         PROVE TypeOK'
    <2>1. row' \in [Messages -> Rows]
      <3>1. PICK m \in Messages : m = worker[w].msg
        BY <1>a DEF Locals
      <3>2. \/ row' = row
            \/ row' = [row EXCEPT ![m].status = "sending"]
        BY <1>11, <3>1 DEF MarkBlocked
      <3>3. row'[m] \in Rows
        BY <1>a, <3>2, StatusNames DEF Rows
      <3> QED
        BY <1>a, <3>2, <3>3
    <2>2. worker' \in [Workers -> Locals]
      <3>1. worker' = [worker EXCEPT ![w].pc = "answered", ![w].res = "skipped"]
        BY <1>11 DEF MarkBlocked
      <3>2. "answered" \in PCs /\ "skipped" \in Results
        BY DEF PCs, Results, Outcomes
      <3>3. worker'[w] \in Locals
        BY <1>a, <3>1, <3>2 DEF Locals
      <3> QED
        BY <1>a, <3>1, <3>3
    <2>3. sweep' \in Sweeps
      BY <1>11, <1>a DEF MarkBlocked
    <2>4. Rest'
      BY <1>11, <1>a, <1>b DEF MarkBlocked, history
    <2> QED
      BY <2>1, <2>2, <2>3, <2>4, <1>c
  <1>12. ASSUME NEW w \in Workers, MarkSending(w)
         PROVE TypeOK'
    <2>1. row' \in [Messages -> Rows]
      BY <1>12, <1>a, StatusNames DEF Rows, Locals, MarkSending
    <2>2. worker' \in [Workers -> Locals]
      BY <1>12, <1>a, IdleType DEF Locals, PCs, MarkSending, Goto
    <2>3. sweep' \in Sweeps
      BY <1>12, <1>a DEF MarkSending
    <2>4. Rest'
      BY <1>12, <1>a, <1>b DEF MarkSending, history
    <2> QED
      BY <2>1, <2>2, <2>3, <2>4, <1>c
  <1>13. ASSUME NEW w \in Workers, ProviderAccepts(w)
         PROVE TypeOK'
    <2>1. row' \in [Messages -> Rows]
      BY <1>13, <1>a DEF ProviderAccepts
    <2>2. worker' \in [Workers -> Locals]
      BY <1>13, <1>a DEF Locals, PCs, ProviderAccepts, Goto
    <2>3. sweep' \in Sweeps
      BY <1>13, <1>a DEF ProviderAccepts
    <2>4. Rest'
      BY <1>13, <1>a, <1>b DEF ProviderAccepts, Locals
    <2> QED
      BY <2>1, <2>2, <2>3, <2>4, <1>c
  <1>14. ASSUME NEW w \in Workers, Answer(w)
         PROVE TypeOK'
    <2>1. row' \in [Messages -> Rows]
      BY <1>14, <1>a DEF Answer
    <2>2. worker' \in [Workers -> Locals]
      <3>1. PICK res \in Results :
               worker' = [worker EXCEPT ![w].pc = "answered", ![w].res = res]
        BY <1>14 DEF Answer, UnsentAnswers, AcceptedAnswers, Outcomes, Results
      <3> QED
        BY <1>a, <3>1 DEF Locals, PCs
    <2>3. sweep' \in Sweeps
      BY <1>14, <1>a DEF Answer
    <2>4. Rest'
      BY <1>14, <1>a, <1>b DEF Answer, history
    <2> QED
      BY <2>1, <2>2, <2>3, <2>4, <1>c
  <1>15. ASSUME NEW w \in Workers, Finish(w)
         PROVE TypeOK'
    <2>1. row' \in [Messages -> Rows]
      <3> DEFINE m == worker[w].msg
                 status == FinishStatus(worker[w].res, worker[w].attempts)
                 due == IF status = "queued" THEN FALSE ELSE row[m].due
      <3>1. status \in Statuses /\ 0 \in 0..SendingStale /\ m \in Messages
        BY <1>a, StatusNames DEF FinishStatus, Locals
      <3>2. due \in BOOLEAN
        BY <1>a, <3>1 DEF Rows
      <3>3. \/ UNCHANGED row
            \/ row' = [row EXCEPT ![m].status = status, ![m].age = 0, ![m].due = due]
        BY <1>15 DEF Finish, FinishWhere
      <3> HIDE DEF status, m, due
      <3>4. row'[m] \in Rows
        BY <1>a, <3>1, <3>2, <3>3 DEF Rows
      <3> QED
        BY <1>a, <3>1, <3>3, <3>4
    <2>2. worker' \in [Workers -> Locals]
      <3> DEFINE status == FinishStatus(worker[w].res, worker[w].attempts)
      <3>1. status \in Results \cup {"queued"}
        BY DEF FinishStatus, Results, Final
      <3> HIDE DEF status
      <3>2. \/ worker' = [worker EXCEPT ![w] = Idle]
            \/ /\ status # "queued"
               /\ \E pc \in {"clearing", "notifying"} :
                     worker' = [worker EXCEPT ![w] =
                                  [worker[w] EXCEPT !.pc = pc, !.res = status]]
        BY <1>15 DEF Finish, FinishWhere, status
      <3>3. status # "queued" => \A pc \in {"clearing", "notifying"} :
              [worker[w] EXCEPT !.pc = pc, !.res = status] \in Locals
        BY <1>a, <3>1 DEF Locals, PCs
      <3> QED
        BY <1>a, <3>2, <3>3, IdleType
    <2>3. sweep' \in Sweeps
      <3>1. Channel[worker[w].msg] \in Channels
        BY <1>a, OutboxAssumption DEF Locals
      <3> QED
        BY <1>15, <1>a, <3>1 DEF Finish, FinishWhere, Sweeps
    <2>4. Rest'
      BY <1>15, <1>a, <1>b DEF Finish, FinishWhere, history
    <2> QED
      BY <2>1, <2>2, <2>3, <2>4, <1>c
  <1>16. ASSUME NEW w \in Workers, ClearSensitive(w)
         PROVE TypeOK'
    <2>1. row' \in [Messages -> Rows]
      BY <1>16, <1>a DEF Rows, Locals, ClearSensitive
    <2>2. worker' \in [Workers -> Locals]
      BY <1>16, <1>a DEF Locals, PCs, ClearSensitive, Goto
    <2>3. sweep' \in Sweeps
      BY <1>16, <1>a DEF ClearSensitive
    <2>4. Rest'
      BY <1>16, <1>a, <1>b DEF ClearSensitive, history
    <2> QED
      BY <2>1, <2>2, <2>3, <2>4, <1>c
  <1>17. ASSUME NEW w \in Workers, NotifyOutcome(w)
         PROVE TypeOK'
    <2>1. row' \in [Messages -> Rows]
      BY <1>17, <1>a DEF NotifyOutcome
    <2>2. worker' \in [Workers -> Locals]
      BY <1>17, <1>a, IdleType DEF NotifyOutcome
    <2>3. sweep' \in Sweeps
      BY <1>17, <1>a DEF NotifyOutcome
    <2>4. Rest'
      BY <1>17, <1>a, <1>b DEF NotifyOutcome, history, Locals
    <2> QED
      BY <2>1, <2>2, <2>3, <2>4, <1>c
  <1>18. ASSUME NEW w \in Workers, Crash(w)
         PROVE TypeOK'
    <2>1. row' \in [Messages -> Rows]
      BY <1>18, <1>a DEF Crash
    <2>2. worker' \in [Workers -> Locals]
      BY <1>18, <1>a, IdleType DEF Crash
    <2>3. sweep' \in Sweeps
      BY <1>18, <1>a, EmptySweepType DEF Crash
    <2>4. Rest'
      BY <1>18, <1>a, <1>b DEF Crash, history
    <2> QED
      BY <2>1, <2>2, <2>3, <2>4, <1>c
  <1>19. ASSUME NEW m \in Messages, NEW confirm \in BOOLEAN, Retry(m, confirm)
         PROVE TypeOK'
    <2>1. row' \in [Messages -> Rows]
      <3>1. row' = [row EXCEPT ![m].status = "queued", ![m].attempts = 0,
                               ![m].due = TRUE, ![m].age = 0]
        BY <1>19 DEF Retry, Requeue
      <3>2. "queued" \in Statuses /\ 0 \in 0..SendingStale
        BY StatusNames
      <3>3. row'[m] \in Rows
        BY <1>a, <3>1, <3>2 DEF Rows
      <3> QED
        BY <1>a, <3>1, <3>3
    <2>2. worker' \in [Workers -> Locals]
      BY <1>19, <1>a DEF Retry, Requeue
    <2>3. sweep' \in Sweeps
      BY <1>19, <1>a DEF Retry, Requeue
    <2>4. Rest'
      BY <1>19, <1>a, <1>b DEF Retry, Requeue
    <2> QED
      BY <2>1, <2>2, <2>3, <2>4, <1>c
  <1>20. ASSUME NEW w \in Requests, NEW m \in Messages, NEW from, CancelRow(w, m, from)
         PROVE TypeOK'
    <2>1. row' \in [Messages -> Rows]
      <3>1. row' = [row EXCEPT ![m].status = "cancelled", ![m].age = 0]
        BY <1>20 DEF CancelRow
      <3>2. "cancelled" \in Statuses /\ 0 \in 0..SendingStale
        BY StatusNames
      <3>3. row'[m] \in Rows
        BY <1>a, <3>1, <3>2 DEF Rows
      <3> QED
        BY <1>a, <3>1, <3>3
    <2>2. worker' \in [Workers -> Locals]
      BY <1>20, <1>a DEF Locals, PCs, Results, Final, Requests, CancelRow
    <2>3. sweep' \in Sweeps
      BY <1>20, <1>a DEF CancelRow
    <2>4. Rest'
      BY <1>20, <1>a, <1>b DEF CancelRow, history
    <2> QED
      BY <2>1, <2>2, <2>3, <2>4, <1>c
  <1>21. CASE ToggleOrganization
    <2>1. row' \in [Messages -> Rows]
      BY <1>21, <1>a DEF ToggleOrganization
    <2>2. worker' \in [Workers -> Locals]
      BY <1>21, <1>a DEF ToggleOrganization
    <2>3. sweep' \in Sweeps
      BY <1>21, <1>a DEF ToggleOrganization
    <2>4. Rest'
      BY <1>21, <1>a, <1>b DEF ToggleOrganization, history
    <2> QED
      BY <2>1, <2>2, <2>3, <2>4, <1>c
  <1>22. ASSUME NEW m \in Messages, TimePasses(m)
         PROVE TypeOK'
    <2>1. row' \in [Messages -> Rows]
      <3>1. \/ row' = [row EXCEPT ![m].due = TRUE]
            \/ \E age \in 0..SendingStale : row' = [row EXCEPT ![m].age = age]
        BY <1>22, StatusNames DEF TimePasses, ClaimStale, SendingStale
      <3>2. CASE row' = [row EXCEPT ![m].due = TRUE]
        <4>1. row'[m] \in Rows
          BY <1>a, <3>2 DEF Rows
        <4> QED
          BY <1>a, <3>2, <4>1
      <3>3. ASSUME NEW age \in 0..SendingStale, row' = [row EXCEPT ![m].age = age]
            PROVE  row' \in [Messages -> Rows]
        <4>1. row'[m] \in Rows
          BY <1>a, <3>3 DEF Rows
        <4> QED
          BY <1>a, <3>3, <4>1
      <3> QED
        BY <3>1, <3>2, <3>3
    <2>2. worker' \in [Workers -> Locals]
      BY <1>22, <1>a DEF TimePasses
    <2>3. sweep' \in Sweeps
      BY <1>22, <1>a DEF TimePasses
    <2>4. Rest'
      BY <1>22, <1>a, <1>b DEF TimePasses, history
    <2> QED
      BY <2>1, <2>2, <2>3, <2>4, <1>c
  <1>23. CASE UNCHANGED vars
    BY <1>23, <1>a, <1>b, <1>c DEF vars
  <1> QED
    BY <1>1, <1>2, <1>3, <1>4, <1>5, <1>6, <1>7, <1>8, <1>9, <1>10, <1>11, <1>12,
       <1>13, <1>14, <1>15, <1>16, <1>17, <1>18, <1>19, <1>20, <1>21, <1>22, <1>23
       DEF Next, SweepStep, RequestStep, StaffRetry, DeliverStep, Cancel,
           CancelQueuedBySource

(* Every reachable state of the outbox is well typed. *)
THEOREM TypeCorrect == SafetySpec => []TypeOK
  BY InitTypeOK, StepTypeOK, PTL DEF SafetySpec

----------------------------------------------------------------------------
(* The right to call an SMS provider is conserved *)

HasRight(l, m) ==
    /\ l.msg = m
    /\ l.pc = "calling" \/ (l.pc = "answered" /\ l.res \in {"retry", "failed"})

LEMMA RightsFinite ==
    ASSUME NEW m
    PROVE  IsFiniteSet(Rights(m)) /\ Cardinality(Rights(m)) \in Nat
  <1>1. Rights(m) \in SUBSET Workers
    BY DEF Rights
  <1>2. IsFiniteSet(Rights(m))
    BY <1>1, FS_Subset, OutboxAssumption
  <1> QED
    BY <1>2, FS_CardinalityType

(* When one worker moves, the holders of a right change by that worker. *)
LEMMA RightsStep ==
    ASSUME NEW w \in Workers, NEW m, worker' \in [Workers -> Locals],
           \A v \in Workers \ {w} : worker'[v] = worker[v]
    PROVE  /\ Cardinality(Rights(m)') \in Nat
           /\ HasRight(worker[w], m) /\ ~HasRight(worker'[w], m) =>
                Cardinality(Rights(m)') = Cardinality(Rights(m)) - 1
           /\ ~HasRight(worker[w], m) /\ HasRight(worker'[w], m) =>
                Cardinality(Rights(m)') = Cardinality(Rights(m)) + 1
           /\ HasRight(worker[w], m) /\ HasRight(worker'[w], m) =>
                Cardinality(Rights(m)') = Cardinality(Rights(m))
           /\ ~HasRight(worker'[w], m) =>
                Cardinality(Rights(m)') <= Cardinality(Rights(m))
  <1>1. /\ w \in Rights(m) <=> HasRight(worker[w], m)
        /\ w \in Rights(m)' <=> HasRight(worker'[w], m)
    BY DEF Rights, HasRight
  <1>2. \A v \in Workers \ {w} : v \in Rights(m)' <=> v \in Rights(m)
    BY DEF Rights
  <1>3. Rights(m)' \subseteq Workers /\ Rights(m) \subseteq Workers
    BY DEF Rights
  <1>4. HasRight(worker'[w], m) => Rights(m)' = Rights(m) \cup {w}
    BY <1>1, <1>2, <1>3
  <1>5. ~HasRight(worker'[w], m) => Rights(m)' = Rights(m) \ {w}
    BY <1>1, <1>2, <1>3
  <1>6. IsFiniteSet(Rights(m)) /\ Cardinality(Rights(m)) \in Nat
    BY RightsFinite
  <1>7. /\ Cardinality(Rights(m) \cup {w}) =
             IF w \in Rights(m) THEN Cardinality(Rights(m)) ELSE Cardinality(Rights(m)) + 1
        /\ Cardinality(Rights(m) \ {w}) =
             IF w \in Rights(m) THEN Cardinality(Rights(m)) - 1 ELSE Cardinality(Rights(m))
        /\ IsFiniteSet(Rights(m) \cup {w}) /\ IsFiniteSet(Rights(m) \ {w})
    BY <1>6, FS_AddElement, FS_RemoveElement
  <1>8. Cardinality(Rights(m) \cup {w}) \in Nat /\ Cardinality(Rights(m) \ {w}) \in Nat
    BY <1>7, FS_CardinalityType
  <1>9. CASE HasRight(worker'[w], m)
    <2>1. Cardinality(Rights(m)') = Cardinality(Rights(m) \cup {w})
      BY <1>4, <1>9
    <2> HIDE DEF HasRight
    <2> QED
      BY <2>1, <1>1, <1>6, <1>7, <1>8, <1>9
  <1>10. CASE ~HasRight(worker'[w], m)
    <2>1. Cardinality(Rights(m)') = Cardinality(Rights(m) \ {w})
      BY <1>5, <1>10
    <2> QED
      BY <2>1, <1>1, <1>6, <1>7, <1>8, <1>10
  <1> QED
    BY <1>9, <1>10

LEMMA FinishMoves ==
    ASSUME TypeOK, NEW w \in Workers, Finish(w)
    PROVE  /\ \A v \in Workers \ {w} : worker'[v] = worker[v]
           /\ worker'[w].pc \in {"idle", "clearing", "notifying"}
  <1>1. worker \in [Workers -> Locals]
    BY DEF TypeOK
  <1>2. \/ worker' = [worker EXCEPT ![w] = Idle]
        \/ \E pc \in {"clearing", "notifying"} :
              worker' = [worker EXCEPT ![w] =
                [worker[w] EXCEPT !.pc = pc,
                     !.res = FinishStatus(worker[w].res, worker[w].attempts)]]
    BY DEF Finish, FinishWhere
  <1>3. \A v \in Workers \ {w} : worker'[v] = worker[v]
    BY <1>1, <1>2
  <1>4. worker' = [worker EXCEPT ![w] = Idle] => worker'[w].pc = "idle"
    BY <1>1 DEF Idle
  <1>5. ASSUME NEW pc \in {"clearing", "notifying"}, NEW res,
               worker' = [worker EXCEPT ![w] =
                            [worker[w] EXCEPT !.pc = pc, !.res = res]]
        PROVE  worker'[w].pc = pc
    BY <1>1, <1>5 DEF Locals
  <1> QED
    BY <1>2, <1>3, <1>4, <1>5

(* What a worker brings to finish() is an adapter's answer. *)
AnswersKnown ==
    \A w \in Workers : worker[w].pc = "answered" => worker[w].res \in Outcomes

LEMMA StepAnswersKnown ==
    TypeOK /\ AnswersKnown /\ [Next]_vars => AnswersKnown'
  <1> SUFFICES ASSUME TypeOK, AnswersKnown, [Next]_vars,
                      NEW v \in Workers, worker'[v].pc = "answered"
               PROVE  worker'[v].res \in Outcomes
    BY DEF AnswersKnown
  <1>1. worker \in [Workers -> Locals]
    BY DEF TypeOK
  <1>2. UNCHANGED worker => worker'[v].res \in Outcomes
    BY DEF AnswersKnown
  <1>3. ASSUME NEW w \in Workers, MarkBlocked(w) \/ Answer(w)
        PROVE  worker'[v].res \in Outcomes
    BY <1>1, <1>3 DEF MarkBlocked, Answer, UnsentAnswers, AcceptedAnswers, Outcomes,
                      AnswersKnown, Locals
  <1>4. ASSUME NEW w \in Workers,
               Claim(w) \/ ReadOwner(w) \/ MarkSending(w) \/ ProviderAccepts(w)
               \/ ClearSensitive(w) \/ NotifyOutcome(w) \/ Crash(w)
        PROVE  worker'[v].res \in Outcomes
    BY <1>1, <1>4 DEF Claim, ReadOwner, MarkSending, ProviderAccepts, ClearSensitive,
                      NotifyOutcome, Crash, Goto, Idle, AnswersKnown, Locals
  <1>5. ASSUME NEW w \in Workers, Finish(w)
        PROVE  worker'[v].res \in Outcomes
    BY <1>5, FinishMoves DEF AnswersKnown
  <1>6. ASSUME NEW w \in Workers, NEW m \in Messages, NEW from,
               DeliverNow(w, m) \/ SendNow(w, m) \/ CancelRow(w, m, from)
        PROVE  worker'[v].res \in Outcomes
    BY <1>1, <1>6 DEF DeliverNow, SendNow, CancelRow, Holding, AnswersKnown
  <1>7. ASSUME NEW m \in Messages, PickDue(m)
        PROVE  worker'[v].res \in Outcomes
    BY <1>1, <1>7 DEF PickDue, Holding, AnswersKnown
  <1>8. ASSUME NEW m \in Messages, NEW confirm \in BOOLEAN,
               Enqueue(m) \/ Defer(m) \/ TimePasses(m) \/ Retry(m, confirm)
        PROVE  UNCHANGED worker
    BY <1>8 DEF Enqueue, Defer, TimePasses, Retry, Requeue
  <1>9. RecoverStale \/ SelectDue \/ EndPass \/ ToggleOrganization \/ UNCHANGED vars
        => UNCHANGED worker
    BY DEF RecoverStale, SelectDue, EndPass, ToggleOrganization, vars
  <1> QED
    BY <1>2, <1>3, <1>4, <1>5, <1>6, <1>7, <1>8, <1>9
       DEF Next, SweepStep, RequestStep, StaffRetry, DeliverStep, Cancel,
           CancelQueuedBySource, Requests

Conserved(m) ==
    accepted[m] + Cardinality(Rights(m)) + RowRight(m) <= 1 + requeues[m]

LEMMA InitConserved == Init => SendRightConserved
  <1> SUFFICES ASSUME Init, NEW m \in AtMostOnce PROVE Conserved(m)
    BY DEF SendRightConserved, Conserved
  <1>1. Rights(m) = {}
    BY DEF Init, Rights, Idle
  <1>2. Cardinality(Rights(m)) = 0
    BY <1>1, FS_EmptySet
  <1> QED
    BY <1>2 DEF Init, Conserved, RowRight, AtMostOnce

LEMMA StepConserved ==
    TypeOK /\ TypeOK' /\ AnswersKnown /\ SendRightConserved /\ [Next]_vars
        => SendRightConserved'
  <1> SUFFICES ASSUME TypeOK, TypeOK', AnswersKnown, SendRightConserved, [Next]_vars,
                      NEW n \in AtMostOnce
               PROVE  Conserved(n)'
    BY DEF SendRightConserved, Conserved, AtMostOnce
  <1>a. /\ row \in [Messages -> Rows] /\ worker \in [Workers -> Locals]
        /\ worker' \in [Workers -> Locals]
    BY DEF TypeOK
  <1>b. /\ n \in Messages /\ Channel[n] = "sms"
        /\ accepted[n] \in Nat /\ requeues[n] \in Nat
        /\ Cardinality(Rights(n)) \in Nat /\ Cardinality(Rights(n)') \in Nat
        /\ RowRight(n) \in {0, 1} /\ RowRight(n)' \in {0, 1}
    <2>1. Cardinality(Rights(n)') \in Nat
      <3>1. Rights(n)' \in SUBSET Workers
        BY DEF Rights
      <3>2. IsFiniteSet(Rights(n)')
        BY <3>1, FS_Subset, OutboxAssumption
      <3> QED
        BY <3>2, FS_CardinalityType
    <2> QED
      BY <2>1, RightsFinite DEF TypeOK, AtMostOnce, RowRight
  <1>c. accepted[n] + Cardinality(Rights(n)) + RowRight(n) <= 1 + requeues[n]
    BY DEF SendRightConserved
  <1> DEFINE Same == accepted'[n] = accepted[n] /\ requeues'[n] = requeues[n]
             Idles(w) == /\ \A v \in Workers \ {w} : worker'[v] = worker[v]
                         /\ ~HasRight(worker'[w], n)
  (* A step that gives nobody a right and the row none keeps the sum. *)
  <1>d. ASSUME Same, RowRight(n)' <= RowRight(n),
               UNCHANGED worker \/ \E w \in Workers : Idles(w)
        PROVE  Conserved(n)'
    <2>1. UNCHANGED worker => Cardinality(Rights(n)') = Cardinality(Rights(n))
      BY DEF Rights
    <2>2. ASSUME NEW w \in Workers, Idles(w)
          PROVE  Cardinality(Rights(n)') <= Cardinality(Rights(n))
      BY <2>2, <1>a, RightsStep
    <2>3. Cardinality(Rights(n)') <= Cardinality(Rights(n))
      BY <1>b, <1>d, <2>1, <2>2
    <2> QED
      BY <1>b, <1>c, <1>d, <2>3 DEF Conserved
  <1>1. ASSUME NEW m \in Messages, Enqueue(m) PROVE Conserved(n)'
    <2>1. RowRight(n)' <= RowRight(n)
      BY <1>1, <1>a, <1>b DEF Enqueue, RowRight
    <2> QED
      BY <1>1, <2>1, <1>d DEF Enqueue, history
  <1>2. ASSUME NEW w \in Requests, NEW m \in Messages, DeliverNow(w, m)
        PROVE  Conserved(n)'
    <2>1. UNCHANGED worker \/ Idles(w)
      BY <1>2, <1>a DEF DeliverNow, Holding, HasRight, Requests
    <2> QED
      BY <1>2, <1>b, <2>1, <1>d DEF DeliverNow, history, RowRight, Requests
  <1>3. ASSUME NEW w \in Requests, NEW m \in Messages, SendNow(w, m)
        PROVE  Conserved(n)'
    <2>1. Idles(w)
      BY <1>3, <1>a DEF SendNow, Holding, HasRight, Requests
    <2> QED
      BY <1>3, <1>b, <2>1, <1>d DEF SendNow, history, RowRight, Requests
  <1>4. CASE RecoverStale
    <2>1. row'[n] = RecoveredRow(n)
      BY <1>4, <1>b DEF RecoverStale
    <2>2. RecoveredRow(n).status =
            CASE row[n].status = "claimed" /\ row[n].age >= ClaimStale -> "queued"
              [] row[n].status = "sending" /\ row[n].age >= SendingStale -> "outcome_unknown"
              [] OTHER -> row[n].status
      BY <1>a, <1>b DEF RecoveredRow, RequeuedClaim, Rows
    <2>3. RowRight(n)' <= RowRight(n)
      BY <2>1, <2>2, <1>b DEF RowRight
    <2> QED
      BY <1>4, <2>3, <1>d DEF RecoverStale, history
  <1>5. CASE SelectDue
    BY <1>5, <1>b, <1>d DEF SelectDue, history, RowRight
  <1>6. ASSUME NEW m \in Messages, Defer(m) PROVE Conserved(n)'
    <2>1. RowRight(n)' <= RowRight(n)
      BY <1>6, <1>a, <1>b DEF Defer, RowRight, Rows
    <2> QED
      BY <1>6, <2>1, <1>d DEF Defer, history
  <1>7. ASSUME NEW m \in Messages, PickDue(m) PROVE Conserved(n)'
    <2>1. Idles(Sweeper) /\ Sweeper \in Workers
      BY <1>7, <1>a, OutboxAssumption DEF PickDue, Holding, HasRight
    <2> QED
      BY <1>7, <1>b, <2>1, <1>d DEF PickDue, history, RowRight
  <1>8. CASE EndPass
    BY <1>8, <1>b, <1>d DEF EndPass, history, RowRight
  <1>9. ASSUME NEW w \in Workers, Claim(w) PROVE Conserved(n)'
    <2>1. Idles(w)
      BY <1>9, <1>a DEF Claim, HasRight, Idle, Locals
    <2>2. RowRight(n)' <= RowRight(n)
      BY <1>9, <1>a, <1>b DEF Claim, RowRight, Rows, Locals
    <2> QED
      BY <1>9, <2>1, <2>2, <1>d DEF Claim, history
  <1>10. ASSUME NEW w \in Workers, ReadOwner(w) PROVE Conserved(n)'
    <2>1. Idles(w)
      BY <1>10, <1>a DEF ReadOwner, Goto, HasRight, Locals
    <2> QED
      BY <1>10, <1>b, <2>1, <1>d DEF ReadOwner, history, RowRight
  <1>11. ASSUME NEW w \in Workers, MarkBlocked(w) PROVE Conserved(n)'
    <2>1. Idles(w)
      BY <1>11, <1>a DEF MarkBlocked, HasRight, Locals
    <2>2. RowRight(n)' <= RowRight(n)
      BY <1>11, <1>a, <1>b DEF MarkBlocked, RowRight, Rows, Locals
    <2> QED
      BY <1>11, <2>1, <2>2, <1>d DEF MarkBlocked, history
  <1>12. ASSUME NEW w \in Workers, MarkSending(w) PROVE Conserved(n)'
    <2> DEFINE m == worker[w].msg
    <2>1. CASE row[m].status = "claimed" /\ m = n
      (* The row's right passes to the worker. *)
      <3>1. ~HasRight(worker[w], n) /\ HasRight(worker'[w], n)
        BY <1>12, <2>1, <1>a DEF MarkSending, Goto, HasRight, Locals
      <3>2. RowRight(n) = 1 /\ RowRight(n)' = 0
        BY <1>12, <2>1, <1>a, <1>b DEF MarkSending, RowRight, Rows
      <3>3. \A v \in Workers \ {w} : worker'[v] = worker[v]
        BY <1>12, <2>1, <1>a DEF MarkSending, Goto
      <3>4. Cardinality(Rights(n)') = Cardinality(Rights(n)) + 1
        BY <3>1, <3>3, <1>a, RightsStep
      <3> QED
        BY <1>12, <1>b, <1>c, <3>2, <3>4 DEF MarkSending, history, Conserved
    <2>2. CASE ~(row[m].status = "claimed" /\ m = n)
      <3>1. Idles(w)
        BY <1>12, <2>2, <1>a DEF MarkSending, Goto, HasRight, Idle, Locals
      <3>2. RowRight(n)' <= RowRight(n)
        BY <1>12, <2>2, <1>a, <1>b DEF MarkSending, RowRight, Rows, Locals
      <3> QED
        BY <1>12, <3>1, <3>2, <1>d DEF MarkSending, history
    <2> QED
      BY <2>1, <2>2
  <1>13. ASSUME NEW w \in Workers, ProviderAccepts(w) PROVE Conserved(n)'
    <2> DEFINE m == worker[w].msg
    <2>1. /\ \A v \in Workers \ {w} : worker'[v] = worker[v]
          /\ ~HasRight(worker'[w], n)
          /\ RowRight(n)' = RowRight(n) /\ requeues'[n] = requeues[n]
      BY <1>13, <1>a DEF ProviderAccepts, Goto, HasRight, Locals, RowRight
    <2>2. CASE m = n
      (* The worker's right is spent on the acceptance. *)
      <3>1. HasRight(worker[w], n) /\ accepted'[n] = accepted[n] + 1
        BY <1>13, <2>2, <1>b DEF ProviderAccepts, HasRight, TypeOK
      <3>2. Cardinality(Rights(n)') = Cardinality(Rights(n)) - 1
        BY <2>1, <3>1, <1>a, RightsStep
      <3> QED
        BY <1>b, <1>c, <2>1, <3>1, <3>2 DEF Conserved
    <2>3. CASE m # n
      <3>1. accepted'[n] = accepted[n]
        BY <1>13, <2>3, <1>b DEF ProviderAccepts, TypeOK
      <3> QED
        BY <2>1, <3>1, <1>b, <1>d
    <2> QED
      BY <2>2, <2>3
  <1>14. ASSUME NEW w \in Workers, Answer(w) PROVE Conserved(n)'
    <2> DEFINE m == worker[w].msg
    <2>1. /\ \A v \in Workers \ {w} : worker'[v] = worker[v]
          /\ RowRight(n)' = RowRight(n) /\ Same
      BY <1>14, <1>a, <1>b DEF Answer, history, RowRight
    <2>2. CASE HasRight(worker'[w], n) /\ worker[w].pc = "calling"
      <3>1. HasRight(worker[w], n)
        BY <1>14, <2>2, <1>a DEF Answer, HasRight, Locals
      <3>2. Cardinality(Rights(n)') = Cardinality(Rights(n))
        BY <2>1, <2>2, <3>1, <1>a, RightsStep
      <3> QED
        BY <1>b, <1>c, <2>1, <3>2 DEF Conserved
    <2>3. CASE HasRight(worker'[w], n) /\ worker[w].pc # "calling"
      (* An SMS that was taken is never answered with a retryable failure. *)
      <3>1. m = n
        BY <1>14, <2>3, <1>a DEF Answer, HasRight, Locals
      <3>2. worker'[w].res \in {"sent", "unknown"}
        BY <1>14, <2>3, <3>1, <1>a, <1>b DEF Answer, AcceptedAnswers, Locals
      <3>3. worker'[w].pc = "answered"
        BY <1>14, <1>a DEF Answer, Locals
      <3> QED
        BY <2>3, <3>2, <3>3 DEF HasRight
    <2>4. CASE ~HasRight(worker'[w], n)
      BY <2>1, <2>4, <1>b, <1>d
    <2> QED
      BY <2>2, <2>3, <2>4
  <1>15. ASSUME NEW w \in Workers, Finish(w) PROVE Conserved(n)'
    <2> DEFINE m == worker[w].msg
               status == FinishStatus(worker[w].res, worker[w].attempts)
    <2>1. Idles(w) /\ Same
      BY <1>15, FinishMoves DEF Finish, FinishWhere, HasRight, history
    <2>2. CASE m = n /\ row[m].status = "sending" /\ worker[w].res \in {"retry", "failed"}
      (* The worker's right goes back to the row. *)
      <3>1. HasRight(worker[w], n)
        BY <1>15, <2>2 DEF Finish, FinishWhere, HasRight
      <3>2. Cardinality(Rights(n)') = Cardinality(Rights(n)) - 1
        BY <2>1, <3>1, <1>a, RightsStep
      <3>3. RowRight(n) = 0
        BY <2>2, <1>b DEF RowRight
      <3> QED
        BY <1>b, <1>c, <2>1, <3>2, <3>3 DEF Conserved
    <2>3. CASE ~(m = n /\ row[m].status = "sending" /\ worker[w].res \in {"retry", "failed"})
      <3>1. ASSUME m = n /\ row[m].status = "sending"
            PROVE  RowRight(n)' <= RowRight(n)
        <4>1. worker[w].res \in {"sent", "skipped", "unknown"}
          BY <1>15, <2>3, <3>1 DEF AnswersKnown, Outcomes, Finish, FinishWhere
        <4>2. status \in {"sent", "skipped", "outcome_unknown"}
          BY <4>1 DEF FinishStatus
        <4>3. row'[n].status = status
          BY <1>15, <3>1, <1>a, <1>b DEF Finish, FinishWhere, Rows
        <4> QED
          BY <4>2, <4>3, <1>b DEF RowRight
      <3>2. ASSUME ~(m = n /\ row[m].status = "sending")
            PROVE  RowRight(n)' <= RowRight(n)
        <4>1. row'[n].status = row[n].status
          BY <1>15, <3>2, <1>a, <1>b DEF Finish, FinishWhere, Locals
        <4> QED
          BY <4>1, <1>b DEF RowRight
      <3>3. RowRight(n)' <= RowRight(n)
        BY <3>1, <3>2
      <3> QED
        BY <2>1, <3>3, <1>d
    <2> QED
      BY <2>2, <2>3
  <1>16. ASSUME NEW w \in Workers, ClearSensitive(w) PROVE Conserved(n)'
    <2>1. Idles(w)
      BY <1>16, <1>a DEF ClearSensitive, Goto, HasRight, Locals
    <2>2. RowRight(n)' <= RowRight(n)
      BY <1>16, <1>a, <1>b DEF ClearSensitive, RowRight, Rows, Locals
    <2> QED
      BY <1>16, <2>1, <2>2, <1>d DEF ClearSensitive, history
  <1>17. ASSUME NEW w \in Workers, NotifyOutcome(w) PROVE Conserved(n)'
    <2>1. Idles(w)
      BY <1>17, <1>a DEF NotifyOutcome, HasRight, Idle, Locals
    <2> QED
      BY <1>17, <1>b, <2>1, <1>d DEF NotifyOutcome, history, RowRight
  <1>18. ASSUME NEW w \in Workers, Crash(w) PROVE Conserved(n)'
    <2>1. Idles(w)
      BY <1>18, <1>a DEF Crash, HasRight, Idle, Locals
    <2> QED
      BY <1>18, <1>b, <2>1, <1>d DEF Crash, history, RowRight
  <1>19. ASSUME NEW m \in Messages, NEW confirm \in BOOLEAN, Retry(m, confirm)
         PROVE  Conserved(n)'
    <2>1. CASE m = n /\ row[m].status # "failed"
      (* Staff grant a new right. *)
      <3>1. /\ Cardinality(Rights(n)') = Cardinality(Rights(n))
            /\ requeues'[n] = requeues[n] + 1 /\ accepted'[n] = accepted[n]
            /\ RowRight(n) = 0
        BY <1>19, <2>1, <1>b DEF Retry, Requeue, Rights, RowRight, RETRYABLE_FROM, TypeOK
      <3> QED
        BY <1>b, <1>c, <3>1 DEF Conserved
    <2>2. CASE ~(m = n /\ row[m].status # "failed")
      <3>1. Same
        BY <1>19, <2>2, <1>b DEF Retry, Requeue, TypeOK
      <3>2. RowRight(n)' <= RowRight(n)
        BY <1>19, <2>2, <1>a, <1>b DEF Retry, Requeue, RowRight, Rows
      <3> QED
        BY <1>19, <3>1, <3>2, <1>d DEF Retry, Requeue
    <2> QED
      BY <2>1, <2>2
  <1>20. ASSUME NEW w \in Requests, NEW m \in Messages, NEW from, CancelRow(w, m, from)
         PROVE  Conserved(n)'
    <2>1. w \in Workers /\ Idles(w)
      BY <1>20, <1>a DEF CancelRow, HasRight, Requests
    <2>2. RowRight(n)' <= RowRight(n)
      BY <1>20, <1>a, <1>b DEF CancelRow, RowRight, Rows
    <2> QED
      BY <1>20, <2>1, <2>2, <1>d DEF CancelRow, history
  <1>21. CASE ToggleOrganization
    BY <1>21, <1>b, <1>d DEF ToggleOrganization, history, RowRight
  <1>22. ASSUME NEW m \in Messages, TimePasses(m) PROVE Conserved(n)'
    <2>1. RowRight(n)' <= RowRight(n)
      BY <1>22, <1>a, <1>b DEF TimePasses, RowRight, Rows
    <2> QED
      BY <1>22, <2>1, <1>d DEF TimePasses, history
  <1>23. CASE UNCHANGED vars
    BY <1>23, <1>b, <1>d DEF vars, RowRight
  <1> QED
    BY <1>1, <1>2, <1>3, <1>4, <1>5, <1>6, <1>7, <1>8, <1>9, <1>10, <1>11, <1>12,
       <1>13, <1>14, <1>15, <1>16, <1>17, <1>18, <1>19, <1>20, <1>21, <1>22, <1>23
       DEF Next, SweepStep, RequestStep, StaffRetry, DeliverStep, Cancel,
           CancelQueuedBySource

(* At most once: for every number of messages, workers, crashes and        *)
(* stalls, the provider takes an SMS at most once plus once per staff      *)
(* retry of a cancelled or unknown row, and no stale claim, late answer or *)
(* second worker makes a call of its own (deliverRow, finish,              *)
(* recoverStale).                                                          *)
THEOREM SendRightTheorem == SafetySpec => []SendRightConserved
  <1>1. Init => TypeOK /\ AnswersKnown /\ SendRightConserved
    BY InitTypeOK, InitConserved DEF Init, Idle, AnswersKnown
  <1>2. TypeOK /\ AnswersKnown /\ SendRightConserved /\ [Next]_vars
        => (TypeOK /\ AnswersKnown /\ SendRightConserved)'
    BY StepTypeOK, StepAnswersKnown, StepConserved
  <1> QED
    BY <1>1, <1>2, PTL DEF SafetySpec

=============================================================================
