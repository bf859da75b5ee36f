------------------------ MODULE OutboxContractProofs ------------------------
(* What the outbox promises its producers, proved for any finite sets of   *)
(* messages and workers and any bounds: a row that says 'sent' was taken,  *)
(* bodies are there as long as they are needed and gone when they may not  *)
(* stay, final rows are staff's alone, and MessageOutbox implements        *)
(* DeliveryContract.                                                       *)
EXTENDS MessageOutboxProofs

----------------------------------------------------------------------------
(* How a row and a worker may move in one step.  Everything below follows  *)
(* from these two lemmas.                                                  *)

Stays(n) == row'[n].status = row[n].status /\ row'[n].body = row[n].body

(* The moves of a row that leave its body alone and are nobody's answer.   *)
Advances(n) ==
    /\ row'[n].body = row[n].body
    /\ \/ row[n].status = "queued" /\ row'[n].status = "claimed"
       \/ row[n].status = "claimed" /\ row'[n].status \in {"sending", "queued"}
       \/ /\ row[n].status = "sending" /\ row'[n].status = "outcome_unknown"
          /\ RecoverStale

Finishing(w, n) ==
    /\ Finish(w) /\ worker[w].msg = n
    /\ row[n].status = "sending"
    /\ row'[n].status = FinishStatus(worker[w].res, worker[w].attempts)
    /\ row'[n].body = row[n].body

Cancelling(n) ==
    /\ \E w \in Requests : CancelRow(w, n, CANCELLABLE_FROM)
    /\ row[n].status \in CANCELLABLE_FROM
    /\ row'[n].status = "cancelled" /\ row'[n].body = row[n].body

Retrying(n) ==
    /\ \E confirm \in BOOLEAN : Retry(n, confirm)
    /\ row'[n].status = "queued" /\ row'[n].body = row[n].body
    /\ row'[n].attempts = 0

RowMoves(n) ==
    \/ Stays(n)
    \/ \E w \in Workers : /\ ClearSensitive(w) /\ worker[w].msg = n
                          /\ row'[n].status = row[n].status /\ ~row'[n].body
    \/ Enqueue(n) /\ row'[n].status \in {"queued", "skipped"} /\ row'[n].body
    \/ Advances(n)
    \/ \E w \in Workers : Finishing(w, n)
    \/ Cancelling(n)
    \/ Retrying(n)

(* A cancelling request may be restricted to queued rows.                  *)
LEMMA CancelWider ==
  ASSUME NEW w \in Requests, NEW m \in Messages,
         Cancel(w, m) \/ CancelQueuedBySource(w, m)
  PROVE  CancelRow(w, m, CANCELLABLE_FROM)
  BY DEF Cancel, CancelQueuedBySource, CancelRow, CANCELLABLE_FROM

LEMMA RowStep ==
  ASSUME TypeOK, [Next]_vars, NEW n \in Messages
  PROVE  RowMoves(n)
  <1>a. row \in [Messages -> Rows] /\ worker \in [Workers -> Locals]
    BY DEF TypeOK
  <1>0. UNCHANGED row => RowMoves(n)
    BY DEF RowMoves, Stays
  <1>1. ASSUME NEW m \in Messages, Enqueue(m) PROVE RowMoves(n)
    <2>1. CASE m = n
      <3>1. row'[n].status \in {"queued", "skipped"} /\ row'[n].body
        BY <1>1, <1>a, <2>1 DEF Enqueue, Rows
      <3> QED
        BY <1>1, <2>1, <3>1 DEF RowMoves
    <2>2. CASE m # n
      BY <1>1, <1>a, <2>2 DEF Enqueue, RowMoves, Stays
    <2> QED
      BY <2>1, <2>2
  <1>2. CASE RecoverStale
    <2>1. row'[n] = RecoveredRow(n)
      BY <1>2 DEF RecoverStale
    <2>2. CASE row[n].status = "sending" /\ row[n].age >= SendingStale
      <3>1. row'[n] = [row[n] EXCEPT !.status = "outcome_unknown"]
        BY <2>1, <2>2 DEF RecoveredRow
      <3> QED
        BY <1>a, <1>2, <2>2, <3>1 DEF RowMoves, Advances, Rows
    <2>3. CASE row[n].status = "claimed" /\ row[n].age >= ClaimStale
      <3>1. row'[n] = [row[n] EXCEPT !.status = "queued", !.age = 0]
        BY <2>1, <2>3 DEF RecoveredRow, RequeuedClaim
      <3> QED
        BY <1>a, <2>3, <3>1 DEF RowMoves, Advances, Rows
    <2>4. CASE row'[n] = row[n]
      BY <2>4 DEF RowMoves, Stays
    <2> QED
      BY <2>1, <2>2, <2>3, <2>4 DEF RecoveredRow, RequeuedClaim
  <1>3. ASSUME NEW m \in Messages, Defer(m) \/ TimePasses(m) PROVE RowMoves(n)
    BY <1>3, <1>a DEF Defer, TimePasses, RowMoves, Stays, Rows
  <1>4. ASSUME NEW w \in Workers, Claim(w) \/ MarkBlocked(w) \/ MarkSending(w)
        PROVE  RowMoves(n)
    <2>1. worker[w].msg \in Messages
      BY <1>a DEF Locals
    <2> QED
      BY <1>4, <1>a, <2>1
         DEF Claim, MarkBlocked, MarkSending, RowMoves, Stays, Advances, Rows
  <1>5. ASSUME NEW w \in Workers, Finish(w) PROVE RowMoves(n)
    <2>1. worker[w].msg \in Messages
      BY <1>a DEF Locals
    <2>2. CASE worker[w].msg = n /\ row[n].status = "sending"
      <3>1. row'[n].status = FinishStatus(worker[w].res, worker[w].attempts)
            /\ row'[n].body = row[n].body
        BY <1>5, <1>a, <2>2 DEF Finish, FinishWhere, Rows
      <3> QED
        BY <1>5, <2>2, <3>1 DEF RowMoves, Finishing
    <2>3. CASE ~(worker[w].msg = n /\ row[n].status = "sending")
      <3>1. row'[n] = row[n]
        BY <1>5, <1>a, <2>1, <2>3 DEF Finish, FinishWhere
      <3> QED
        BY <3>1 DEF RowMoves, Stays
    <2> QED
      BY <2>2, <2>3
  <1>6. ASSUME NEW w \in Workers, ClearSensitive(w) PROVE RowMoves(n)
    <2>1. worker[w].msg \in Messages
      BY <1>a DEF Locals
    <2> QED
      BY <1>6, <1>a, <2>1 DEF ClearSensitive, RowMoves, Stays, Rows
  <1>7. ASSUME NEW m \in Messages, NEW confirm \in BOOLEAN, Retry(m, confirm)
        PROVE  RowMoves(n)
    <2>1. CASE m = n
      <3>1. row'[n].status = "queued" /\ row'[n].body = row[n].body
            /\ row'[n].attempts = 0
        BY <1>7, <1>a, <2>1 DEF Retry, Requeue, Rows
      <3>2. Retrying(n)
        BY <1>7, <2>1, <3>1 DEF Retrying
      <3> QED
        BY <3>2 DEF RowMoves
    <2>2. CASE m # n
      BY <1>7, <1>a, <2>2 DEF Retry, Requeue, RowMoves, Stays
    <2> QED
      BY <2>1, <2>2
  <1>8. ASSUME NEW w \in Requests, NEW m \in Messages,
               CancelRow(w, m, CANCELLABLE_FROM)
        PROVE  RowMoves(n)
    <2>1. CASE m = n
      <3>1. row[n].status \in CANCELLABLE_FROM /\ row'[n].status = "cancelled"
            /\ row'[n].body = row[n].body
        BY <1>8, <1>a, <2>1 DEF CancelRow, Rows
      <3>2. CancelRow(w, n, CANCELLABLE_FROM)
        BY <1>8, <2>1
      <3>3. Cancelling(n)
        BY <3>1, <3>2 DEF Cancelling
      <3> QED
        BY <3>3 DEF RowMoves
    <2>2. CASE m # n
      BY <1>8, <1>a, <2>2 DEF CancelRow, RowMoves, Stays
    <2> QED
      BY <2>1, <2>2
  <1>9. ASSUME NEW w \in Requests, NEW m \in Messages,
               DeliverNow(w, m) \/ SendNow(w, m)
        PROVE  UNCHANGED row
    BY <1>9 DEF DeliverNow, SendNow
  <1>10. ASSUME NEW w \in Workers,
                ReadOwner(w) \/ ProviderAccepts(w) \/ Answer(w)
                \/ NotifyOutcome(w) \/ Crash(w)
         PROVE  UNCHANGED row
    BY <1>10 DEF ReadOwner, ProviderAccepts, Answer, NotifyOutcome, Crash
  <1>11. ASSUME NEW m \in Messages, PickDue(m) PROVE UNCHANGED row
    BY <1>11 DEF PickDue
  <1>12. SelectDue \/ EndPass \/ ToggleOrganization \/ UNCHANGED vars => UNCHANGED row
    BY DEF SelectDue, EndPass, ToggleOrganization, vars
  <1> QED
    BY <1>0, <1>1, <1>2, <1>3, <1>4, <1>5, <1>6, <1>7, <1>8, <1>9, <1>10, <1>11,
       <1>12, CancelWider
       DEF Next, SweepStep, RequestStep, StaffRetry, DeliverStep

(* A row once enqueued exists ever after, and the provider's word for a    *)
(* message is never taken back.                                            *)
LEMMA RowsRemain ==
  ASSUME TypeOK, [Next]_vars, NEW n \in Messages, row[n].status # "none"
  PROVE  row'[n].status # "none"
  BY RowStep DEF RowMoves, Stays, Advances, Finishing, Cancelling, Retrying,
                 FinishStatus

LEMMA AcceptedGrows ==
  ASSUME TypeOK, [Next]_vars, NEW n \in Messages
  PROVE  accepted'[n] >= accepted[n]
  <1>a. accepted \in [Messages -> Nat] /\ worker \in [Workers -> Locals]
    BY DEF TypeOK
  <1>1. ASSUME NEW w \in Workers, ProviderAccepts(w)
        PROVE  accepted'[n] >= accepted[n]
    BY <1>1, <1>a DEF ProviderAccepts, Locals
  <1>2. UNCHANGED accepted => accepted'[n] >= accepted[n]
    BY <1>a
  <1> QED
    BY <1>1, <1>2
       DEF Next, SweepStep, RequestStep, StaffRetry, DeliverStep, Enqueue,
           RecoverStale, SelectDue, EndPass, Defer, PickDue, DeliverNow, SendNow,
           Cancel, CancelQueuedBySource, CancelRow, Retry, Requeue, Claim,
           ReadOwner, MarkBlocked, MarkSending, Answer, Finish, FinishWhere,
           ClearSensitive, NotifyOutcome, Crash, ToggleOrganization, TimePasses,
           history, vars

----------------------------------------------------------------------------
(* How a worker may move: it starts on a row that exists, goes on with the *)
(* row it has, or is done with it.                                         *)

Starting(v) ==
    /\ worker'[v].pc = "read" /\ worker'[v].msg \in Messages
    /\ row[worker'[v].msg].status = "queued" \/ worker'[v].msg \in sweep.batch

GoesOn(v) ==
    /\ worker[v].pc # "idle" /\ worker'[v].msg = worker[v].msg
    /\ \/ worker'[v].pc \in {"claimed", "allowed", "blocked", "calling"}
       \/ worker'[v].pc = "accepted" /\ accepted'[worker[v].msg] >= 1
       \/ /\ worker'[v].pc = "answered"
          /\ worker'[v].res = "sent" => worker[v].pc = "accepted"
       \/ /\ worker'[v].pc = "clearing" /\ Sensitive[worker[v].msg]
          /\ row'[worker[v].msg].status \in Final
       \/ worker'[v].pc = "notifying"

Cancels(v) ==
    /\ worker'[v].msg \in Messages
    /\ row'[worker'[v].msg].status = "cancelled"
    /\ \/ worker'[v].pc = "clearing" /\ Sensitive[worker'[v].msg]
       \/ worker'[v].pc = "notifying"

WorkerMoves(v) ==
    \/ worker'[v] = worker[v] \/ worker'[v].pc = "idle"
    \/ Starting(v) \/ GoesOn(v) \/ Cancels(v)

LEMMA FinishGoesOn ==
  ASSUME TypeOK, AnswersKnown, NEW w \in Workers, Finish(w)
  PROVE  WorkerMoves(w)
  <1>a. /\ row \in [Messages -> Rows] /\ worker \in [Workers -> Locals]
        /\ worker[w].msg \in Messages
    BY DEF TypeOK, Locals
  <1> DEFINE m == worker[w].msg
             status == FinishStatus(worker[w].res, worker[w].attempts)
  <1>1. CASE worker' = [worker EXCEPT ![w] = Idle]
    BY <1>1, <1>a DEF Idle, WorkerMoves
  <1>2. CASE worker' # [worker EXCEPT ![w] = Idle]
    <2>1. /\ row[m].status = "sending" /\ status # "queued"
          /\ row' = [row EXCEPT ![m].status = status, ![m].age = 0,
                       ![m].due = IF status = "queued" THEN FALSE ELSE @]
          /\ worker' = [worker EXCEPT ![w] =
                          [worker[w] EXCEPT !.pc = IF Sensitive[m] THEN "clearing"
                                                               ELSE "notifying",
                                            !.res = status]]
      BY <1>2 DEF Finish, FinishWhere
    <2>2. status \in Final
      BY <2>1 DEF FinishStatus, Final
    <2>3. row'[m].status \in Final
      BY <1>a, <2>1, <2>2 DEF Rows
    <2>4. /\ worker'[w].msg = m
          /\ worker'[w].pc = IF Sensitive[m] THEN "clearing" ELSE "notifying"
      BY <1>a, <2>1 DEF Locals
    <2>5. worker[w].pc = "answered"
      BY DEF Finish, FinishWhere
    <2> QED
      BY <2>3, <2>4, <2>5 DEF WorkerMoves, GoesOn
  <1> QED
    BY <1>1, <1>2

LEMMA WorkerStep ==
  ASSUME TypeOK, AnswersKnown, [Next]_vars, NEW v \in Workers
  PROVE  WorkerMoves(v)
  <1>a. /\ row \in [Messages -> Rows] /\ worker \in [Workers -> Locals]
        /\ accepted \in [Messages -> Nat]
        /\ \A w \in Workers : worker[w].msg \in Messages
    BY DEF TypeOK, Locals
  <1>0. worker'[v] = worker[v] => WorkerMoves(v)
    BY DEF WorkerMoves
  <1>1. ASSUME NEW w \in Workers, NEW m \in Messages,
               DeliverNow(w, m) \/ SendNow(w, m)
        PROVE  WorkerMoves(v)
    BY <1>1, <1>a DEF DeliverNow, SendNow, Holding, WorkerMoves, Starting
  <1>2. ASSUME NEW m \in Messages, PickDue(m) PROVE WorkerMoves(v)
    BY <1>2, <1>a DEF PickDue, Holding, WorkerMoves, Starting
  <1>3. ASSUME NEW w \in Workers, Claim(w) \/ ReadOwner(w) \/ MarkSending(w)
        PROVE  WorkerMoves(v)
    BY <1>3, <1>a DEF Claim, ReadOwner, MarkSending, Goto, Idle, Locals,
                      WorkerMoves, GoesOn
  <1>4. ASSUME NEW w \in Workers, MarkBlocked(w) \/ Answer(w)
        PROVE  WorkerMoves(v)
    BY <1>4, <1>a DEF MarkBlocked, Answer, UnsentAnswers, Locals,
                      WorkerMoves, GoesOn
  <1>5. ASSUME NEW w \in Workers, ProviderAccepts(w) PROVE WorkerMoves(v)
    BY <1>5, <1>a DEF ProviderAccepts, Goto, Locals, WorkerMoves, GoesOn
  <1>6. ASSUME NEW w \in Workers, Finish(w) PROVE WorkerMoves(v)
    BY <1>6, <1>0, FinishGoesOn, FinishMoves
  <1>7. ASSUME NEW w \in Workers, ClearSensitive(w) PROVE WorkerMoves(v)
    BY <1>7, <1>a DEF ClearSensitive, Goto, Locals, WorkerMoves, GoesOn
  <1>8. ASSUME NEW w \in Workers, NotifyOutcome(w) \/ Crash(w)
        PROVE  WorkerMoves(v)
    BY <1>8, <1>a DEF NotifyOutcome, Crash, Idle, WorkerMoves
  <1>9. ASSUME NEW w \in Requests, NEW m \in Messages,
               CancelRow(w, m, CANCELLABLE_FROM)
        PROVE  WorkerMoves(v)
    <2>1. row'[m].status = "cancelled"
      BY <1>9, <1>a DEF CancelRow, Rows
    <2>2. \A u \in Workers \ {w} : worker'[u] = worker[u]
      BY <1>9, <1>a DEF CancelRow, Requests
    <2>3. /\ worker'[w].msg = m
          /\ worker'[w].pc = IF Sensitive[m] THEN "clearing" ELSE "notifying"
      BY <1>9, <1>a DEF CancelRow, Requests
    <2> QED
      BY <2>1, <2>2, <2>3 DEF WorkerMoves, Cancels
  <1>10. UNCHANGED worker => WorkerMoves(v)
    BY <1>0
  <1> QED
    BY <1>1, <1>2, <1>3, <1>4, <1>5, <1>6, <1>7, <1>8, <1>9, <1>10, CancelWider
       DEF Next, SweepStep, RequestStep, StaffRetry, DeliverStep, Requests,
           Enqueue, RecoverStale, SelectDue, EndPass, Defer, Retry, Requeue,
           ToggleOrganization, TimePasses, vars

----------------------------------------------------------------------------
(* Whatever is being delivered exists: workers and the sweep hold rows     *)
(* that were enqueued.                                                     *)
RowsExist ==
    /\ \A w \in Workers : worker[w].pc # "idle" => row[worker[w].msg].status # "none"
    /\ \A m \in sweep.batch : row[m].status # "none"

LEMMA RowsExistStep ==
  TypeOK /\ AnswersKnown /\ RowsExist /\ [Next]_vars => RowsExist'
  <1> SUFFICES ASSUME TypeOK, AnswersKnown, RowsExist, [Next]_vars
               PROVE  RowsExist'
    OBVIOUS
  <1>a. /\ worker \in [Workers -> Locals] /\ sweep \in Sweeps
        /\ \A w \in Workers : worker[w].msg \in Messages
    BY DEF TypeOK, Locals, Sweeps
  <1>1. ASSUME NEW w \in Workers, worker'[w].pc # "idle"
        PROVE  row'[worker'[w].msg].status # "none"
    <2>1. CASE worker'[w] = worker[w] \/ GoesOn(w)
      <3>1. worker[w].pc # "idle" /\ worker'[w].msg = worker[w].msg
        BY <1>1, <2>1 DEF GoesOn
      <3> QED
        BY <1>a, <3>1, RowsRemain DEF RowsExist
    <2>2. CASE Starting(w)
      BY <2>2, RowsRemain DEF Starting, RowsExist
    <2>3. CASE Cancels(w)
      BY <2>3 DEF Cancels
    <2> QED
      BY <1>1, <2>1, <2>2, <2>3, WorkerStep DEF WorkerMoves
  <1>2. ASSUME NEW m \in sweep'.batch PROVE row'[m].status # "none"
    <2>1. m \in sweep.batch \/ m \in DueRows
      <3>1. \/ UNCHANGED sweep \/ sweep' = EmptySweep \/ SelectDue
            \/ \E n \in Messages : sweep' = Without(n)
            \/ \E w \in Workers : Finish(w)
            \/ RecoverStale
        BY DEF Next, SweepStep, RequestStep, StaffRetry, DeliverStep, Enqueue,
               EndPass, Defer, PickDue, DeliverNow, SendNow, Cancel,
               CancelQueuedBySource, CancelRow, Retry, Requeue, Claim, ReadOwner,
               MarkBlocked, MarkSending, ProviderAccepts, Answer, ClearSensitive,
               NotifyOutcome, Crash, ToggleOrganization, TimePasses, vars
      <3>2. ASSUME NEW w \in Workers, Finish(w) PROVE sweep'.batch = sweep.batch
        BY <1>a, <3>2 DEF Finish, FinishWhere, Sweeps
      <3>3. RecoverStale => sweep'.batch = sweep.batch
        BY <1>a DEF RecoverStale, Sweeps
      <3>4. \A n \in Messages : sweep' = Without(n) => sweep'.batch \subseteq sweep.batch
        BY <1>a DEF Without, Sweeps
      <3>5. SelectDue => sweep'.batch \subseteq DueRows
        BY DEF SelectDue, EmptySweep
      <3> QED
        BY <3>1, <3>2, <3>3, <3>4, <3>5 DEF EmptySweep
    <2>2. m \in Messages /\ row[m].status # "none"
      BY <1>a, <2>1 DEF RowsExist, DueRows, Sweeps
    <2> QED
      BY <2>2, RowsRemain
  <1> QED
    BY <1>1, <1>2 DEF RowsExist

----------------------------------------------------------------------------
(* 'sent' is only said of a message the provider took *)

SentInv ==
    /\ SentWasAccepted
    /\ \A w \in Workers :
          \/ worker[w].pc = "accepted"
          \/ worker[w].pc = "answered" /\ worker[w].res = "sent"
          => accepted[worker[w].msg] >= 1

LEMMA SentInvStep ==
  TypeOK /\ AnswersKnown /\ SentInv /\ [Next]_vars => SentInv'
  <1> SUFFICES ASSUME TypeOK, AnswersKnown, SentInv, [Next]_vars
               PROVE  SentInv'
    OBVIOUS
  <1>a. /\ accepted \in [Messages -> Nat]
        /\ \A w \in Workers : worker[w].msg \in Messages
    BY DEF TypeOK, Locals
  <1>b. accepted' \in [Messages -> Nat]
    BY StepTypeOK DEF TypeOK
  <1>1. ASSUME NEW m \in Messages, row'[m].status = "sent" PROVE accepted'[m] >= 1
    <2>1. CASE row[m].status = "sent"
      <3>1. accepted[m] >= 1
        BY <2>1 DEF SentInv, SentWasAccepted
      <3> QED
        BY <1>a, <1>b, <3>1, AcceptedGrows
    <2>2. CASE row[m].status # "sent"
      <3>1. PICK w \in Workers : Finishing(w, m)
        BY <1>1, <2>2, RowStep
           DEF RowMoves, Stays, Advances, Cancelling, Retrying
      <3>2. worker[w].pc = "answered" /\ worker[w].res = "sent" /\ worker[w].msg = m
        BY <1>1, <3>1 DEF Finishing, Finish, FinishWhere, FinishStatus
      <3>3. accepted[m] >= 1
        BY <3>2 DEF SentInv
      <3> QED
        BY <1>a, <1>b, <3>3, AcceptedGrows
    <2> QED
      BY <2>1, <2>2
  <1>2. ASSUME NEW w \in Workers,
               \/ worker'[w].pc = "accepted"
               \/ worker'[w].pc = "answered" /\ worker'[w].res = "sent"
        PROVE  accepted'[worker'[w].msg] >= 1
    <2>1. CASE worker'[w].msg = worker[w].msg /\ accepted[worker[w].msg] >= 1
      BY <1>a, <1>b, <2>1, AcceptedGrows
    <2>2. CASE worker'[w] = worker[w]
      BY <1>2, <2>1, <2>2 DEF SentInv
    <2>3. CASE GoesOn(w)
      BY <1>2, <2>1, <2>3 DEF GoesOn, SentInv
    <2> QED
      BY <1>2, <2>2, <2>3, WorkerStep DEF WorkerMoves, Starting, Cancels
  <1> QED
    BY <1>1, <1>2 DEF SentInv, SentWasAccepted

LEMMA Knowledge == SafetySpec => [](TypeOK /\ AnswersKnown /\ SendRightConserved)
  <1>1. Init => AnswersKnown
    BY DEF Init, Idle, AnswersKnown
  <1> QED
    BY <1>1, StepAnswersKnown, TypeCorrect, SendRightTheorem, PTL DEF SafetySpec

(* A row says 'sent' only when the provider has taken the message, for any *)
(* number of workers that stall, stop or answer late (finish).             *)
THEOREM SentTheorem == SafetySpec => []SentWasAccepted
  <1>1. Init => SentInv
    BY DEF Init, Idle, SentInv, SentWasAccepted
  <1>2. SentInv => SentWasAccepted
    BY DEF SentInv
  <1> QED
    BY <1>1, <1>2, SentInvStep, Knowledge, PTL DEF SafetySpec

----------------------------------------------------------------------------
(* The body of a message *)

(* Only a secret final row is ever emptied, and such a row is never        *)
(* delivered again (retry refuses it), so whoever is about to clear a body *)
(* finds a final row however late it is.                                   *)
BodyInv ==
    /\ \A m \in Messages :
          /\ row[m].status \in {"queued", "claimed", "sending"} => row[m].body
          /\ row[m].status # "none" /\ ~Sensitive[m] => row[m].body
    /\ \A w \in Workers :
          worker[w].pc = "clearing" =>
             /\ Sensitive[worker[w].msg]
             /\ row[worker[w].msg].status \in Final

(* A final row of a secret message stays final.                            *)
LEMMA SecretStaysFinal ==
  ASSUME TypeOK, [Next]_vars, NEW n \in Messages, Sensitive[n],
         row[n].status \in Final
  PROVE  row'[n].status \in Final
  <1>1. ~Retrying(n)
    BY DEF Retrying, Retry
  <1> QED
    BY <1>1, RowStep
       DEF RowMoves, Stays, Enqueue, Advances, Finishing, Cancelling, Final

LEMMA BodyInvStep ==
  TypeOK /\ AnswersKnown /\ BodyInv /\ [Next]_vars => BodyInv'
  <1> SUFFICES ASSUME TypeOK, AnswersKnown, BodyInv, [Next]_vars
               PROVE  BodyInv'
    OBVIOUS
  <1>a. \A w \in Workers : worker[w].msg \in Messages
    BY DEF TypeOK, Locals
  <1>1. ASSUME NEW n \in Messages
        PROVE  /\ row'[n].status \in {"queued", "claimed", "sending"} => row'[n].body
               /\ row'[n].status # "none" /\ ~Sensitive[n] => row'[n].body
    <2>1. CASE \E w \in Workers : ClearSensitive(w) /\ worker[w].msg = n
                                   /\ row'[n].status = row[n].status
      <3>1. Sensitive[n] /\ row'[n].status \in Final
        BY <2>1 DEF BodyInv, ClearSensitive
      <3> QED
        BY <3>1 DEF Final
    <2>2. CASE Retrying(n)
      <3>1. ~Sensitive[n] /\ row[n].status # "none" /\ row'[n].body = row[n].body
        BY <2>2 DEF Retrying, Retry, Requeue, RETRYABLE_FROM
      <3> QED
        BY <3>1 DEF BodyInv
    <2>3. CASE \E w \in Workers : Finishing(w, n)
      BY <2>3 DEF Finishing, BodyInv
    <2>4. CASE Cancelling(n)
      BY <2>4 DEF Cancelling, CANCELLABLE_FROM, BodyInv
    <2> QED
      BY <2>1, <2>2, <2>3, <2>4, RowStep DEF RowMoves, Stays, Advances, BodyInv
  <1>2. ASSUME NEW w \in Workers, worker'[w].pc = "clearing"
        PROVE  /\ Sensitive[worker'[w].msg]
               /\ row'[worker'[w].msg].status \in Final
    <2>1. CASE worker'[w] = worker[w]
      BY <1>a, <1>2, <2>1, SecretStaysFinal DEF BodyInv
    <2>2. CASE GoesOn(w)
      BY <1>2, <2>2 DEF GoesOn
    <2>3. CASE Cancels(w)
      BY <1>2, <2>3 DEF Cancels, Final
    <2> QED
      BY <1>2, <2>1, <2>2, <2>3, WorkerStep DEF WorkerMoves, Starting
  <1> QED
    BY <1>1, <1>2 DEF BodyInv

(* A message that can still be delivered has its body: no clearSensitive,  *)
(* however late, empties a row that is queued, claimed or sent again.      *)
THEOREM BodyTheorem == SafetySpec => []BodyWhileDeliverable
  <1>1. Init => BodyInv
    BY DEF Init, Idle, BodyInv
  <1>2. BodyInv => BodyWhileDeliverable
    BY DEF BodyInv, BodyWhileDeliverable
  <1> QED
    BY <1>1, <1>2, BodyInvStep, Knowledge, PTL DEF SafetySpec

----------------------------------------------------------------------------
(* The secret of a final message is cleared, or somebody is about to *)

LEMMA ClearingStays ==
  ASSUME TypeOK, [Next]_vars, NEW v \in Workers, worker[v].pc = "clearing"
  PROVE  worker'[v] = worker[v] \/ ClearSensitive(v) \/ Crash(v)
  <1>a. worker \in [Workers -> Locals]
    BY DEF TypeOK
  <1>1. ASSUME NEW w \in Workers,
               \/ Claim(w) \/ ReadOwner(w) \/ MarkBlocked(w) \/ MarkSending(w)
               \/ ProviderAccepts(w) \/ Answer(w) \/ NotifyOutcome(w)
        PROVE  worker'[v] = worker[v]
    BY <1>1, <1>a DEF Claim, ReadOwner, MarkBlocked, MarkSending, ProviderAccepts,
                      Answer, NotifyOutcome, Goto
  <1>2. ASSUME NEW w \in Workers, Finish(w) PROVE worker'[v] = worker[v]
    BY <1>2, <1>a, FinishMoves DEF Finish, FinishWhere
  <1>3. ASSUME NEW w \in Workers, w # v, ClearSensitive(w) \/ Crash(w)
        PROVE  worker'[v] = worker[v]
    BY <1>3, <1>a DEF ClearSensitive, Crash, Goto
  <1>4. ASSUME NEW w \in Requests, NEW m \in Messages,
               \/ DeliverNow(w, m) \/ SendNow(w, m)
               \/ CancelRow(w, m, CANCELLABLE_FROM)
        PROVE  worker'[v] = worker[v]
    BY <1>4, <1>a DEF DeliverNow, SendNow, CancelRow, Holding, Requests
  <1>5. ASSUME NEW m \in Messages, PickDue(m) PROVE worker'[v] = worker[v]
    BY <1>5, <1>a DEF PickDue, Holding
  <1> QED
    BY <1>1, <1>2, <1>3, <1>4, <1>5, CancelWider
       DEF Next, SweepStep, RequestStep, StaffRetry, DeliverStep, Enqueue,
           RecoverStale, SelectDue, EndPass, Defer, Retry, Requeue,
           ToggleOrganization, TimePasses, vars

LEMMA FaultsGrow ==
  ASSUME TypeOK, [Next]_vars
  PROVE  faults' >= faults
  <1>a. faults \in Nat
    BY DEF TypeOK
  <1>1. \/ UNCHANGED faults \/ \E w \in Workers : Crash(w)
        \/ \E m \in Messages : TimePasses(m)
    BY DEF Next, SweepStep, RequestStep, StaffRetry, DeliverStep, Enqueue,
           RecoverStale, SelectDue, EndPass, Defer, PickDue, DeliverNow, SendNow,
           Cancel, CancelQueuedBySource, CancelRow, Retry, Requeue, Claim,
           ReadOwner, MarkBlocked, MarkSending, ProviderAccepts, Answer, Finish,
           FinishWhere, ClearSensitive, NotifyOutcome, ToggleOrganization, vars
  <1> QED
    BY <1>a, <1>1 DEF Crash, TimePasses

(* Whoever makes a secret message final goes on to clear it.               *)
LEMMA FinalIsCleared ==
  ASSUME TypeOK, [Next]_vars, NEW n \in Messages, Sensitive[n],
         row'[n].status \in Final \ {"skipped", "outcome_unknown"},
         ~Stays(n), row'[n].body
  PROVE  \E w \in Workers : worker'[w].pc = "clearing" /\ worker'[w].msg = n
  <1>a. worker \in [Workers -> Locals]
    BY DEF TypeOK
  <1>1. ASSUME NEW w \in Workers, Finishing(w, n)
        PROVE  worker'[w].pc = "clearing" /\ worker'[w].msg = n
    <2>1. /\ worker[w].msg = n
          /\ FinishStatus(worker[w].res, worker[w].attempts) # "queued"
      BY <1>1 DEF Finishing, Final
    <2>2. worker' = [worker EXCEPT ![w] =
                       [worker[w] EXCEPT !.pc = "clearing",
                          !.res = FinishStatus(worker[w].res, worker[w].attempts)]]
      BY <1>1, <2>1 DEF Finishing, Finish, FinishWhere
    <2> QED
      BY <1>a, <2>1, <2>2 DEF Locals
  <1>2. ASSUME NEW w \in Requests, CancelRow(w, n, CANCELLABLE_FROM)
        PROVE  worker'[w].pc = "clearing" /\ worker'[w].msg = n
    BY <1>2, <1>a DEF CancelRow, Requests
  <1> QED
    BY <1>1, <1>2, RowStep
       DEF RowMoves, Advances, Cancelling, Retrying, Requests, Final

LEMMA SecretStep ==
  TypeOK /\ SensitiveBodyCleared /\ [Next]_vars => SensitiveBodyCleared'
  <1> SUFFICES ASSUME TypeOK, SensitiveBodyCleared, [Next]_vars, faults' = 0,
                      NEW n \in Messages, Sensitive[n], row'[n].body,
                      row'[n].status \in Final \ {"skipped", "outcome_unknown"}
               PROVE  \E w \in Workers : worker'[w].pc = "clearing"
                                         /\ worker'[w].msg = n
    BY DEF SensitiveBodyCleared
  <1>1. CASE ~Stays(n)
    BY <1>1, FinalIsCleared
  <1>2. CASE Stays(n)
    <2>1. faults = 0
      BY FaultsGrow DEF TypeOK
    <2>2. PICK w \in Workers : worker[w].pc = "clearing" /\ worker[w].msg = n
      BY <1>2, <2>1 DEF Stays, SensitiveBodyCleared
    <2>3. ~Crash(w)
      BY <2>1 DEF Crash
    <2>4. ~ClearSensitive(w)
      BY <2>2 DEF ClearSensitive, TypeOK, Rows
    <2> QED
      BY <2>2, <2>3, <2>4, ClearingStays
  <1> QED
    BY <1>1, <1>2

(* While nothing stops or stalls, a secret message that was sent, failed   *)
(* or cancelled has no body, or a worker is about to empty it              *)
(* (clearSensitive after finish and after cancel).                         *)
THEOREM SecretTheorem == SafetySpec => []SensitiveBodyCleared
  <1>1. Init => SensitiveBodyCleared
    BY DEF Init, SensitiveBodyCleared, Final
  <1> QED
    BY <1>1, SecretStep, TypeCorrect, PTL DEF SafetySpec

----------------------------------------------------------------------------
(* Final rows *)

LEMMA FinalStep ==
  ASSUME TypeOK, [Next]_vars, NEW m \in Messages, row[m].status \in Final
  PROVE  \/ row'[m].status = row[m].status
         \/ row'[m].status = "cancelled"
         \/ row'[m].status = "queued" /\ ~Sensitive[m] /\ row'[m].attempts = 0
  <1>1. Retrying(m) => /\ row'[m].status = "queued" /\ row'[m].attempts = 0
                       /\ ~Sensitive[m]
    BY DEF Retrying, Retry
  <1> QED
    BY <1>1, RowStep
       DEF RowMoves, Stays, Enqueue, Advances, Finishing, Cancelling, Final

(* A final row is changed by staff alone: a late answer (finish's WHERE    *)
(* status = 'sending') and the sweep (recoverStale) leave it as it is, so  *)
(* an outcome_unknown message is resent by staff only.                     *)
THEOREM FinalTheorem == SafetySpec => FinalByStaffOnly
  <1>1. TypeOK /\ [Next]_vars =>
          [\A m \in Messages :
              row[m].status \in Final =>
                  \/ row'[m].status = row[m].status
                  \/ row'[m].status = "cancelled"
                  \/ row'[m].status = "queued" /\ ~Sensitive[m]
                     /\ row'[m].attempts = 0]_vars
    BY FinalStep
  <1> QED
    BY <1>1, TypeCorrect, PTL DEF SafetySpec, FinalByStaffOnly

----------------------------------------------------------------------------
(* MessageOutbox implements DeliveryContract *)

PhaseNow == [m \in Messages |-> PhaseOf(row[m].status)]

RightsNow == [m \in Messages |->
                IF m \in AtMostOnce THEN 1 + requeues[m] - accepted[m]
                                    ELSE 1 + requeues[m]]

LEMMA PhaseStutters ==
  ASSUME UNCHANGED <<accepted, requeues>>,
         \A n \in Messages :
            PhaseOf(row'[n].status) = PhaseOf(row[n].status)
  PROVE  UNCHANGED Contract!vars
  BY DEF Contract!vars

(* One row's status changes.                                               *)
LEMMA PhaseMoves ==
  ASSUME NEW m \in Messages,
         \A n \in Messages \ {m} : row'[n].status = row[n].status
  PROVE  PhaseNow' = [PhaseNow EXCEPT ![m] = PhaseOf(row'[m].status)]
  BY DEF PhaseNow

LEMMA RightsStay ==
  ASSUME UNCHANGED <<accepted, requeues>>
  PROVE  RightsNow' = RightsNow
  BY DEF RightsNow

(* A worker that may still call the provider of a message, or say that it  *)
(* was not called, leaves a right over.                                    *)
LEMMA RightLeft ==
  ASSUME TypeOK, SendRightConserved, NEW w \in Workers, NEW m \in Messages,
         w \in Rights(m)
  PROVE  RightsNow[m] > 0
  <1>a. /\ accepted \in [Messages -> Nat] /\ requeues \in [Messages -> Nat]
    BY DEF TypeOK
  <1>1. CASE m \in AtMostOnce
    <2>1. accepted[m] + Cardinality(Rights(m)) + RowRight(m) <= 1 + requeues[m]
      BY <1>1 DEF SendRightConserved
    <2>2. IsFiniteSet(Rights(m)) /\ Cardinality(Rights(m)) \in Nat
      BY RightsFinite
    <2>3. Cardinality(Rights(m)) # 0
      BY <2>2, FS_EmptySet
    <2>4. RowRight(m) \in {0, 1}
      BY DEF RowRight
    <2> QED
      BY <1>a, <1>1, <2>1, <2>2, <2>3, <2>4 DEF RightsNow
  <1>2. CASE m \notin AtMostOnce
    BY <1>a, <1>2 DEF RightsNow
  <1> QED
    BY <1>1, <1>2

LEMMA EnqueueSubmits ==
  ASSUME TypeOK, NEW m \in Messages, Enqueue(m)
  PROVE  Contract!Submit(m)
  <1>1. row \in [Messages -> Rows]
    BY DEF TypeOK
  <1>2. /\ row[m].status = "none" /\ row'[m].status \in {"queued", "skipped"}
        /\ \A n \in Messages \ {m} : row'[n].status = row[n].status
        /\ UNCHANGED <<accepted, requeues>>
    BY <1>1 DEF Enqueue, Rows, history
  <1>3. /\ PhaseNow[m] = "absent"
        /\ PhaseOf(row'[m].status) \in {"pending", "closed"}
        /\ PhaseNow' = [PhaseNow EXCEPT ![m] = PhaseOf(row'[m].status)]
        /\ RightsNow' = RightsNow
    BY <1>2, PhaseMoves, RightsStay DEF PhaseNow, PhaseOf
  <1> QED
    BY <1>2, <1>3 DEF Contract!Submit, Contract!Move, PhaseNow, RightsNow

LEMMA AcceptHandsOver ==
  ASSUME TypeOK, SendRightConserved, RowsExist, NEW w \in Workers,
         NEW m \in Messages, worker[w].msg = m, ProviderAccepts(w)
  PROVE  Contract!HandOver(m)
  <1>1. /\ accepted \in [Messages -> Nat]
        /\ requeues \in [Messages -> Nat]
    BY DEF TypeOK, Locals
  <1>2. w \in Rights(m) /\ row[m].status # "none"
    BY DEF ProviderAccepts, Rights, RowsExist
  <1>3. /\ accepted' = [accepted EXCEPT ![m] = @ + 1]
        /\ UNCHANGED <<row, requeues>>
    BY DEF ProviderAccepts
  <1>4. PhaseNow[m] # "absent" /\ RightsNow[m] > 0
    BY <1>1, <1>2, RightLeft DEF PhaseNow, PhaseOf
  <1>5. IF m \in AtMostOnce
          THEN RightsNow' = [RightsNow EXCEPT ![m] = @ - 1]
          ELSE RightsNow' = RightsNow
    <2>1. CASE m \in AtMostOnce
      <3>1. \A n \in Messages :
               RightsNow'[n] = IF n = m THEN RightsNow[n] - 1 ELSE RightsNow[n]
        <4>1. /\ \A n \in Messages \ {m} : accepted'[n] = accepted[n]
              /\ accepted'[m] = accepted[m] + 1
          BY <1>1, <1>3
        <4>2. \A n \in Messages : accepted[n] \in Nat /\ requeues[n] \in Nat
          BY <1>1
        <4> QED
          BY <1>3, <2>1, <4>1, <4>2 DEF RightsNow
      <3>2. RightsNow' = [RightsNow EXCEPT ![m] = @ - 1]
        <4>1. /\ RightsNow = [n \in Messages |-> RightsNow[n]]
              /\ RightsNow' = [n \in Messages |-> RightsNow'[n]]
          BY DEF RightsNow
        <4> QED
          BY <3>1, <4>1
      <3> QED
        BY <2>1, <3>2
    <2>2. CASE m \notin AtMostOnce
      BY <1>1, <1>3, <2>2 DEF RightsNow
    <2> QED
      BY <2>1, <2>2
  <1>6. PhaseNow' = PhaseNow
    BY <1>3 DEF PhaseNow
  <1> QED
    BY <1>3, <1>4, <1>5, <1>6 DEF Contract!HandOver, PhaseNow, RightsNow

LEMMA FinishSettles ==
  ASSUME TypeOK, AnswersKnown, SendRightConserved, SentInv,
         NEW w \in Workers, Finish(w)
  PROVE  \/ UNCHANGED Contract!vars
         \/ Contract!Deliver(worker[w].msg)
         \/ Contract!Fail(worker[w].msg)
         \/ Contract!Close(worker[w].msg)
         \/ Contract!LoseTrack({worker[w].msg})
  <1> DEFINE m == worker[w].msg
             status == FinishStatus(worker[w].res, worker[w].attempts)
  <1>1. /\ m \in Messages /\ row \in [Messages -> Rows]
        /\ accepted \in [Messages -> Nat] /\ requeues \in [Messages -> Nat]
    BY DEF TypeOK, Locals
  <1>2. UNCHANGED <<accepted, requeues>>
    BY DEF Finish, FinishWhere, history
  <1>3. CASE row[m].status # "sending"
    <2>1. row' = row
      BY <1>3 DEF Finish, FinishWhere
    <2> QED
      BY <1>2, <2>1, PhaseStutters
  <1>4. CASE row[m].status = "sending"
    <2>1. /\ row'[m].status = status
          /\ \A n \in Messages \ {m} : row'[n].status = row[n].status
      BY <1>1, <1>4 DEF Finish, FinishWhere, Rows
    <2>2. /\ PhaseNow[m] = "pending"
          /\ PhaseNow' = [PhaseNow EXCEPT ![m] = PhaseOf(status)]
          /\ RightsNow' = RightsNow
      BY <1>1, <1>2, <1>4, <2>1, PhaseMoves, RightsStay DEF PhaseNow, PhaseOf
    <2>3. CASE status = "queued"
      <3>1. \A n \in Messages : PhaseOf(row'[n].status) = PhaseOf(row[n].status)
        BY <1>4, <2>1, <2>3 DEF PhaseOf
      <3> QED
        BY <1>2, <3>1, PhaseStutters
    <2>4. CASE status = "sent"
      <3>1. accepted[m] > 0
        <4>1. worker[w].pc = "answered"
          BY DEF Finish, FinishWhere
        <4>2. worker[w].res = "sent"
          BY <2>4 DEF FinishStatus
        <4>3. accepted[m] >= 1 /\ accepted[m] \in Nat
          BY <1>1, <4>1, <4>2 DEF SentInv
        <4> QED
          BY <4>3
      <3>2. PhaseOf(status) = "delivered"
        BY <2>4 DEF PhaseOf
      <3>3. PhaseNow' = [PhaseNow EXCEPT ![m] = "delivered"]
        BY <2>2, <3>2
      <3> QED
        BY <1>2, <2>2, <3>1, <3>3
           DEF Contract!Deliver, Contract!Move, PhaseNow, RightsNow
    <2>5. CASE status = "failed"
      <3>1. worker[w].pc = "answered" /\ worker[w].res \in {"retry", "failed"}
        BY <2>5 DEF Finish, FinishWhere, FinishStatus, AnswersKnown, Outcomes
      <3>2. RightsNow[m] > 0
        BY <1>1, <3>1, RightLeft DEF Rights
      <3>3. PhaseNow' = [PhaseNow EXCEPT ![m] = "undelivered"]
        BY <2>2, <2>5 DEF PhaseOf
      <3> QED
        BY <1>2, <2>2, <3>2, <3>3
           DEF Contract!Fail, Contract!Move, PhaseNow, RightsNow
    <2>6. CASE status = "skipped"
      <3>1. PhaseNow' = [PhaseNow EXCEPT ![m] = "closed"]
        BY <2>2, <2>6 DEF PhaseOf
      <3> QED
        BY <1>2, <2>2, <3>1
           DEF Contract!Close, Contract!Move, PhaseNow, RightsNow
    <2>7. CASE status = "outcome_unknown"
      <3>1. PhaseNow' = [n \in Messages |->
                           IF n \in {m} THEN "unknown" ELSE PhaseNow[n]]
        BY <2>2, <2>7 DEF PhaseOf, PhaseNow
      <3> QED
        BY <1>2, <2>2, <3>1 DEF Contract!LoseTrack, PhaseNow, RightsNow
    <2> QED
      BY <2>3, <2>4, <2>5, <2>6, <2>7 DEF FinishStatus
  <1> QED
    BY <1>3, <1>4

(* The claims recoverStale requeues stay pending; the sends it gives up    *)
(* are all of them lost track of at once.                                  *)
LEMMA RecoveryLosesTrack ==
  ASSUME TypeOK, RecoverStale
  PROVE  \/ UNCHANGED Contract!vars
         \/ \E lost \in SUBSET Messages : Contract!LoseTrack(lost)
  <1> DEFINE lost == {m \in Messages : /\ row[m].status = "sending"
                                       /\ row[m].age >= SendingStale}
  <1>1. row \in [Messages -> Rows] /\ UNCHANGED <<accepted, requeues>>
    BY DEF TypeOK, RecoverStale, history
  <1>2. \A m \in lost : PhaseNow[m] = "pending"
    BY DEF PhaseNow, PhaseOf
  <1>3. \A m \in Messages :
           PhaseOf(row'[m].status) = IF m \in lost THEN "unknown" ELSE PhaseNow[m]
    <2> TAKE m \in Messages
    <2>1. row'[m] = RecoveredRow(m)
      BY DEF RecoverStale
    <2>2. CASE m \in lost
      <3>1. row'[m].status = "outcome_unknown"
        BY <1>1, <2>1, <2>2 DEF RecoveredRow, Rows
      <3> QED
        BY <2>2, <3>1 DEF PhaseOf
    <2>3. CASE m \notin lost /\ row[m].status = "claimed" /\ row[m].age >= ClaimStale
      <3>1. row'[m].status = "queued"
        BY <1>1, <2>1, <2>3 DEF RecoveredRow, RequeuedClaim, Rows
      <3> QED
        BY <2>3, <3>1 DEF PhaseOf, PhaseNow
    <2>4. CASE m \notin lost /\ row'[m] = row[m]
      BY <2>4 DEF PhaseNow
    <2> QED
      BY <2>1, <2>2, <2>3, <2>4 DEF RecoveredRow, RequeuedClaim
  <1>4. CASE lost = {}
    BY <1>1, <1>3, <1>4, PhaseStutters DEF PhaseNow
  <1>5. CASE lost # {}
    <2>1. PhaseNow' = [m \in Messages |->
                         IF m \in lost THEN "unknown" ELSE PhaseNow[m]]
      BY <1>3 DEF PhaseNow
    <2>2. Contract!LoseTrack(lost)
      BY <1>1, <1>2, <1>5, <2>1, RightsStay
         DEF Contract!LoseTrack, PhaseNow, RightsNow
    <2> QED
      BY <2>2
  <1> QED
    BY <1>4, <1>5

LEMMA CancelCloses ==
  ASSUME TypeOK, NEW w \in Workers, NEW m \in Messages,
         CancelRow(w, m, CANCELLABLE_FROM)
  PROVE  Contract!Close(m)
  <1>1. row \in [Messages -> Rows]
    BY DEF TypeOK
  <1>2. /\ row[m].status \in CANCELLABLE_FROM /\ row'[m].status = "cancelled"
        /\ \A n \in Messages \ {m} : row'[n].status = row[n].status
        /\ UNCHANGED <<accepted, requeues>>
    BY <1>1 DEF CancelRow, Rows, history
  <1>3. /\ PhaseNow[m] \in {"pending", "undelivered", "unknown"}
        /\ PhaseOf(row'[m].status) = "closed"
        /\ PhaseNow' = [PhaseNow EXCEPT ![m] = PhaseOf(row'[m].status)]
        /\ RightsNow' = RightsNow
    BY <1>2, PhaseMoves, RightsStay DEF PhaseNow, PhaseOf, CANCELLABLE_FROM
  <1> QED
    BY <1>2, <1>3 DEF Contract!Close, Contract!Move, PhaseNow, RightsNow

(* Retrying a failed message costs nothing; resending a cancelled or       *)
(* unknown one grants a right.                                             *)
LEMMA RequeueRetries ==
  ASSUME TypeOK, NEW m \in Messages, NEW confirm, Requeue(m, confirm)
  PROVE  Contract!Retry(m) \/ Contract!Resend(m)
  <1>1. /\ row \in [Messages -> Rows] /\ accepted \in [Messages -> Nat]
        /\ requeues \in [Messages -> Nat]
    BY DEF TypeOK
  <1>2. /\ row[m].status \in RETRYABLE_FROM /\ row'[m].status = "queued"
        /\ \A n \in Messages \ {m} : row'[n].status = row[n].status
        /\ UNCHANGED accepted
    BY <1>1 DEF Requeue, Rows
  <1>3. PhaseNow' = [PhaseNow EXCEPT ![m] = "pending"]
    BY <1>2, PhaseMoves DEF PhaseOf
  <1>4. CASE row[m].status = "failed"
    <2>1. UNCHANGED requeues /\ PhaseNow[m] = "undelivered"
      BY <1>4 DEF Requeue, PhaseNow, PhaseOf
    <2> QED
      BY <1>2, <1>3, <2>1, RightsStay
         DEF Contract!Retry, Contract!Move, PhaseNow, RightsNow
  <1>5. CASE row[m].status # "failed"
    <2>1. /\ requeues' = [requeues EXCEPT ![m] = @ + 1]
          /\ PhaseNow[m] \in {"closed", "unknown"}
      BY <1>2, <1>5 DEF Requeue, PhaseNow, PhaseOf, RETRYABLE_FROM
    <2>2. RightsNow' = [RightsNow EXCEPT ![m] = @ + 1]
      <3>1. \A n \in Messages :
               RightsNow'[n] = IF n = m THEN RightsNow[n] + 1 ELSE RightsNow[n]
        BY <1>1, <1>2, <2>1 DEF RightsNow
      <3> QED
        BY <3>1 DEF RightsNow
    <2> QED
      BY <1>2, <1>3, <2>1, <2>2
         DEF Contract!Resend, Contract!Move, PhaseNow, RightsNow
  <1> QED
    BY <1>4, <1>5

LEMMA RestStutters ==
  ASSUME TypeOK,
         \/ \E m \in Messages : Defer(m) \/ PickDue(m) \/ TimePasses(m)
         \/ SelectDue \/ EndPass \/ ToggleOrganization
         \/ \E w \in Workers, m \in Messages : DeliverNow(w, m) \/ SendNow(w, m)
         \/ \E w \in Workers :
              \/ Claim(w) \/ ReadOwner(w) \/ MarkBlocked(w) \/ MarkSending(w)
              \/ Answer(w) \/ ClearSensitive(w) \/ NotifyOutcome(w) \/ Crash(w)
         \/ UNCHANGED vars
  PROVE  UNCHANGED Contract!vars
  <1>a. /\ row \in [Messages -> Rows] /\ \A w \in Workers : worker[w].msg \in Messages
    BY DEF TypeOK, Locals
  <1>1. UNCHANGED <<accepted, requeues>>
    BY DEF Defer, PickDue, TimePasses, SelectDue, EndPass, ToggleOrganization,
           DeliverNow, SendNow, Claim, ReadOwner, MarkBlocked, MarkSending, Answer,
           ClearSensitive, NotifyOutcome, Crash, history, vars
  <1>2. ASSUME NEW n \in Messages
        PROVE  \/ row'[n].status = row[n].status
               \/ /\ row[n].status \in {"queued", "claimed", "sending"}
                  /\ row'[n].status \in {"queued", "claimed", "sending"}
    <2>1. ASSUME NEW m \in Messages, Defer(m) \/ TimePasses(m)
          PROVE  row'[n].status = row[n].status
      BY <1>a, <2>1 DEF Defer, TimePasses, Rows
    <2>2. ASSUME NEW w \in Workers, ClearSensitive(w)
          PROVE  row'[n].status = row[n].status
      BY <1>a, <2>2 DEF ClearSensitive, Rows
    <2>3. ASSUME NEW w \in Workers, Claim(w) \/ MarkBlocked(w) \/ MarkSending(w)
          PROVE  \/ row'[n].status = row[n].status
                 \/ /\ row[n].status \in {"queued", "claimed", "sending"}
                    /\ row'[n].status \in {"queued", "claimed", "sending"}
      <3>1. CASE worker[w].msg = n
        <4>1. \/ row' = row
              \/ /\ row[n].status = "queued"
                 /\ row' = [row EXCEPT ![n].status = "claimed", ![n].age = 0,
                                       ![n].attempts = @ + 1]
              \/ /\ row[n].status = "claimed"
                 /\ row' = [row EXCEPT ![n].status = "sending"]
          BY <2>3, <3>1 DEF Claim, MarkBlocked, MarkSending
        <4> QED
          BY <1>a, <4>1 DEF Rows
      <3>2. CASE worker[w].msg # n
        BY <1>a, <2>3, <3>2 DEF Claim, MarkBlocked, MarkSending, Rows
      <3> QED
        BY <3>1, <3>2
    <2> QED
      BY <2>1, <2>2, <2>3
         DEF PickDue, SelectDue, EndPass, ToggleOrganization, DeliverNow, SendNow,
             ReadOwner, Answer, NotifyOutcome, Crash, vars
  <1>3. \A n \in Messages : PhaseOf(row'[n].status) = PhaseOf(row[n].status)
    BY <1>2 DEF PhaseOf
  <1> QED
    BY <1>1, <1>3, PhaseStutters

LEMMA ContractStep ==
  TypeOK /\ AnswersKnown /\ SendRightConserved /\ SentInv /\ RowsExist /\ [Next]_vars
     => [Contract!Next]_(Contract!vars)
  <1> SUFFICES ASSUME TypeOK, AnswersKnown, SendRightConserved, SentInv, RowsExist,
                      [Next]_vars
               PROVE  Contract!Next \/ UNCHANGED Contract!vars
    OBVIOUS
  <1>a. \A w \in Workers : worker[w].msg \in Messages
    BY DEF TypeOK, Locals
  <1>1. ASSUME NEW m \in Messages, Contract!Step(m) PROVE Contract!Next
    BY <1>1 DEF Contract!Next
  <1>2. ASSUME NEW m \in Messages, Enqueue(m) PROVE Contract!Next
    BY <1>2, <1>1, EnqueueSubmits DEF Contract!Step
  <1>3. ASSUME NEW w \in Workers, ProviderAccepts(w) PROVE Contract!Next
    <2>1. PICK m \in Messages : m = worker[w].msg
      BY <1>a
    <2>2. Contract!HandOver(m)
      BY <1>3, <2>1, AcceptHandsOver
    <2> QED
      BY <1>1, <2>2 DEF Contract!Step
  <1>4. ASSUME NEW w \in Workers, Finish(w)
        PROVE  Contract!Next \/ UNCHANGED Contract!vars
    <2>1. {worker[w].msg} \in SUBSET Messages
      BY <1>a
    <2>2. Contract!LoseTrack({worker[w].msg}) => Contract!Next
      BY <2>1 DEF Contract!Next
    <2> QED
      BY <1>4, <1>a, <1>1, <2>2, FinishSettles DEF Contract!Step
  <1>5. RecoverStale => Contract!Next \/ UNCHANGED Contract!vars
    BY RecoveryLosesTrack DEF Contract!Next
  <1>6. ASSUME NEW w \in Requests, NEW m \in Messages,
               CancelRow(w, m, CANCELLABLE_FROM)
        PROVE  Contract!Next
    BY <1>6, <1>1, CancelCloses DEF Contract!Step, Requests
  <1>7. ASSUME NEW m \in Messages, NEW confirm \in BOOLEAN, Retry(m, confirm)
        PROVE  Contract!Next
    BY <1>7, <1>1, RequeueRetries DEF Contract!Step, Retry
  <1> QED
    BY <1>2, <1>3, <1>4, <1>5, <1>6, <1>7, CancelWider, RestStutters
       DEF Next, SweepStep, RequestStep, StaffRetry, DeliverStep, Requests

LEMMA ContractInit == Init => Contract!Init
  <1> SUFFICES ASSUME Init PROVE Contract!Init
    OBVIOUS
  <1>1. \A m \in Messages : /\ PhaseOf(row[m].status) = "absent"
                            /\ requeues[m] = 0 /\ accepted[m] = 0
    BY DEF Init, PhaseOf
  <1>2. RightsNow = [m \in Messages |-> 1]
    BY <1>1 DEF RightsNow
  <1>3. PhaseNow = [m \in Messages |-> "absent"]
    BY <1>1 DEF PhaseNow
  <1> QED
    BY <1>2, <1>3 DEF Contract!Init, Init, PhaseNow, RightsNow

(* The outbox keeps its promise to producers: seen from outside, every     *)
(* claim, sweep, recovery, stall, stop and late answer is a step of        *)
(* DeliveryContract or no step at all.                                     *)
THEOREM ContractTheorem == SafetySpec => ImplementsContract
  <1>1. Init => SentInv /\ RowsExist
    BY DEF Init, Idle, EmptySweep, SentInv, SentWasAccepted, RowsExist
  <1> QED
    BY <1>1, ContractInit, ContractStep, SentInvStep, RowsExistStep, Knowledge, PTL
       DEF SafetySpec, ImplementsContract, Contract!Spec

=============================================================================
