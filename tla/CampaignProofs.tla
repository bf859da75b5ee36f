--------------------------- MODULE CampaignProofs ---------------------------
(* Proofs about one campaign, for any finite set of clients, any manual    *)
(* runs and any bounds.                                                    *)
EXTENDS Campaign, TLAPS

----------------------------------------------------------------------------
(* Type correctness *)

WorkerStates == [pc : {"idle", "loop", "count"},
                 batch : SUBSET Messages, cur : SUBSET Messages]

CampaignType ==
    /\ campaign \in [status : {"draft", "sending", "sent", "failed",
                               "cancelled", "deleted"},
                     recipients : SUBSET Clients]
    /\ msg \in [Messages -> MessageStates]
    /\ tally \in [Messages \X Counters -> Nat]
    /\ owed \subseteq Messages \X Counters
    /\ worker \in [Workers -> WorkerStates]
    /\ withdrawal \subseteq Messages
    /\ notices \subseteq Messages \X Outcomes

BoundsType ==
    /\ dispatches \in 0 .. MaxDispatches
    /\ unheard \subseteq Messages
    /\ staff \in Nat /\ faults \in Nat /\ staff + faults <= MaxIncidents

OutboxType ==
    /\ phase \in [Messages -> Outbox!Phases]
    /\ rights \in [Messages -> Nat] /\ taken \in [Messages -> Nat]

LEMMA TypeParts ==
    /\ TypeOK <=> CampaignType /\ BoundsType /\ OutboxType
    /\ TypeOK' <=> CampaignType' /\ BoundsType' /\ OutboxType'
  BY DEF TypeOK, CampaignType, BoundsType, OutboxType, WorkerStates

LEMMA InitTypeOK == Init => TypeOK
  <1> SUFFICES ASSUME Init PROVE CampaignType /\ BoundsType /\ OutboxType
    BY TypeParts
  <1>1. CampaignType
    BY DEF Init, CampaignType, IdleWorker, WorkerStates, MessageStates
  <1>2. BoundsType
    BY CampaignAssumption DEF Init, BoundsType
  <1>3. OutboxType
    BY DEF Init, Outbox!Init, OutboxType, Outbox!Phases
  <1> QED
    BY <1>1, <1>2, <1>3

(* The outbox's steps keep its types. *)
LEMMA OutboxSteps ==
  ASSUME OutboxType, NEW m \in Messages
  PROVE  /\ Outbox!Submit(m) => OutboxType'
         /\ Outbox!HandOver(m) => OutboxType'
         /\ Outbox!Deliver(m) \/ Outbox!Fail(m) => OutboxType'
         /\ Outbox!Close(m) \/ Outbox!Retry(m) => OutboxType'
         /\ Outbox!Resend(m) => OutboxType'
  <1>1. Outbox!Submit(m) => OutboxType'
    BY DEF OutboxType, Outbox!Submit, Outbox!Move, Outbox!Phases
  <1>2. Outbox!HandOver(m) => OutboxType'
    BY DEF OutboxType, Outbox!HandOver
  <1>3. Outbox!Deliver(m) \/ Outbox!Fail(m) => OutboxType'
    BY DEF OutboxType, Outbox!Deliver, Outbox!Fail, Outbox!Move, Outbox!Phases
  <1>4. Outbox!Close(m) \/ Outbox!Retry(m) => OutboxType'
    BY DEF OutboxType, Outbox!Close, Outbox!Retry, Outbox!Move, Outbox!Phases
  <1>5. Outbox!Resend(m) => OutboxType'
    BY DEF OutboxType, Outbox!Resend, Outbox!Move, Outbox!Phases
  <1> QED
    BY <1>1, <1>2, <1>3, <1>4, <1>5

LEMMA LoseTrackType ==
  ASSUME OutboxType, NEW lost, Outbox!LoseTrack(lost)
  PROVE  OutboxType'
  BY DEF OutboxType, Outbox!LoseTrack, Outbox!Phases

LEMMA Incidents ==
  ASSUME BoundsType
  PROVE  /\ Fault /\ UNCHANGED <<staff, dispatches>> /\ unheard' \subseteq Messages
              => BoundsType'
         /\ StaffAction /\ UNCHANGED <<faults, dispatches, unheard>> => BoundsType'
  BY CampaignAssumption DEF BoundsType, Fault, StaffAction

LEMMA CountType ==
  ASSUME tally \in [Messages \X Counters -> Nat],
         NEW m \in Messages, NEW c \in Counters, Count(m, c)
  PROVE  tally' \in [Messages \X Counters -> Nat]
  BY DEF Count

LEMMA StepTypeOK == TypeOK /\ [Next]_vars => TypeOK'
  <1> SUFFICES ASSUME CampaignType, BoundsType, OutboxType, [Next]_vars
               PROVE  CampaignType' /\ BoundsType' /\ OutboxType'
    BY TypeParts
  <1>0. /\ UNCHANGED bounds => BoundsType'
        /\ UNCHANGED outbox => OutboxType'
    BY DEF bounds, outbox, BoundsType, OutboxType
  <1>1. ASSUME NEW recipients \in SUBSET Clients, Dispatch(recipients)
        PROVE  CampaignType' /\ BoundsType' /\ OutboxType'
    <2>1. CampaignType'
      BY <1>1 DEF Dispatch, CampaignType, MessageStates, Unsettled
    <2>2. BoundsType'
      BY <1>1, CampaignAssumption DEF Dispatch, BoundsType
    <2> QED
      BY <1>1, <1>0, <2>1, <2>2 DEF Dispatch
  <1>2. ASSUME NEW w \in Workers, Select(w)
        PROVE  CampaignType' /\ BoundsType' /\ OutboxType'
    <2>1. CampaignType'
      BY <1>2 DEF Select, CampaignType, WorkerStates
    <2>2. BoundsType'
      BY <1>2, Incidents DEF Select, BoundsType
    <2> QED
      BY <1>2, <1>0, <2>1, <2>2 DEF Select
  <1>3. ASSUME NEW w \in Workers, NEW m \in Messages, HandOff(w, m)
        PROVE  CampaignType' /\ BoundsType' /\ OutboxType'
    <2>1. worker' \in [Workers -> WorkerStates]
      <3>1. worker[w] \in WorkerStates
        BY DEF CampaignType
      <3>2. worker' = [worker EXCEPT ![w] =
                         [worker[w] EXCEPT !.batch = worker[w].batch \ {m}]]
        BY <1>3 DEF HandOff
      <3> QED
        BY <3>1, <3>2 DEF CampaignType, WorkerStates
    <2>2. msg' \in [Messages -> MessageStates]
      BY <1>3 DEF HandOff, CampaignType, MessageStates, Unsettled
    <2>3. tally' \in [Messages \X Counters -> Nat]
      BY <1>3, CountType DEF HandOff, CampaignType, Counters
    <2>4. OutboxType'
      BY <1>3, OutboxSteps DEF HandOff
    <2> QED
      BY <1>3, <2>1, <2>2, <2>3, <2>4
         DEF HandOff, notWorker, CampaignType, BoundsType
  <1>4. ASSUME NEW w \in Workers, NEW m \in Messages, Skip(w, m)
        PROVE  CampaignType' /\ BoundsType' /\ OutboxType'
    <2>1. worker' \in [Workers -> WorkerStates]
      BY <1>4 DEF Skip, CampaignType, WorkerStates
    <2>2. msg' \in [Messages -> MessageStates]
      BY <1>4 DEF Skip, CampaignType, MessageStates
    <2> QED
      BY <1>4, <1>0, <2>1, <2>2 DEF Skip, notWorker, CampaignType, BoundsType
  <1>5. ASSUME NEW w \in Workers, CountSkip(w)
        PROVE  CampaignType' /\ BoundsType' /\ OutboxType'
    <2>1. worker' \in [Workers -> WorkerStates]
      BY <1>5 DEF CountSkip, CampaignType, WorkerStates
    <2>2. tally' \in [Messages \X Counters -> Nat]
      <3>1. PICK m \in worker[w].cur : Count(m, "failed")
        BY <1>5 DEF CountSkip
      <3>2. m \in Messages
        BY DEF CampaignType, WorkerStates
      <3> QED
        BY <3>1, <3>2, CountType DEF CampaignType, Counters
    <2> QED
      BY <1>5, <1>0, <2>1, <2>2 DEF CountSkip, notWorker, CampaignType, BoundsType
  <1>6. ASSUME NEW w \in Workers, Complete(w)
        PROVE  CampaignType' /\ BoundsType' /\ OutboxType'
    BY <1>6, <1>0
       DEF Complete, notWorker, CampaignType, BoundsType, IdleWorker, WorkerStates
  <1>7. ASSUME NEW w \in Workers, CrashWorker(w)
        PROVE  CampaignType' /\ BoundsType' /\ OutboxType'
    <2>1. CampaignType'
      BY <1>7 DEF CrashWorker, notWorker, CampaignType, IdleWorker, WorkerStates
    <2>2. BoundsType'
      BY <1>7, Incidents DEF CrashWorker, notWorker, BoundsType
    <2> QED
      BY <1>7, <1>0, <2>1, <2>2 DEF CrashWorker
  <1>8. ASSUME NEW m \in Messages, Finishes(m)
        PROVE  CampaignType' /\ BoundsType' /\ OutboxType'
    <2>1. CampaignType'
      BY <1>8 DEF Finishes, Tell, notOutbox, CampaignType, Outcomes
    <2>2. OutboxType'
      BY <1>8, OutboxSteps, LoseTrackType DEF Finishes
    <2> QED
      BY <1>8, <2>1, <2>2 DEF Finishes, notOutbox, BoundsType
  <1>9. ASSUME NEW m \in Messages,
               HandsOver(m) \/ StaffRetries(m) \/ StaffCancels(m) \/ Withdraw(m)
        PROVE  CampaignType' /\ BoundsType' /\ OutboxType'
    <2>1. CampaignType'
      BY <1>9 DEF HandsOver, StaffRetries, StaffCancels, Withdraw, Tell, notOutbox,
                  CampaignType, Outcomes
    <2>2. OutboxType'
      BY <1>9, <1>0, OutboxSteps DEF HandsOver, StaffRetries, StaffCancels, Withdraw
    <2>3. BoundsType'
      BY <1>9, <1>0, Incidents
         DEF HandsOver, StaffRetries, StaffCancels, Withdraw, notOutbox, BoundsType
    <2> QED
      BY <2>1, <2>2, <2>3
  <1>10. ASSUME NEW lost \in SUBSET Messages, RecoveredStale(lost)
         PROVE  CampaignType' /\ BoundsType' /\ OutboxType'
    <2>1. CampaignType'
      BY <1>10 DEF RecoveredStale, notOutbox, CampaignType
    <2>2. BoundsType'
      BY <1>10, Incidents DEF RecoveredStale, notOutbox, BoundsType
    <2>3. OutboxType'
      BY <1>10, LoseTrackType DEF RecoveredStale
    <2> QED
      BY <2>1, <2>2, <2>3
  <1>11. ASSUME NEW m \in Messages, NEW o \in Outcomes,
                HearOutcome(m, o)
         PROVE  CampaignType' /\ BoundsType' /\ OutboxType'
    <2>1. msg' \in [Messages -> MessageStates]
      BY <1>11 DEF HearOutcome, CampaignType, Outcomes, MessageStates, Taken
    <2>2. owed' \subseteq Messages \X Counters
      BY <1>11 DEF HearOutcome, CampaignType, Counters
    <2> QED
      BY <1>11, <1>0, <2>1, <2>2 DEF HearOutcome, CampaignType
  <1>12. ASSUME NEW m \in Messages, NEW o \in Outcomes, LoseOutcome(m, o)
         PROVE  CampaignType' /\ BoundsType' /\ OutboxType'
    <2>1. CampaignType'
      BY <1>12 DEF LoseOutcome, CampaignType
    <2>2. BoundsType'
      BY <1>12, Incidents DEF LoseOutcome, BoundsType
    <2> QED
      BY <1>12, <1>0, <2>1, <2>2 DEF LoseOutcome
  <1>13. ASSUME NEW m \in Messages, NEW to \in Reports, Callback(m, to)
         PROVE  CampaignType' /\ BoundsType' /\ OutboxType'
    <2>0. to \in {"delivered", "opened", "bounced", "rejected"}
      BY CampaignAssumption
    <2>1. msg' \in [Messages -> MessageStates]
      BY <1>13, <2>0 DEF Callback, CampaignType, MessageStates, Taken
    <2>2. owed' \subseteq Messages \X Counters
      BY <1>13, <2>0 DEF Callback, CallbackCounter, CampaignType, Counters
    <2> QED
      BY <1>13, <1>0, <2>1, <2>2 DEF Callback, CampaignType
  <1>14. ASSUME NEW m \in Messages, NEW c \in Counters, PayCount(<<m, c>>)
         PROVE  CampaignType' /\ BoundsType' /\ OutboxType'
    <2>1. tally' \in [Messages \X Counters -> Nat]
      BY <1>14, CountType DEF PayCount, CampaignType
    <2>2. BoundsType'
      BY <1>14, Incidents DEF PayCount, BoundsType
    <2> QED
      BY <1>14, <1>0, <2>1, <2>2 DEF PayCount, CampaignType
  <1>15. ASSUME NEW status \in {"cancelled", "deleted"}, SetAside(status)
         PROVE  CampaignType' /\ BoundsType' /\ OutboxType'
    BY <1>15, <1>0 DEF SetAside, CampaignType
  <1>16. CASE UNCHANGED vars
    BY <1>16, <1>0 DEF vars, CampaignType
  <1> QED
    BY <1>1, <1>2, <1>3, <1>4, <1>5, <1>6, <1>7, <1>8, <1>9, <1>10, <1>11, <1>12,
       <1>13, <1>14, <1>15, <1>16 DEF Next, WorkerStep, MessageStep

(* Every variable of a campaign keeps its type, whatever runs, callbacks,  *)
(* staff and the outbox do to it.                                          *)
THEOREM CampaignTyped == SafetySpec => []TypeOK
  BY InitTypeOK, StepTypeOK, PTL DEF SafetySpec

----------------------------------------------------------------------------
(* How a message may move in one step.  Its dispatch is its second part,   *)
(* and every invariant below follows from these moves.                     *)

(* A message exists from its dispatch on, and only the last dispatch may   *)
(* have messages that still wait.                                          *)
Numbered ==
    /\ campaign.status = "draft" => dispatches = 0
    /\ \A m \in Messages :
          /\ m[2] > dispatches => msg[m] = "none"
          /\ msg[m] = "queued" => m[2] = dispatches

Dispatched(m) ==
    /\ \E recipients \in SUBSET Clients : Dispatch(recipients)
    /\ m[2] = dispatches + 1 /\ msg'[m] = "queued"

Retired(m) ==
    /\ \E recipients \in SUBSET Clients : Dispatch(recipients)
    /\ msg[m] = "queued" /\ msg'[m] = "superseded"

HandedOff(m) ==
    /\ \E w \in Workers : HandOff(w, m)
    /\ msg[m] = "queued"
    /\ msg'[m] = IF phase'[m] = "pending" THEN "handed_off" ELSE "failed"

Skipped(m) ==
    /\ \E w \in Workers : Skip(w, m)
    /\ msg[m] = "queued" /\ msg'[m] = "failed"

Heard(m) ==
    \E o \in Outcomes : /\ HearOutcome(m, o)
                        /\ msg[m] = "handed_off" /\ msg'[m] = o

Reported(m) ==
    \E to \in Reports : /\ Callback(m, to)
                        /\ to \in DELIVERY_TRANSITIONS(msg[m]) /\ msg'[m] = to

MsgMoves(m) ==
    \/ msg'[m] = msg[m]
    \/ Dispatched(m) \/ Retired(m) \/ HandedOff(m) \/ Skipped(m)
    \/ Heard(m) \/ Reported(m)

LEMMA MsgStep ==
  ASSUME TypeOK, [Next]_vars, NEW n \in Messages
  PROVE  MsgMoves(n)
  <1>a. msg \in [Messages -> MessageStates]
    BY DEF TypeOK
  <1>0. UNCHANGED msg => MsgMoves(n)
    BY DEF MsgMoves
  <1>1. ASSUME NEW recipients \in SUBSET Clients, Dispatch(recipients)
        PROVE  MsgMoves(n)
    BY <1>1 DEF Dispatch, Superseded, MsgMoves, Dispatched, Retired
  <1>2. ASSUME NEW w \in Workers, NEW m \in Messages, HandOff(w, m)
        PROVE  MsgMoves(n)
    <2>1. CASE m = n
      <3>1. msg[n] = "queued"
        BY <1>2, <2>1 DEF HandOff
      <3>2. msg'[n] = IF phase'[n] = "pending" THEN "handed_off" ELSE "failed"
        BY <1>2, <2>1, <1>a DEF HandOff
      <3>3. HandedOff(n)
        BY <1>2, <2>1, <3>1, <3>2 DEF HandedOff
      <3> QED
        BY <3>3 DEF MsgMoves
    <2>2. CASE m # n
      BY <1>2, <2>2, <1>a DEF HandOff, MsgMoves
    <2> QED
      BY <2>1, <2>2
  <1>3. ASSUME NEW w \in Workers, NEW m \in Messages, Skip(w, m)
        PROVE  MsgMoves(n)
    <2>1. CASE m = n /\ msg[n] = "queued"
      <3>1. msg'[n] = "failed"
        BY <1>3, <2>1, <1>a DEF Skip
      <3>2. Skipped(n)
        BY <1>3, <2>1, <3>1 DEF Skipped
      <3> QED
        BY <3>2 DEF MsgMoves
    <2>2. CASE ~(m = n /\ msg[n] = "queued")
      BY <1>3, <2>2, <1>a DEF Skip, MsgMoves
    <2> QED
      BY <2>1, <2>2
  <1>4. ASSUME NEW m \in Messages, NEW o \in Outcomes, HearOutcome(m, o)
        PROVE  MsgMoves(n)
    <2>1. CASE m = n /\ msg[n] = "handed_off"
      <3>1. msg'[n] = o
        BY <1>4, <2>1, <1>a DEF HearOutcome
      <3>2. Heard(n)
        BY <1>4, <2>1, <3>1 DEF Heard
      <3> QED
        BY <3>2 DEF MsgMoves
    <2>2. CASE ~(m = n /\ msg[n] = "handed_off")
      BY <1>4, <2>2, <1>a DEF HearOutcome, MsgMoves
    <2> QED
      BY <2>1, <2>2
  <1>5. ASSUME NEW m \in Messages, NEW to \in Reports, Callback(m, to)
        PROVE  MsgMoves(n)
    <2>1. CASE m = n
      <3>1. to \in DELIVERY_TRANSITIONS(msg[n]) /\ msg'[n] = to
        BY <1>5, <2>1, <1>a DEF Callback
      <3>2. Reported(n)
        BY <1>5, <2>1, <3>1 DEF Reported
      <3> QED
        BY <3>2 DEF MsgMoves
    <2>2. CASE m # n
      BY <1>5, <2>2, <1>a DEF Callback, MsgMoves
    <2> QED
      BY <2>1, <2>2
  <1> QED
    BY <1>0, <1>1, <1>2, <1>3, <1>4, <1>5
       DEF Next, WorkerStep, MessageStep, SetAside, Select, CountSkip, Complete,
           CrashWorker, Finishes, HandsOver, StaffRetries, StaffCancels, Withdraw,
           LoseOutcome, PayCount, RecoveredStale, notOutbox, notWorker, vars

(* Only a dispatch changes how many there were, and it retires whatever    *)
(* still waits.                                                            *)
LEMMA DispatchesStep ==
  ASSUME [Next]_vars
  PROVE  \/ UNCHANGED dispatches
         \/ /\ \E recipients \in SUBSET Clients : Dispatch(recipients)
            /\ dispatches' = dispatches + 1
  BY DEF Next, WorkerStep, MessageStep, Dispatch, SetAside, Select, HandOff, Skip,
         CountSkip, Complete, CrashWorker, Finishes, HandsOver, StaffRetries,
         StaffCancels, Withdraw, HearOutcome, LoseOutcome, Callback, PayCount,
         RecoveredStale, notOutbox, notWorker, bounds, vars

LEMMA DraftStep ==
  ASSUME TypeOK, [Next]_vars, campaign'.status = "draft"
  PROVE  campaign.status = "draft" /\ UNCHANGED dispatches
  <1>a. campaign \in [status : {"draft", "sending", "sent", "failed",
                                "cancelled", "deleted"},
                      recipients : SUBSET Clients]
    BY DEF TypeOK
  <1>1. ASSUME NEW recipients \in SUBSET Clients, Dispatch(recipients) PROVE FALSE
    BY <1>1, <1>a DEF Dispatch
  <1>2. ASSUME NEW status \in {"cancelled", "deleted"}, SetAside(status) PROVE FALSE
    BY <1>2, <1>a DEF SetAside
  <1>3. ASSUME NEW w \in Workers, Complete(w) PROVE campaign.status = "draft"
    BY <1>3, <1>a DEF Complete
  <1>4. campaign.status = "draft"
    BY <1>1, <1>2, <1>3
       DEF Next, WorkerStep, MessageStep, Select, HandOff, Skip,
           CountSkip, CrashWorker, Finishes, HandsOver, StaffRetries,
           StaffCancels, Withdraw, HearOutcome, LoseOutcome, Callback, PayCount,
           RecoveredStale, notOutbox, notWorker, vars
  <1> QED
    BY <1>1, <1>4, DispatchesStep

LEMMA NumberedStep == TypeOK /\ Numbered /\ [Next]_vars => Numbered'
  <1> SUFFICES ASSUME TypeOK, Numbered, [Next]_vars PROVE Numbered'
    OBVIOUS
  <1>a. dispatches \in Nat /\ \A m \in Messages : m[2] \in Nat
    BY CampaignAssumption DEF TypeOK, Messages
  <1>1. campaign'.status = "draft" => dispatches' = 0
    BY DraftStep DEF Numbered
  <1>2. ASSUME NEW m \in Messages, m[2] > dispatches' PROVE msg'[m] = "none"
    <2>2. m[2] > dispatches /\ msg[m] = "none"
      BY <1>a, <1>2, DispatchesStep DEF Numbered
    <2>3. ~Dispatched(m)
      BY <1>a, <1>2 DEF Dispatched, Dispatch
    <2>4. \A to : to \notin DELIVERY_TRANSITIONS("none")
      BY DEF DELIVERY_TRANSITIONS
    <2> QED
      BY <2>2, <2>3, <2>4, MsgStep
         DEF MsgMoves, Retired, HandedOff, Skipped, Heard, Reported
  <1>3. ASSUME NEW m \in Messages, msg'[m] = "queued" PROVE m[2] = dispatches'
    <2>1. CASE Dispatched(m)
      BY <2>1 DEF Dispatched, Dispatch
    <2>2. CASE msg[m] = "queued" /\ UNCHANGED dispatches
      BY <2>2 DEF Numbered
    <2>3. CASE ~Dispatched(m)
      <3>1. msg[m] = "queued"
        BY <1>3, <2>3, MsgStep DEF MsgMoves, Retired, HandedOff, Skipped, Heard,
                         Reported, Outcomes, DELIVERY_TRANSITIONS
      <3>2. ASSUME NEW recipients \in SUBSET Clients, Dispatch(recipients)
            PROVE  FALSE
        <4>1. campaign.status # "draft"
          BY <1>a, <3>1 DEF Numbered, Messages
        <4>2. msg'[m] = "superseded" \/ m[2] = dispatches + 1
          BY <3>1, <3>2, <4>1 DEF Dispatch, Superseded
        <4> QED
          BY <1>3, <1>a, <3>1, <4>2 DEF Numbered
      <3> QED
        BY <2>2, <3>1, <3>2, DispatchesStep
    <2> QED
      BY <2>1, <2>3
  <1> QED
    BY <1>1, <1>2, <1>3 DEF Numbered

LEMMA NumberedInit == Init => Numbered
  BY DEF Init, Numbered

LEMMA NumberedTheorem == SafetySpec => [](TypeOK /\ Numbered)
  BY NumberedInit, NumberedStep, CampaignTyped, PTL DEF SafetySpec

(* A client never has two messages waiting, however often the campaign is  *)
(* cancelled, fails and is dispatched again (dispatchCampaign retires the  *)
(* earlier snapshot).                                                      *)
THEOREM OneQueuedTheorem == SafetySpec => []OneQueuedPerClient
  <1>1. Numbered => OneQueuedPerClient
    <2> SUFFICES ASSUME Numbered, NEW m \in Messages, NEW n \in Messages,
                        msg[m] = "queued", msg[n] = "queued", m[1] = n[1]
                 PROVE  m = n
      BY DEF OneQueuedPerClient
    <2>1. m[2] = n[2]
      BY DEF Numbered
    <2> QED
      BY <2>1 DEF Messages
  <1> QED
    BY <1>1, NumberedTheorem, PTL

----------------------------------------------------------------------------
(* The campaign and the outbox agree on whose a message is *)

LEMMA PhaseStep ==
  ASSUME TypeOK, [Next]_vars, NEW n \in Messages
  PROVE  /\ phase[n] # "absent" => phase'[n] # "absent"
         /\ phase[n] = "absent" /\ phase'[n] # "absent" =>
              \E w \in Workers : HandOff(w, n)
  <1>a. phase \in [Messages -> Outbox!Phases]
    BY DEF TypeOK
  <1>0. UNCHANGED phase => phase'[n] = phase[n]
    OBVIOUS
  <1>1. ASSUME NEW m \in Messages, Outbox!Submit(m)
        PROVE  /\ phase[n] # "absent" => phase'[n] # "absent"
               /\ phase[n] = "absent" /\ phase'[n] # "absent" => m = n
    BY <1>1, <1>a DEF Outbox!Submit, Outbox!Move
  <1>2. ASSUME NEW m \in Messages,
               \/ Outbox!Deliver(m) \/ Outbox!Fail(m) \/ Outbox!Close(m)
               \/ Outbox!Retry(m) \/ Outbox!Resend(m)
        PROVE  phase'[n] = "absent" <=> phase[n] = "absent"
    BY <1>2, <1>a DEF Outbox!Deliver, Outbox!Fail, Outbox!Close, Outbox!Retry,
                      Outbox!Resend, Outbox!Move
  <1>3. ASSUME NEW lost, Outbox!LoseTrack(lost)
        PROVE  phase'[n] = "absent" <=> phase[n] = "absent"
    BY <1>3, <1>a DEF Outbox!LoseTrack
  <1>4. \A m \in Messages : Outbox!HandOver(m) => UNCHANGED phase
    BY DEF Outbox!HandOver
  <1>5. \/ UNCHANGED phase
        \/ \E w \in Workers, m \in Messages : HandOff(w, m) /\ Outbox!Submit(m)
        \/ \E m \in Messages :
              \/ Outbox!Deliver(m) \/ Outbox!Fail(m) \/ Outbox!Close(m)
              \/ Outbox!Retry(m) \/ Outbox!Resend(m) \/ Outbox!HandOver(m)
        \/ \E lost : Outbox!LoseTrack(lost)
    BY DEF Next, WorkerStep, MessageStep, Dispatch, SetAside, Select, HandOff, Skip,
           CountSkip, Complete, CrashWorker, Finishes, HandsOver, StaffRetries,
           StaffCancels, Withdraw, HearOutcome, LoseOutcome, Callback, PayCount,
           RecoveredStale, outbox, vars
  <1> QED
    BY <1>0, <1>1, <1>2, <1>3, <1>4, <1>5

LEMMA OwnedStep == TypeOK /\ Numbered /\ OwnedByOne /\ [Next]_vars => OwnedByOne'
  <1> SUFFICES ASSUME TypeOK, Numbered, OwnedByOne, [Next]_vars, NEW m \in Messages
               PROVE  /\ msg'[m] \in {"none", "queued", "superseded"} =>
                            phase'[m] = "absent"
                      /\ msg'[m] \in {"handed_off", "unknown"} \cup Taken =>
                            phase'[m] # "absent"
    BY DEF OwnedByOne
  <1>1. Dispatched(m) => msg[m] = "none"
    BY CampaignAssumption DEF Dispatched, Numbered, TypeOK, Messages
  <1>2. ASSUME msg'[m] \in {"none", "queued", "superseded"}
        PROVE  phase'[m] = "absent"
    <2>1. msg[m] \in {"none", "queued", "superseded"}
      BY <1>1, <1>2, MsgStep
         DEF MsgMoves, Retired, HandedOff, Skipped, Heard, Reported, Outcomes,
             DELIVERY_TRANSITIONS
    <2>2. phase[m] = "absent"
      BY <2>1 DEF OwnedByOne
    <2>3. ASSUME NEW w \in Workers, HandOff(w, m) PROVE FALSE
      BY <1>2, <2>3 DEF HandOff, TypeOK
    <2> QED
      BY <2>2, <2>3, PhaseStep
  <1>3. ASSUME msg'[m] \in {"handed_off", "unknown"} \cup Taken
        PROVE  phase'[m] # "absent"
    <2>1. HandedOff(m) => phase'[m] # "absent"
      BY <1>3 DEF HandedOff, Taken
    <2>2. Reported(m) => msg[m] \in Taken
      BY DEF Reported, DELIVERY_TRANSITIONS, Taken
    <2>3. HandedOff(m) \/ msg[m] \in {"handed_off", "unknown"} \cup Taken
      BY <1>3, <2>2, MsgStep
         DEF MsgMoves, Dispatched, Retired, Skipped, Heard, Taken
    <2> QED
      BY <2>1, <2>3, PhaseStep DEF OwnedByOne
  <1> QED
    BY <1>2, <1>3

(* A message is either still queued in the campaign or owned by the        *)
(* outbox: handOff's claim commits with the outbox row.                    *)
THEOREM OwnedTheorem == SafetySpec => []OwnedByOne
  <1>1. Init => OwnedByOne
    BY DEF Init, Outbox!Init, OwnedByOne, Taken
  <1> QED
    BY <1>1, OwnedStep, NumberedTheorem, PTL DEF SafetySpec

----------------------------------------------------------------------------
(* The campaign keeps to the outbox's contract, and what that gives it *)

(* What a step is to the outbox; only staff resend.                        *)
LEMMA OutboxStep ==
  ASSUME [Next]_vars
  PROVE  \/ UNCHANGED outbox
         \/ \E m \in Messages :
               \/ Outbox!Submit(m) \/ Outbox!HandOver(m) \/ Outbox!Deliver(m)
               \/ Outbox!Fail(m) \/ Outbox!Close(m) \/ Outbox!Retry(m)
               \/ Outbox!Resend(m) /\ StaffAction
         \/ \E lost \in SUBSET Messages : Outbox!LoseTrack(lost)
  <1>1. ASSUME NEW m \in Messages, Finishes(m)
        PROVE  \/ Outbox!Deliver(m) \/ Outbox!Fail(m)
               \/ \E lost \in SUBSET Messages : Outbox!LoseTrack(lost)
    BY <1>1 DEF Finishes
  <1>2. ASSUME NEW w \in Workers, NEW m \in Messages, HandOff(w, m)
        PROVE  Outbox!Submit(m)
    BY <1>2 DEF HandOff
  <1>3. ASSUME NEW m \in Messages,
               HandsOver(m) \/ StaffRetries(m) \/ StaffCancels(m) \/ Withdraw(m)
        PROVE  \/ UNCHANGED outbox
               \/ Outbox!HandOver(m) \/ Outbox!Close(m) \/ Outbox!Retry(m)
               \/ Outbox!Resend(m) /\ StaffAction
    BY <1>3 DEF HandsOver, StaffRetries, StaffCancels, Withdraw
  <1>4. ASSUME NEW lost \in SUBSET Messages, RecoveredStale(lost)
        PROVE  Outbox!LoseTrack(lost)
    BY <1>4 DEF RecoveredStale
  <1>5. \/ UNCHANGED outbox
        \/ \E w \in Workers, m \in Messages : HandOff(w, m)
        \/ \E m \in Messages :
              \/ Finishes(m) \/ HandsOver(m)
              \/ StaffRetries(m) \/ StaffCancels(m) \/ Withdraw(m)
        \/ \E lost \in SUBSET Messages : RecoveredStale(lost)
    BY DEF Next, WorkerStep, MessageStep, Dispatch, SetAside, Select, Skip, CountSkip,
           Complete, CrashWorker, HearOutcome, LoseOutcome, Callback, PayCount, vars
  <1> QED
    BY <1>1, <1>2, <1>3, <1>4, <1>5

(* Whatever the campaign, its runs, the handler and staff do, the outbox   *)
(* is asked for nothing its contract does not have: every step is one of   *)
(* DeliveryContract or leaves the outbox alone.                            *)
THEOREM CampaignContractTheorem == SafetySpec => Outbox!Spec
  <1>1. Init => Outbox!Init
    BY DEF Init
  <1>2. [Next]_vars => [Outbox!Next]_(Outbox!vars)
    BY OutboxStep DEF Outbox!Next, Outbox!Step, Outbox!vars, outbox
  <1> QED
    BY <1>1, <1>2, PTL DEF SafetySpec, Outbox!Spec

(* A hand-over uses the right up, and only staff grant another.            *)
Copies(m) ==
    /\ taken[m] + rights[m] <= 1 + staff
    /\ phase[m] = "absent" => taken[m] = 0

CopiesInv == \A m \in Messages : Copies(m)

LEMMA StaffGrows ==
  ASSUME TypeOK, [Next]_vars
  PROVE  staff' \in Nat /\ staff <= staff' /\ (StaffAction => staff' = staff + 1)
  <1>1. staff \in Nat
    BY DEF TypeOK
  <1>2. UNCHANGED staff \/ StaffAction
    BY DEF Next, WorkerStep, MessageStep, Dispatch, SetAside, Select, HandOff, Skip,
           CountSkip, Complete, CrashWorker, Finishes, HandsOver, StaffRetries,
           StaffCancels, Withdraw, HearOutcome, LoseOutcome, Callback, PayCount,
           RecoveredStale, notWorker, bounds, vars
  <1> QED
    BY <1>1, <1>2 DEF StaffAction

LEMMA CopiesStep == TypeOK /\ CopiesInv /\ [Next]_vars => CopiesInv'
  <1> SUFFICES ASSUME TypeOK, CopiesInv, [Next]_vars, NEW n \in Messages
               PROVE  Copies(n)'
    BY DEF CopiesInv
  <1>a. /\ rights \in [Messages -> Nat] /\ taken \in [Messages -> Nat]
        /\ phase \in [Messages -> Outbox!Phases] /\ staff \in Nat
    BY DEF TypeOK
  <1>b. Copies(n)
    BY DEF CopiesInv
  <1>c. phase'[n] = "absent" => phase[n] = "absent"
    BY PhaseStep
  <1>d. staff' \in Nat /\ staff <= staff' /\ (StaffAction => staff' = staff + 1)
    BY StaffGrows
  <1>1. CASE UNCHANGED <<rights, taken>>
    BY <1>1, <1>a, <1>b, <1>c, <1>d DEF Copies
  <1>2. ASSUME NEW m \in Messages, Outbox!HandOver(m)
        PROVE  Copies(n)'
    <2>1. CASE m = n
      <3>1. /\ rights[n] > 0 /\ rights'[n] = rights[n] - 1
            /\ taken'[n] = taken[n] + 1 /\ phase'[n] # "absent"
        BY <1>2, <1>a, <2>1 DEF Outbox!HandOver
      <3> QED
        BY <1>a, <1>b, <1>d, <3>1 DEF Copies
    <2>2. CASE m # n
      <3>1. rights'[n] = rights[n] /\ taken'[n] = taken[n]
        BY <1>2, <1>a, <2>2 DEF Outbox!HandOver
      <3> QED
        BY <1>a, <1>b, <1>c, <1>d, <3>1 DEF Copies
    <2> QED
      BY <2>1, <2>2
  <1>3. ASSUME NEW m \in Messages, Outbox!Resend(m), StaffAction
        PROVE  Copies(n)'
    <2>1. rights'[n] <= rights[n] + 1 /\ rights'[n] \in Nat /\ taken'[n] = taken[n]
      BY <1>3, <1>a DEF Outbox!Resend
    <2> QED
      BY <1>3, <1>a, <1>b, <1>c, <1>d, <2>1 DEF Copies
  <1> QED
    BY <1>1, <1>2, <1>3, OutboxStep
       DEF outbox, Outbox!Submit, Outbox!Deliver, Outbox!Fail, Outbox!Close,
           Outbox!Retry, Outbox!LoseTrack

(* A dispatch's message reaches its client at most once and once more per  *)
(* resend by staff, whatever sends stop and however often the campaign is  *)
(* cancelled and dispatched again; one that waits or was retired reached   *)
(* nobody.                                                                 *)
THEOREM OneCopyTheorem == SafetySpec => []OneCopyPerDispatch
  <1>1. Init => CopiesInv
    BY DEF Init, Outbox!Init, CopiesInv, Copies
  <1>2. TypeOK /\ CopiesInv /\ OwnedByOne => OneCopyPerDispatch
    <2> SUFFICES ASSUME TypeOK, CopiesInv, OwnedByOne, NEW m \in Messages
                 PROVE  /\ taken[m] <= 1 + staff
                        /\ msg[m] \in {"none", "queued", "superseded"} =>
                              taken[m] = 0
      BY DEF OneCopyPerDispatch
    <2>1. rights[m] \in Nat /\ taken[m] \in Nat /\ staff \in Nat
      BY DEF TypeOK
    <2>2. Copies(m)
      BY DEF CopiesInv
    <2>3. taken[m] <= 1 + staff
      BY <2>1, <2>2 DEF Copies
    <2> QED
      BY <2>2, <2>3 DEF Copies, OwnedByOne
  <1> QED
    BY <1>1, <1>2, CopiesStep, CampaignTyped, OwnedTheorem, PTL DEF SafetySpec

----------------------------------------------------------------------------
(* 'sent' and what follows it are only said of what the provider took *)

TakenInv ==
    /\ SentWasTaken
    /\ \A m \in Messages : <<m, "sent">> \in notices => taken[m] > 0

LEMMA TakenGrows ==
  ASSUME TypeOK, [Next]_vars, NEW n \in Messages, taken[n] > 0
  PROVE  taken'[n] > 0
  <1>a. taken \in [Messages -> Nat]
    BY DEF TypeOK
  <1>1. ASSUME NEW m \in Messages, Outbox!HandOver(m) PROVE taken'[n] > 0
    BY <1>1, <1>a DEF Outbox!HandOver
  <1>2. UNCHANGED taken \/ \E m \in Messages : Outbox!HandOver(m)
    BY DEF Next, WorkerStep, MessageStep, Dispatch, SetAside, Select, HandOff, Skip,
           CountSkip, Complete, CrashWorker, Finishes, HandsOver, StaffRetries,
           StaffCancels, Withdraw, HearOutcome, LoseOutcome, Callback, PayCount,
           RecoveredStale, outbox, vars, Outbox!Submit, Outbox!Deliver, Outbox!Fail,
           Outbox!Close, Outbox!Retry, Outbox!Resend, Outbox!LoseTrack
  <1> QED
    BY <1>1, <1>2

LEMMA SentNotices ==
  ASSUME TypeOK, [Next]_vars, NEW n \in Messages, <<n, "sent">> \in notices'
  PROVE  <<n, "sent">> \in notices \/ taken[n] > 0
  <1>1. ASSUME NEW m \in Messages, Finishes(m)
        PROVE  <<n, "sent">> \in notices \/ taken[n] > 0
    BY <1>1 DEF Finishes, Tell, Outbox!Deliver
  <1>2. ASSUME NEW m \in Messages, StaffCancels(m) \/ Withdraw(m)
        PROVE  <<n, "sent">> \in notices
    BY <1>2 DEF StaffCancels, Withdraw, Tell
  <1>3. ASSUME NEW m \in Messages, NEW o \in Outcomes,
               HearOutcome(m, o) \/ LoseOutcome(m, o)
        PROVE  <<n, "sent">> \in notices
    BY <1>3 DEF HearOutcome, LoseOutcome
  <1> QED
    BY <1>1, <1>2, <1>3
       DEF Next, WorkerStep, MessageStep, Dispatch, SetAside, Select, HandOff, Skip,
           CountSkip, Complete, CrashWorker, HandsOver, StaffRetries, Callback,
           PayCount, RecoveredStale, notWorker, vars

LEMMA TakenStep == TypeOK /\ TakenInv /\ [Next]_vars => TakenInv'
  <1> SUFFICES ASSUME TypeOK, TakenInv, [Next]_vars PROVE TakenInv'
    OBVIOUS
  <1>1. ASSUME NEW m \in Messages, msg'[m] \in Taken PROVE taken'[m] > 0
    <2>1. CASE Heard(m)
      <3>1. HearOutcome(m, "sent")
        BY <1>1, <2>1 DEF Heard, Outcomes, Taken
      <3>2. taken[m] > 0
        BY <3>1 DEF HearOutcome, TakenInv
      <3> QED
        BY <3>2, TakenGrows
    <2>2. Reported(m) => msg[m] \in Taken
      BY DEF Reported, DELIVERY_TRANSITIONS, Taken
    <2>3. Heard(m) \/ msg[m] \in Taken
      BY <1>1, <2>2, MsgStep
         DEF MsgMoves, Dispatched, Retired, HandedOff, Skipped, Taken
    <2> QED
      BY <2>1, <2>3, TakenGrows DEF TakenInv, SentWasTaken
  <1>2. ASSUME NEW m \in Messages, <<m, "sent">> \in notices' PROVE taken'[m] > 0
    BY <1>2, SentNotices, TakenGrows DEF TakenInv
  <1> QED
    BY <1>1, <1>2 DEF TakenInv, SentWasTaken

(* What the campaign records as sent, delivered, opened, bounced or        *)
(* rejected was taken by the provider, in whatever order the outcomes of a *)
(* resent or withdrawn message arrive (the handler's WHERE on the row).    *)
THEOREM SentWasTakenTheorem == SafetySpec => []SentWasTaken
  <1>1. Init => TakenInv
    BY DEF Init, TakenInv, SentWasTaken, Taken
  <1>2. TakenInv => SentWasTaken
    BY DEF TakenInv
  <1> QED
    BY <1>1, <1>2, TakenStep, CampaignTyped, PTL DEF SafetySpec

----------------------------------------------------------------------------
(* A completed campaign is over *)

LEMMA OverStep == TypeOK /\ SentIsOver /\ [Next]_vars => SentIsOver'
  <1> SUFFICES ASSUME TypeOK, SentIsOver, [Next]_vars, NEW m \in Messages,
                      campaign'.status = "sent", campaign'.recipients # {}
               PROVE  msg'[m] \notin Unsettled
    BY DEF SentIsOver
  <1>a. /\ campaign \in [status : {"draft", "sending", "sent", "failed",
                                   "cancelled", "deleted"},
                         recipients : SUBSET Clients]
        /\ msg \in [Messages -> MessageStates]
    BY DEF TypeOK
  <1>1. ASSUME NEW recipients \in SUBSET Clients, Dispatch(recipients) PROVE FALSE
    BY <1>1, <1>a DEF Dispatch
  <1>2. ASSUME NEW w \in Workers, Complete(w), UNCHANGED campaign
        PROVE  campaign.status = "sent" /\ campaign.recipients # {} /\ UNCHANGED msg
    BY <1>2 DEF Complete
  <1>3. ASSUME NEW w \in Workers, Complete(w), campaign' # campaign
        PROVE  ~Outstanding /\ UNCHANGED msg
    BY <1>3 DEF Complete
  <1>4. CASE UNCHANGED campaign
    <2>1. msg[m] \notin Unsettled
      BY <1>4 DEF SentIsOver
    <2> QED
      BY <1>1, <2>1, MsgStep
         DEF MsgMoves, Dispatched, Retired, HandedOff, Skipped, Heard, Reported,
             Outcomes, DELIVERY_TRANSITIONS, Unsettled
  <1>5. CASE campaign' # campaign
    <2>1. \E w \in Workers : Complete(w)
      <3>1. ASSUME NEW status \in {"cancelled", "deleted"}, SetAside(status)
            PROVE  FALSE
        BY <3>1, <1>a DEF SetAside
      <3> QED
        BY <1>1, <1>5, <3>1
           DEF Next, WorkerStep, MessageStep, Select, HandOff, Skip,
               CountSkip, CrashWorker, Finishes, HandsOver, StaffRetries,
               StaffCancels, Withdraw, HearOutcome, LoseOutcome, Callback,
               PayCount, RecoveredStale, notOutbox, vars
    <2> QED
      BY <1>3, <1>5, <2>1 DEF Outstanding
  <1> QED
    BY <1>4, <1>5

(* A campaign completed with recipients has nothing left that could still  *)
(* go out or come back, also from earlier dispatches (the completing       *)
(* UPDATE's NOT EXISTS).                                                   *)
THEOREM SentIsOverTheorem == SafetySpec => []SentIsOver
  <1>1. Init => SentIsOver
    BY DEF Init, SentIsOver
  <1> QED
    BY <1>1, OverStep, CampaignTyped, PTL DEF SafetySpec

----------------------------------------------------------------------------
(* Counting.  How one message, what it has added to the counters and what  *)
(* is still to be added may move in one step.                              *)

Counting(w, m) == worker[w].pc = "count" /\ m \in worker[w].cur

TallyStays(n) == \A c \in Counters : tally'[<<n, c>>] = tally[<<n, c>>]

OwedStays(n) == \A c \in Counters : <<n, c>> \in owed' <=> <<n, c>> \in owed

CountingStays(n) ==
    \A w \in Workers :
       /\ Counting(w, n)' => Counting(w, n)
       /\ Counting(w, n) => Counting(w, n)' \/ faults' > 0

AddsOne(n, counter) ==
    \A c \in Counters :
       tally'[<<n, c>>] = IF c = counter THEN tally[<<n, c>>] + 1
                                         ELSE tally[<<n, c>>]

Rests(n) ==
    msg'[n] = msg[n] /\ TallyStays(n) /\ OwedStays(n) /\ CountingStays(n)

Waits(n) ==
    /\ msg[n] \in {"none", "queued"}
    /\ msg'[n] \in {"queued", "superseded", "handed_off"}
    /\ TallyStays(n) /\ OwedStays(n) /\ CountingStays(n)

Refused(n) ==
    /\ msg[n] = "queued" /\ msg'[n] = "failed"
    /\ AddsOne(n, "failed") /\ OwedStays(n) /\ CountingStays(n)

SkipBegins(w, n) ==
    /\ msg[n] = "queued" /\ msg'[n] = "failed"
    /\ TallyStays(n) /\ OwedStays(n)
    /\ worker'[w].pc = "count" /\ worker'[w].cur = {n}
    /\ \A v \in Workers \ {w} : worker'[v] = worker[v]

SkipCounted(w, n) ==
    /\ msg'[n] = msg[n] /\ Counting(w, n)
    /\ AddsOne(n, "failed") /\ OwedStays(n)
    /\ worker'[w].pc = "loop"
    /\ \A v \in Workers \ {w} : worker'[v] = worker[v]

Owes(n, counter) ==
    /\ \/ /\ msg[n] = "handed_off" /\ msg'[n] \in Outcomes
          /\ counter = IF msg'[n] = "sent" THEN "sent" ELSE "failed"
       \/ /\ msg'[n] \in DELIVERY_TRANSITIONS(msg[n])
          /\ counter = CallbackCounter(msg'[n])
    /\ TallyStays(n) /\ CountingStays(n)
    /\ \A c \in Counters :
          <<n, c>> \in owed' <=> <<n, c>> \in owed \/ c = counter

Pays(n, counter) ==
    /\ msg'[n] = msg[n] /\ <<n, counter>> \in owed
    /\ \A c \in Counters :
          <<n, c>> \in owed' <=> <<n, c>> \in owed /\ c # counter
    /\ AddsOne(n, counter) \/ (TallyStays(n) /\ faults' > 0)
    /\ CountingStays(n)

CountMoves(n) ==
    \/ Rests(n) \/ Waits(n) \/ Refused(n)
    \/ \E w \in Workers : SkipBegins(w, n) \/ SkipCounted(w, n)
    \/ \E c \in Counters : Owes(n, c) \/ Pays(n, c)

(* The pieces of state the moves are made of.                              *)
LEMMA CountEffect ==
  ASSUME tally \in [Messages \X Counters -> Nat],
         NEW m \in Messages, NEW counter \in Counters, Count(m, counter),
         NEW n \in Messages
  PROVE  /\ m = n => AddsOne(n, counter)
         /\ m # n => TallyStays(n)
  BY DEF Count, AddsOne, TallyStays

LEMMA WorkersRest ==
  ASSUME UNCHANGED worker, NEW n
  PROVE  CountingStays(n)
  BY DEF CountingStays, Counting

(* A run counts one message at a time.                                     *)
Single ==
    \A w \in Workers :
       worker[w].pc = "count" => \E m \in Messages : worker[w].cur = {m}

LEMMA SingleStep == TypeOK /\ Single /\ [Next]_vars => Single'
  <1> SUFFICES ASSUME TypeOK, Single, [Next]_vars, NEW v \in Workers,
                      worker'[v].pc = "count"
               PROVE  \E m \in Messages : worker'[v].cur = {m}
    BY DEF Single
  <1>a. worker \in [Workers -> WorkerStates]
    BY DEF TypeOK, WorkerStates
  <1>0. worker'[v] = worker[v] => \E m \in Messages : worker'[v].cur = {m}
    BY DEF Single
  <1>1. ASSUME NEW w \in Workers, NEW m \in Messages, Skip(w, m)
        PROVE  \E n \in Messages : worker'[v].cur = {n}
    <2>1. CASE v = w
      BY <1>1, <1>a, <2>1 DEF Skip, Takes, WorkerStates
    <2>2. CASE v # w
      BY <1>1, <1>a, <1>0, <2>2 DEF Skip
    <2> QED
      BY <2>1, <2>2
  <1>2. ASSUME NEW w \in Workers, NEW m \in Messages, HandOff(w, m)
        PROVE  \E n \in Messages : worker'[v].cur = {n}
    BY <1>2, <1>a, <1>0 DEF HandOff, Takes, WorkerStates
  <1>3. ASSUME NEW w \in Workers,
               Select(w) \/ CountSkip(w) \/ Complete(w) \/ CrashWorker(w)
        PROVE  worker'[v] = worker[v]
    BY <1>3, <1>a DEF Select, CountSkip, Complete, CrashWorker, IdleWorker, WorkerStates
  <1> QED
    BY <1>0, <1>1, <1>2, <1>3
       DEF Next, WorkerStep, MessageStep, Dispatch, SetAside, Finishes, HandsOver,
           StaffRetries, StaffCancels, Withdraw, HearOutcome, LoseOutcome, Callback,
           PayCount, RecoveredStale, notOutbox, vars

LEMMA CountStep ==
  ASSUME TypeOK, Numbered, Single, [Next]_vars, NEW n \in Messages
  PROVE  CountMoves(n)
  <1>a. /\ msg \in [Messages -> MessageStates]
        /\ tally \in [Messages \X Counters -> Nat]
        /\ worker \in [Workers -> WorkerStates]
    BY DEF TypeOK, WorkerStates
  <1>b. faults \in Nat
    BY DEF TypeOK
  <1>0. UNCHANGED <<msg, tally, owed>> /\ CountingStays(n) => CountMoves(n)
    BY DEF CountMoves, Rests, TallyStays, OwedStays
  <1>1. ASSUME NEW recipients \in SUBSET Clients, Dispatch(recipients)
        PROVE  CountMoves(n)
    <2>1. /\ TallyStays(n) /\ OwedStays(n) /\ CountingStays(n)
      BY <1>1, WorkersRest DEF Dispatch, TallyStays, OwedStays
    <2>2. \/ msg'[n] = msg[n]
          \/ msg'[n] = "queued" /\ n[2] = dispatches + 1
          \/ msg'[n] = "superseded" /\ msg[n] = "queued"
      BY <1>1 DEF Dispatch, Superseded
    <2>3. n[2] = dispatches + 1 => msg[n] = "none"
      BY CampaignAssumption DEF Numbered, TypeOK, Messages
    <2> QED
      BY <2>1, <2>2, <2>3 DEF CountMoves, Rests, Waits
  <1>2. ASSUME NEW w \in Workers, NEW m \in Messages, HandOff(w, m)
        PROVE  CountMoves(n)
    <2>1. CountingStays(n)
      BY <1>2, <1>a DEF HandOff, Takes, CountingStays, Counting, WorkerStates
    <2>2. OwedStays(n)
      BY <1>2 DEF HandOff, notWorker, OwedStays
    <2>3. CASE phase'[m] = "pending"
      <3>1. TallyStays(n)
        BY <1>2, <2>3 DEF HandOff, TallyStays
      <3>2. msg' = [msg EXCEPT ![m] = "handed_off"] /\ msg[m] = "queued"
        BY <1>2, <2>3 DEF HandOff
      <3> QED
        BY <1>a, <2>1, <2>2, <3>1, <3>2 DEF CountMoves, Rests, Waits
    <2>4. CASE phase'[m] # "pending"
      <3>1. Count(m, "failed") /\ "failed" \in Counters
        BY <1>2, <2>4 DEF HandOff, Counters
      <3>2. msg' = [msg EXCEPT ![m] = "failed"] /\ msg[m] = "queued"
        BY <1>2, <2>4 DEF HandOff
      <3> QED
        BY <1>a, <2>1, <2>2, <3>1, <3>2, CountEffect DEF CountMoves, Rests, Refused
    <2> QED
      BY <2>3, <2>4
  <1>3. ASSUME NEW w \in Workers, NEW m \in Messages, Skip(w, m)
        PROVE  CountMoves(n)
    <2>1. TallyStays(n) /\ OwedStays(n)
      BY <1>3 DEF Skip, notWorker, TallyStays, OwedStays
    <2>2. CASE msg[m] = "queued" /\ m = n
      <3>1. msg[n] = "queued" /\ msg'[n] = "failed"
        BY <1>3, <1>a, <2>2 DEF Skip
      <3>2. /\ worker'[w].pc = "count" /\ worker'[w].cur = {n}
            /\ \A v \in Workers \ {w} : worker'[v] = worker[v]
        BY <1>3, <1>a, <2>2 DEF Skip
      <3>3. SkipBegins(w, n)
        BY <2>1, <3>1, <3>2 DEF SkipBegins
      <3> QED
        BY <3>3 DEF CountMoves
    <2>3. CASE msg[m] = "queued" /\ m # n
      <3>1. CountingStays(n)
        BY <1>3, <1>a, <2>3 DEF Skip, Takes, CountingStays, Counting, WorkerStates
      <3>2. msg'[n] = msg[n]
        BY <1>3, <1>a, <2>3 DEF Skip
      <3> QED
        BY <2>1, <3>1, <3>2 DEF CountMoves, Rests
    <2>4. CASE msg[m] # "queued"
      <3>1. CountingStays(n)
        BY <1>3, <1>a, <2>4 DEF Skip, Takes, CountingStays, Counting, WorkerStates
      <3>2. msg' = msg
        BY <1>3, <2>4 DEF Skip
      <3> QED
        BY <2>1, <3>1, <3>2 DEF CountMoves, Rests
    <2> QED
      BY <2>2, <2>3, <2>4
  <1>4. ASSUME NEW w \in Workers, CountSkip(w) PROVE CountMoves(n)
    <2>1. PICK m \in Messages : worker[w].cur = {m}
      BY <1>4 DEF CountSkip, Single
    <2>2. /\ Count(m, "failed") /\ "failed" \in Counters
          /\ worker' = [worker EXCEPT ![w].pc = "loop", ![w].cur = {}]
          /\ UNCHANGED <<msg, owed>>
      BY <1>4, <2>1 DEF CountSkip, Counters, notWorker
    <2>3. OwedStays(n)
      BY <2>2 DEF OwedStays
    <2>4. /\ worker'[w].pc = "loop"
          /\ \A v \in Workers \ {w} : worker'[v] = worker[v]
      BY <1>a, <2>2 DEF WorkerStates
    <2>5. CASE m = n
      <3>1. AddsOne(n, "failed")
        BY <1>a, <2>2, <2>5, CountEffect
      <3>2. Counting(w, n)
        BY <1>4, <2>1, <2>5 DEF CountSkip, Counting
      <3>3. SkipCounted(w, n)
        BY <2>2, <2>3, <2>4, <3>1, <3>2 DEF SkipCounted
      <3> QED
        BY <3>3 DEF CountMoves
    <2>6. CASE m # n
      <3>1. TallyStays(n)
        BY <1>a, <2>2, <2>6, CountEffect
      <3>2. CountingStays(n)
        BY <2>1, <2>4, <2>6 DEF CountingStays, Counting
      <3> QED
        BY <2>2, <2>3, <3>1, <3>2 DEF CountMoves, Rests
    <2> QED
      BY <2>5, <2>6
  <1>5. ASSUME NEW w \in Workers, Select(w) \/ Complete(w) PROVE CountMoves(n)
    <2>1. CountingStays(n)
      BY <1>5, <1>a
         DEF Select, Complete, IdleWorker, CountingStays, Counting, WorkerStates
    <2> QED
      BY <1>0, <1>5, <2>1 DEF Select, Complete, notWorker
  <1>6. ASSUME NEW w \in Workers, CrashWorker(w) PROVE CountMoves(n)
    <2>1. faults' > 0
      BY <1>6, <1>b DEF CrashWorker, Fault
    <2>2. CountingStays(n)
      BY <1>6, <1>a, <2>1 DEF CrashWorker, IdleWorker, CountingStays, Counting
    <2> QED
      BY <1>0, <1>6, <2>2 DEF CrashWorker, notWorker
  <1>7. ASSUME NEW m \in Messages, NEW o \in Outcomes, HearOutcome(m, o)
        PROVE  CountMoves(n)
    <2>1. TallyStays(n) /\ CountingStays(n)
      BY <1>7, WorkersRest DEF HearOutcome, TallyStays
    <2>2. CASE m = n /\ msg[n] = "handed_off"
      <3> DEFINE c == IF o = "sent" THEN "sent" ELSE "failed"
      <3>1. msg'[n] = o /\ owed' = owed \cup {<<n, c>>}
        BY <1>7, <1>a, <2>2 DEF HearOutcome
      <3>2. Owes(n, c)
        BY <2>1, <2>2, <3>1 DEF Owes
      <3>3. c \in Counters
        BY DEF Counters
      <3> QED
        BY <3>2, <3>3 DEF CountMoves
    <2>3. CASE ~(m = n /\ msg[n] = "handed_off")
      <3>1. msg'[n] = msg[n] /\ OwedStays(n)
        BY <1>7, <1>a, <2>3 DEF HearOutcome, OwedStays
      <3> QED
        BY <2>1, <3>1 DEF CountMoves, Rests
    <2> QED
      BY <2>2, <2>3
  <1>8. ASSUME NEW m \in Messages, NEW to \in Reports, Callback(m, to)
        PROVE  CountMoves(n)
    <2>1. TallyStays(n) /\ CountingStays(n)
      BY <1>8, WorkersRest DEF Callback, TallyStays
    <2>2. CASE m = n
      <3> DEFINE c == CallbackCounter(to)
      <3>1. /\ msg'[n] = to /\ to \in DELIVERY_TRANSITIONS(msg[n])
            /\ owed' = owed \cup {<<n, c>>}
        BY <1>8, <1>a, <2>2 DEF Callback
      <3>2. Owes(n, c)
        BY <2>1, <3>1 DEF Owes
      <3>3. c \in Counters
        BY CampaignAssumption DEF Counters, CallbackCounter
      <3> QED
        BY <3>2, <3>3 DEF CountMoves
    <2>3. CASE m # n
      <3>1. msg'[n] = msg[n] /\ OwedStays(n)
        BY <1>8, <1>a, <2>3 DEF Callback, OwedStays
      <3> QED
        BY <2>1, <3>1 DEF CountMoves, Rests
    <2> QED
      BY <2>2, <2>3
  <1>9. ASSUME NEW m \in Messages, NEW c \in Counters, PayCount(<<m, c>>)
        PROVE  CountMoves(n)
    <2>1. CountingStays(n) /\ msg'[n] = msg[n]
      BY <1>9, WorkersRest DEF PayCount
    <2>2. owed' = owed \ {<<m, c>>} /\ <<m, c>> \in owed
      BY <1>9 DEF PayCount
    <2>3. Count(m, c) \/ (UNCHANGED tally /\ faults' > 0)
      BY <1>9, <1>b DEF PayCount, Fault
    <2>4. CASE m = n
      <3>1. AddsOne(n, c) \/ (TallyStays(n) /\ faults' > 0)
        BY <1>a, <2>3, <2>4, CountEffect DEF TallyStays
      <3>2. Pays(n, c)
        BY <2>1, <2>2, <2>4, <3>1 DEF Pays
      <3> QED
        BY <3>2 DEF CountMoves
    <2>5. CASE m # n
      <3>1. TallyStays(n)
        BY <1>a, <2>3, <2>5, CountEffect DEF TallyStays
      <3>2. OwedStays(n)
        BY <2>2, <2>5 DEF OwedStays
      <3> QED
        BY <2>1, <3>1, <3>2 DEF CountMoves, Rests
    <2> QED
      BY <2>4, <2>5
  <1>10. CASE UNCHANGED <<msg, tally, owed, worker>>
    BY <1>0, <1>10, WorkersRest
  <1> QED
    BY <1>1, <1>2, <1>3, <1>4, <1>5, <1>6, <1>7, <1>8, <1>9, <1>10
       DEF Next, WorkerStep, MessageStep, SetAside, Finishes, HandsOver,
           StaffRetries, StaffCancels, Withdraw, LoseOutcome, RecoveredStale,
           notOutbox, vars

(* The counters a row in each state may have added to or still owe: with   *)
(* the ones of the states it came through.                                 *)
MayCount(s) ==
    CASE s \in {"failed", "unknown"} -> {"failed"}
      [] s = "rejected" -> {"sent", "failed"}
      [] s = "sent" -> {"sent"}
      [] s = "delivered" -> {"sent", "delivered"}
      [] s \in {"opened", "bounced"} -> {"sent", "delivered", s}
      [] OTHER -> {}

Counted(m) ==
    /\ \A c \in Counters :
          /\ tally[<<m, c>>] <= 1
          /\ tally[<<m, c>>] > 0 \/ <<m, c>> \in owed => c \in MayCount(msg[m])
          /\ <<m, c>> \in owed => tally[<<m, c>>] = 0
    /\ \A w \in Workers :
          Counting(w, m) =>
             /\ msg[m] = "failed" /\ tally[<<m, "failed">>] = 0
             /\ <<m, "failed">> \notin owed
             /\ \A v \in Workers : Counting(v, m) => v = w

CountInv == \A m \in Messages : Counted(m)

(* Nothing is counted in its new state before it gets there.               *)
LEMMA NewCounter ==
  ASSUME NEW s \in MessageStates, NEW t \in DELIVERY_TRANSITIONS(s)
  PROVE  /\ CallbackCounter(t) \notin MayCount(s)
         /\ MayCount(t) = MayCount(s) \cup {CallbackCounter(t)}
            \/ (t = "opened" /\ s = "sent") \/ (t = "bounced" /\ s = "sent")
         /\ MayCount(s) \subseteq MayCount(t)
         /\ CallbackCounter(t) \in MayCount(t)
         /\ s # "failed"
  BY DEF DELIVERY_TRANSITIONS, CallbackCounter, MayCount

LEMMA CountedStep ==
  ASSUME TypeOK, Numbered, Single, CountInv, [Next]_vars, NEW n \in Messages
  PROVE  Counted(n)'
  <1>a. /\ tally \in [Messages \X Counters -> Nat]
        /\ msg[n] \in MessageStates
    BY DEF TypeOK
  <1>b. Counted(n) /\ "failed" \in Counters
    BY DEF CountInv, Counters
  <1>c. \A c \in Counters : tally[<<n, c>>] \in Nat
    BY <1>a
  <1>1. CASE Rests(n)
    BY <1>1, <1>b DEF Counted, Rests, TallyStays, OwedStays, CountingStays
  <1>2. CASE Waits(n)
    <2>1. \A c \in Counters : tally[<<n, c>>] = 0 /\ <<n, c>> \notin owed
      BY <1>2, <1>b, <1>c DEF Waits, Counted, MayCount
    <2>2. \A w \in Workers : ~Counting(w, n)
      BY <1>2, <1>b DEF Waits, Counted
    <2> QED
      BY <1>2, <2>1, <2>2 DEF Waits, Counted, TallyStays, OwedStays, CountingStays
  <1>3. CASE Refused(n)
    <2>1. \A c \in Counters : tally[<<n, c>>] = 0 /\ <<n, c>> \notin owed
      BY <1>3, <1>b, <1>c DEF Refused, Counted, MayCount
    <2>2. \A w \in Workers : ~Counting(w, n)
      BY <1>3, <1>b DEF Refused, Counted
    <2>3. \A c \in Counters : /\ tally'[<<n, c>>] = IF c = "failed" THEN 1 ELSE 0
                              /\ <<n, c>> \notin owed'
      BY <1>3, <2>1 DEF Refused, AddsOne, OwedStays
    <2>4. MayCount(msg'[n]) = {"failed"}
      BY <1>3 DEF Refused, MayCount
    <2>5. \A w \in Workers : ~Counting(w, n)'
      BY <1>3, <2>2 DEF Refused, CountingStays
    <2> QED
      BY <2>3, <2>4, <2>5 DEF Counted
  <1>4. ASSUME NEW w \in Workers, SkipBegins(w, n) PROVE Counted(n)'
    <2>1. \A c \in Counters : tally[<<n, c>>] = 0 /\ <<n, c>> \notin owed
      BY <1>4, <1>b, <1>c DEF SkipBegins, Counted, MayCount
    <2>2. \A v \in Workers : ~Counting(v, n)
      BY <1>4, <1>b DEF SkipBegins, Counted
    <2>3. \A c \in Counters : tally'[<<n, c>>] = 0 /\ <<n, c>> \notin owed'
      BY <1>4, <2>1 DEF SkipBegins, TallyStays, OwedStays
    <2>4. \A v \in Workers : Counting(v, n)' => v = w
      BY <1>4, <2>2 DEF SkipBegins, Counting
    <2> QED
      BY <1>4, <1>b, <2>3, <2>4 DEF Counted, SkipBegins
  <1>5. ASSUME NEW w \in Workers, SkipCounted(w, n) PROVE Counted(n)'
    <2>1. /\ msg[n] = "failed" /\ tally[<<n, "failed">>] = 0
          /\ <<n, "failed">> \notin owed
          /\ \A v \in Workers : Counting(v, n) => v = w
      BY <1>5, <1>b DEF SkipCounted, Counted
    <2>2. \A v \in Workers : ~Counting(v, n)'
      BY <1>5, <2>1 DEF SkipCounted, Counting
    <2>3. \A c \in Counters :
             /\ <<n, c>> \in owed' <=> <<n, c>> \in owed
             /\ tally'[<<n, c>>] = IF c = "failed" THEN 1 ELSE tally[<<n, c>>]
      BY <1>5, <2>1 DEF SkipCounted, AddsOne, OwedStays
    <2>4. "failed" \in MayCount(msg'[n])
      BY <1>5, <2>1 DEF SkipCounted, MayCount
    <2> QED
      BY <1>5, <1>b, <2>1, <2>2, <2>3, <2>4 DEF Counted, SkipCounted
  <1>6. ASSUME NEW k \in Counters, Owes(n, k) PROVE Counted(n)'
    <2>1. /\ k \notin MayCount(msg[n]) /\ MayCount(msg[n]) \subseteq MayCount(msg'[n])
          /\ k \in MayCount(msg'[n]) /\ msg[n] # "failed"
      <3>1. CASE msg[n] = "handed_off"
        <4>1. msg'[n] \notin DELIVERY_TRANSITIONS(msg[n])
          BY <3>1 DEF DELIVERY_TRANSITIONS
        <4> QED
          BY <1>6, <3>1, <4>1 DEF Owes, MayCount, Outcomes
      <3>2. CASE msg[n] # "handed_off"
        BY <1>6, <1>a, <3>2, NewCounter DEF Owes
      <3> QED
        BY <3>1, <3>2
    <2>2. tally[<<n, k>>] = 0 /\ <<n, k>> \notin owed
      BY <1>b, <1>c, <2>1 DEF Counted
    <2>3. \A w \in Workers : ~Counting(w, n)
      BY <1>b, <2>1 DEF Counted
    <2>4. \A w \in Workers : ~Counting(w, n)'
      BY <1>6, <2>3 DEF Owes, CountingStays
    <2>5. \A c \in Counters :
             /\ <<n, c>> \in owed' <=> <<n, c>> \in owed \/ c = k
             /\ tally'[<<n, c>>] = tally[<<n, c>>]
      BY <1>6 DEF Owes, TallyStays
    <2> QED
      BY <1>b, <2>1, <2>2, <2>4, <2>5 DEF Counted
  <1>7. ASSUME NEW k \in Counters, Pays(n, k) PROVE Counted(n)'
    <2>1. tally[<<n, k>>] = 0 /\ k \in MayCount(msg[n])
      BY <1>7, <1>b DEF Pays, Counted
    <2>2. /\ \A c \in Counters :
                <<n, c>> \in owed' <=> <<n, c>> \in owed /\ c # k
          /\ msg'[n] = msg[n]
      BY <1>7 DEF Pays
    <2>3. \A c \in Counters :
             \/ tally'[<<n, c>>] = tally[<<n, c>>]
             \/ c = k /\ tally'[<<n, c>>] = 1
      BY <1>7, <2>1 DEF Pays, AddsOne, TallyStays
    <2>4. \A w \in Workers : Counting(w, n)' => Counting(w, n)
      BY <1>7 DEF Pays, CountingStays
    <2>5. \A w \in Workers : Counting(w, n) => k # "failed"
      BY <1>7, <1>b DEF Pays, Counted
    <2> QED
      BY <1>b, <2>1, <2>2, <2>3, <2>4, <2>5 DEF Counted
  <1> QED
    BY <1>1, <1>2, <1>3, <1>4, <1>5, <1>6, <1>7, CountStep DEF CountMoves

LEMMA CountTheorem == SafetySpec => [](TypeOK /\ Numbered /\ Single /\ CountInv)
  <1>1. Init => Single /\ CountInv
    BY DEF Init, Single, IdleWorker, CountInv, Counted, Counting
  <1>2. TypeOK /\ Numbered /\ Single /\ CountInv /\ [Next]_vars => CountInv'
    BY CountedStep DEF CountInv
  <1> QED
    BY <1>1, <1>2, SingleStep, NumberedTheorem, PTL DEF SafetySpec

(* Every message is counted at most once per counter and only as its state *)
(* says: neither a replayed or late outcome, nor a competing run, nor a    *)
(* provider callback, nor a redispatch counts it again.                    *)
THEOREM CountedOnceTheorem == SafetySpec => []CountedOnce
  <1>1. TypeOK /\ CountInv => CountedOnce
    <2> SUFFICES ASSUME TypeOK, CountInv, NEW m \in Messages, NEW c \in Counters
                 PROVE  /\ tally[<<m, c>>] <= 1
                        /\ tally[<<m, c>>] = 1 /\ c \in {"sent", "failed"} =>
                              c \in CountedAs(msg[m])
                        /\ <<m, c>> \in owed => tally[<<m, c>>] = 0
      BY DEF CountedOnce
    <2>1. c \in MayCount(msg[m]) /\ c \in {"sent", "failed"} => c \in CountedAs(msg[m])
      BY DEF MayCount, CountedAs, Taken, TypeOK
    <2>2. tally[<<m, c>>] \in Nat
      BY DEF TypeOK
    <2>3. /\ tally[<<m, c>>] <= 1
          /\ tally[<<m, c>>] > 0 => c \in MayCount(msg[m])
          /\ <<m, c>> \in owed => tally[<<m, c>>] = 0
      BY DEF CountInv, Counted
    <2> QED
      BY <2>1, <2>2, <2>3
  <1> QED
    BY <1>1, CountTheorem, PTL

LEMMA FailedCounts == CountedAs("failed") = {"failed"}
  BY DEF CountedAs, Taken

LEMMA CountedAllStep ==
  TypeOK /\ Numbered /\ Single /\ CountInv /\ CountInv' /\ CountedAll /\ [Next]_vars
      => CountedAll'
  <1> SUFFICES ASSUME TypeOK, Numbered, Single, CountInv, CountInv', CountedAll,
                      [Next]_vars, faults' = 0, NEW n \in Messages,
                      NEW c \in CountedAs(msg'[n])
               PROVE  \/ tally'[<<n, c>>] = 1
                      \/ <<n, c>> \in owed'
                      \/ \E w \in Workers : Counting(w, n)'
    BY DEF CountedAll, Counting
  <1>a. faults = 0
    <2>1. faults \in Nat
      BY DEF TypeOK
    <2>2. UNCHANGED faults \/ faults' = faults + 1
      BY DEF Next, WorkerStep, MessageStep, Dispatch, SetAside, Select, HandOff, Skip,
             CountSkip, Complete, CrashWorker, Finishes, HandsOver, StaffRetries,
             StaffCancels, Withdraw, HearOutcome, LoseOutcome, Callback, PayCount,
             RecoveredStale, bounds, vars, Fault
    <2> QED
      BY <2>1, <2>2
  <1>b. c \in Counters
    BY DEF CountedAs, Taken, Counters
  <1>c. tally[<<n, c>>] \in Nat /\ msg[n] \in MessageStates
    BY <1>b DEF TypeOK
  <1>d. c \in CountedAs(msg[n]) =>
           \/ tally[<<n, c>>] = 1 \/ <<n, c>> \in owed
           \/ \E w \in Workers : Counting(w, n)
    BY <1>a DEF CountedAll, Counting
  <1>e. tally'[<<n, c>>] <= 1
    BY <1>b DEF CountInv, Counted
  <1>1. CASE Rests(n)
    BY <1>1, <1>b, <1>d DEF Rests, TallyStays, OwedStays, CountingStays
  <1>2. CASE Waits(n)
    BY <1>2 DEF Waits, CountedAs, Taken
  <1>3. CASE Refused(n)
    <2>1. c = "failed"
      BY <1>3, FailedCounts DEF Refused
    <2>2. tally'[<<n, c>>] = tally[<<n, c>>] + 1
      BY <1>3, <1>b, <2>1 DEF Refused, AddsOne
    <2> QED
      BY <1>c, <1>e, <2>2
  <1>4. ASSUME NEW w \in Workers, SkipBegins(w, n)
        PROVE  Counting(w, n)'
    BY <1>4 DEF SkipBegins, Counting
  <1>5. ASSUME NEW w \in Workers, SkipCounted(w, n)
        PROVE  tally'[<<n, c>>] = 1
    <2>1. msg[n] = "failed" /\ tally[<<n, "failed">>] = 0
      BY <1>5 DEF SkipCounted, CountInv, Counted
    <2>2. c = "failed"
      BY <1>5, <2>1, FailedCounts DEF SkipCounted
    <2> QED
      BY <1>5, <1>b, <2>1, <2>2 DEF SkipCounted, AddsOne
  <1>6. ASSUME NEW k \in Counters, Owes(n, k)
        PROVE  \/ tally'[<<n, c>>] = 1 \/ <<n, c>> \in owed'
               \/ \E w \in Workers : Counting(w, n)'
    <2>1. CASE c = k
      BY <1>6, <2>1 DEF Owes
    <2>2. CASE c # k
      <3>1. c \in CountedAs(msg[n])
        BY <1>6, <1>c, <2>2 DEF Owes, CountedAs, Taken, Outcomes, CallbackCounter,
                                DELIVERY_TRANSITIONS
      <3> QED
        BY <1>6, <1>b, <1>d, <3>1 DEF Owes, TallyStays, CountingStays
    <2> QED
      BY <2>1, <2>2
  <1>7. ASSUME NEW k \in Counters, Pays(n, k)
        PROVE  \/ tally'[<<n, c>>] = 1 \/ <<n, c>> \in owed'
               \/ \E w \in Workers : Counting(w, n)'
    <2>1. AddsOne(n, k) /\ msg'[n] = msg[n]
      BY <1>7 DEF Pays
    <2>2. CASE c = k
      BY <1>c, <1>e, <1>b, <2>1, <2>2 DEF AddsOne
    <2>3. CASE c # k
      BY <1>7, <1>b, <1>d, <2>1, <2>3 DEF AddsOne, Pays, CountingStays
    <2> QED
      BY <2>2, <2>3
  <1> QED
    BY <1>1, <1>2, <1>3, <1>4, <1>5, <1>6, <1>7, CountStep DEF CountMoves

(* Without a stopped process or a lost outcome, nothing that ended is left *)
(* out of the counters, but for the moment between the two statements.     *)
THEOREM CountedAllTheorem == SafetySpec => []CountedAll
  <1>1. Init => CountedAll
    BY DEF Init, CountedAll, CountedAs, Taken
  <1> QED
    BY <1>1, CountedAllStep, CountTheorem, PTL DEF SafetySpec

=============================================================================
