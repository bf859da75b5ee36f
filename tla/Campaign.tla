------------------------------ MODULE Campaign ------------------------------
(***************************************************************************)
(* One marketing campaign (src/src/services/campaignService.js): dispatch, *)
(* the campaign_send task that hands its messages to the outbox, the       *)
(* outcome handler that hears back (outboxOutcomeHandlers.js), provider    *)
(* callbacks, and cancelling or deleting it (routes/                       *)
(* communicationCampaigns.js).  The outbox itself is DeliveryContract,     *)
(* which MessageOutbox implements: this module is about what a producer    *)
(* can make of that promise.                                               *)
(*                                                                         *)
(* Statements are transactions of their own except in dispatch and in the  *)
(* hand-off, which are one transaction each.                               *)
(***************************************************************************)
EXTENDS Integers, FiniteSets

CONSTANTS
    Clients,        \* who may receive the campaign
    Manual,         \* runs of campaign_send that staff start by hand
    Reports,        \* what provider callbacks report of a sent message
    MaxDispatches,  \* bound: dispatches of the campaign
    MaxIncidents    \* bound: faults (stopped processes, outcomes nobody
                    \* hears) and staff actions (manual runs, actions on
                    \* the outbox), in all

ASSUME CampaignAssumption ==
    /\ IsFiniteSet(Clients)
    /\ Reports \subseteq {"delivered", "opened", "bounced", "rejected"}
    /\ MaxDispatches \in Nat /\ MaxIncidents \in Nat

(* A campaign_messages row: the client and the dispatch that inserted it.  *)
Messages == Clients \X (1 .. MaxDispatches)

Workers == Manual \cup {"scheduled"}

VARIABLES
    campaign,   \* communication_campaigns: status and how many recipients
    msg,        \* campaign_messages: status with its error_message
    tally,      \* what each message has added to the campaign's counters
    owed,       \* counter updates of the handlers not made yet
    worker,     \* campaign_send runs: position, batch and current message
    withdrawal, \* messages a cancelled campaign may still withdraw
    notices,    \* outcomes the outbox is about to tell the handler
    dispatches, \* dispatches so far
    staff,      \* staff actions so far
    unheard,    \* history: messages whose outcome was never told
    faults,     \* faults so far
    phase, rights, taken    \* the outbox, as DeliveryContract

outbox == <<phase, rights, taken>>
bounds == <<dispatches, staff, unheard, faults>>
vars == <<campaign, msg, tally, owed, worker, withdrawal, notices, bounds, outbox>>

Outbox == INSTANCE DeliveryContract WITH AtMostOnce <- Messages

----------------------------------------------------------------------------
(* Values.  "handed_off", "unknown" and "superseded" are 'failed' rows told *)
(* apart by error_message; "rejected" is one a provider callback failed.   *)

Unsettled == {"queued", "handed_off"}
Taken == {"sent", "delivered", "opened", "bounced", "rejected"}
MessageStates == {"none", "superseded", "failed", "unknown"}
                    \cup Unsettled \cup Taken
Counters == {"sent", "failed", "delivered", "opened", "bounced"}

(* The counters a row in each state has been counted in, or is to be.      *)
CountedAs(s) ==
    CASE s \in {"failed", "unknown"} -> {"failed"}
      [] s = "rejected" -> {"sent", "failed"}
      [] s \in Taken \ {"rejected"} -> {"sent", s}
      [] OTHER -> {}

DELIVERY_TRANSITIONS(from) ==
    CASE from = "sent" -> {"delivered", "opened", "bounced", "rejected"}
      [] from = "delivered" -> {"opened", "bounced"}
      [] OTHER -> {}

(* Mutant of CallbackCounter: the status is taken for the column. *)
CallbackCounterRaw(s) == s
CallbackCounter(s) == IF s = "rejected" THEN "failed" ELSE s

Outcomes == {"sent", "failed", "unknown"}

IdleWorker == [pc |-> "idle", batch |-> {}, cur |-> {}]

TypeOK ==
    /\ campaign \in [status : {"draft", "sending", "sent", "failed",
                               "cancelled", "deleted"},
                     recipients : SUBSET Clients]
    /\ msg \in [Messages -> MessageStates]
    /\ tally \in [Messages \X Counters -> Nat]
    /\ owed \subseteq Messages \X Counters
    /\ worker \in [Workers -> [pc : {"idle", "loop", "count"},
                               batch : SUBSET Messages,
                               cur : SUBSET Messages]]
    /\ withdrawal \subseteq Messages
    /\ notices \subseteq Messages \X Outcomes
    /\ dispatches \in 0 .. MaxDispatches
    /\ unheard \subseteq Messages
    /\ staff \in Nat /\ faults \in Nat /\ staff + faults <= MaxIncidents
    /\ phase \in [Messages -> Outbox!Phases]
    /\ rights \in [Messages -> Nat] /\ taken \in [Messages -> Nat]

Init ==
    /\ campaign = [status |-> "draft", recipients |-> {}]
    /\ msg = [m \in Messages |-> "none"]
    /\ tally = [k \in Messages \X Counters |-> 0]
    /\ owed = {}
    /\ worker = [w \in Workers |-> IdleWorker]
    /\ withdrawal = {}
    /\ notices = {}
    /\ dispatches = 0 /\ staff = 0 /\ unheard = {} /\ faults = 0
    /\ Outbox!Init

Fault == staff + faults < MaxIncidents /\ faults' = faults + 1
StaffAction == staff + faults < MaxIncidents /\ staff' = staff + 1

Count(m, counter) == tally' = [tally EXCEPT ![<<m, counter>>] = @ + 1]

----------------------------------------------------------------------------
(* dispatchCampaign: one transaction that holds the campaign row.          *)

(* Rows of an earlier run that must not go out beside the new ones.        *)
(* Mutant of Superseded: a cancelled campaign is forgotten. *)
SupersededAfterFailure(m) == campaign.status = "failed" /\ msg[m] = "queued"

Superseded(m) == campaign.status # "draft" /\ msg[m] = "queued"

Dispatch(recipients) ==
    /\ dispatches < MaxDispatches
    /\ campaign.status \in {"draft", "failed", "cancelled"}
    /\ \A m \in Messages : msg[m] # "unknown"
    /\ campaign' = [status |-> IF recipients = {} THEN "sent" ELSE "sending",
                    recipients |-> recipients]
    /\ msg' = [m \in Messages |->
                 IF m[1] \in recipients /\ m[2] = dispatches + 1 THEN "queued"
                 ELSE IF Superseded(m) THEN "superseded" ELSE msg[m]]
    /\ dispatches' = dispatches + 1
    /\ UNCHANGED <<tally, owed, worker, withdrawal, notices, staff, unheard,
                   faults, outbox>>

----------------------------------------------------------------------------
(* processCurrentQueue *)

notWorker == <<owed, withdrawal, notices, dispatches, staff, unheard>>

Select(w) ==
    /\ worker[w].pc = "idle"
    /\ IF w \in Manual THEN StaffAction ELSE UNCHANGED staff
    /\ worker' = [worker EXCEPT ![w] =
         [pc |-> "loop", cur |-> {},
          batch |-> IF campaign.status = "sending"
                      THEN {m \in Messages : msg[m] = "queued"} ELSE {}]]
    /\ UNCHANGED <<campaign, msg, tally, owed, withdrawal, notices, dispatches,
                   unheard, faults, outbox>>

Takes(w, m) == worker[w].pc = "loop" /\ m \in worker[w].batch

(* handOff claims the row and queues it in the outbox in one transaction;  *)
(* when the outbox refuses it (consent withdrawn), the same transaction    *)
(* fails and counts it.                                                    *)
(* Mutant of HandOff: the claim commits before the outbox row. *)
HandOffInTwoTransactions(w, m) ==
    /\ Takes(w, m)
    /\ msg[m] = "queued" /\ campaign.status = "sending"
    /\ worker' = [worker EXCEPT ![w].batch = @ \ {m}]
    /\ msg' = [msg EXCEPT ![m] = "handed_off"]
    /\ \/ Outbox!Submit(m) /\ phase'[m] = "pending"
       \/ UNCHANGED outbox
    /\ UNCHANGED <<campaign, tally, notWorker, faults>>

HandOff(w, m) ==
    /\ Takes(w, m)
    /\ msg[m] = "queued" /\ campaign.status = "sending"
    /\ worker' = [worker EXCEPT ![w].batch = @ \ {m}]
    /\ Outbox!Submit(m)
    /\ IF phase'[m] = "pending"
         THEN msg' = [msg EXCEPT ![m] = "handed_off"] /\ UNCHANGED tally
         ELSE msg' = [msg EXCEPT ![m] = "failed"] /\ Count(m, "failed")
    /\ UNCHANGED <<campaign, notWorker, faults>>

(* The organization changed, the template is gone, the eligibility guard   *)
(* or another worker took the row, or the hand-off threw and rolled back:  *)
(* the row is failed only if it is still queued, and then counted.         *)
(* Mutant of Skip: without AND status = 'queued'. *)
SkipUnconditionally(w, m) ==
    /\ Takes(w, m)
    /\ msg' = [msg EXCEPT ![m] = "failed"]
    /\ worker' = [worker EXCEPT ![w] =
                    [pc |-> "count", batch |-> @.batch \ {m}, cur |-> {m}]]
    /\ UNCHANGED <<campaign, tally, notWorker, faults, outbox>>

Skip(w, m) ==
    /\ Takes(w, m)
    /\ \/ /\ msg[m] = "queued"
          /\ msg' = [msg EXCEPT ![m] = "failed"]
          /\ worker' = [worker EXCEPT ![w] =
                [pc |-> "count", batch |-> @.batch \ {m}, cur |-> {m}]]
       \/ /\ msg[m] # "queued"
          /\ worker' = [worker EXCEPT ![w].batch = @ \ {m}]
          /\ UNCHANGED msg
    /\ UNCHANGED <<campaign, tally, notWorker, faults, outbox>>

CountSkip(w) ==
    /\ worker[w].pc = "count"
    /\ \E m \in worker[w].cur : Count(m, "failed")
    /\ worker' = [worker EXCEPT ![w].pc = "loop", ![w].cur = {}]
    /\ UNCHANGED <<campaign, msg, notWorker, faults, outbox>>

(* Mutant of Outstanding: messages handed over are forgotten. *)
OutstandingQueued == \E m \in Messages : msg[m] = "queued"
(* Mutant of Outstanding: an unknown outcome is waited for. *)
OutstandingOrUnknown ==
    \E m \in Messages : msg[m] \in Unsettled \cup {"unknown"}
Outstanding == \E m \in Messages : msg[m] \in Unsettled

(* The last statement completes a campaign with nothing left to hear of.   *)
Complete(w) ==
    /\ worker[w].pc = "loop" /\ worker[w].batch = {}
    /\ worker' = [worker EXCEPT ![w] = IdleWorker]
    /\ campaign' = IF campaign.status = "sending" /\ ~Outstanding
         THEN [campaign EXCEPT !.status =
                 IF \E m \in Messages : msg[m] = "unknown" THEN "failed" ELSE "sent"]
         ELSE campaign
    /\ UNCHANGED <<msg, tally, notWorker, faults, outbox>>

CrashWorker(w) ==
    /\ worker[w].pc # "idle"
    /\ worker' = [worker EXCEPT ![w] = IdleWorker]
    /\ Fault
    /\ UNCHANGED <<campaign, msg, tally, notWorker, outbox>>

WorkerStep(w) ==
    \/ Select(w) \/ CountSkip(w) \/ Complete(w)
    \/ \E m \in Messages : HandOff(w, m) \/ Skip(w, m)

----------------------------------------------------------------------------
(* The outbox delivers, and tells the handler how it ended.                *)

notOutbox == <<campaign, msg, tally, owed, worker, withdrawal, dispatches>>

Tell(m, outcome) == notices' = notices \cup {<<m, outcome>>}

Finishes(m) ==
    /\ \/ Outbox!Deliver(m) /\ Tell(m, "sent")
       \/ Outbox!Fail(m) /\ Tell(m, "failed")
       \/ Outbox!LoseTrack({m}) /\ Tell(m, "unknown")
    /\ UNCHANGED <<notOutbox, staff, unheard, faults>>

(* recoverStale closes the sends whose workers stopped, and tells nobody.  *)
(* Mutant of RecoveredStale: a stopped send goes back to the queue. *)
RecoveredStaleRequeues(lost) ==
    /\ lost # {} /\ \A m \in lost : phase[m] = "pending"
    /\ rights' = [m \in Messages |-> IF m \in lost THEN 1 ELSE rights[m]]
    /\ Fault
    /\ UNCHANGED <<notOutbox, notices, staff, unheard, phase, taken>>

RecoveredStale(lost) ==
    /\ Outbox!LoseTrack(lost)
    /\ Fault
    /\ unheard' = unheard \cup lost
    /\ UNCHANGED <<notOutbox, notices, staff>>

HandsOver(m) ==
    /\ Outbox!HandOver(m)
    /\ UNCHANGED <<notOutbox, notices, staff, unheard, faults>>

(* Staff retry, resend or cancel a message in the outbox's own screen.     *)
StaffRetries(m) ==
    /\ Outbox!Retry(m) \/ Outbox!Resend(m)
    /\ StaffAction
    /\ UNCHANGED <<notOutbox, notices, unheard, faults>>

StaffCancels(m) ==
    /\ Outbox!Close(m)
    /\ StaffAction
    /\ Tell(m, "failed")
    /\ UNCHANGED <<notOutbox, unheard, faults>>

----------------------------------------------------------------------------
(* The 'campaign_message' outcome handler and provider callbacks           *)

(* Only a row still handed over takes the outcome.                         *)
(* Mutant of HearOutcome: only 'sent' is counted. *)
HearOutcomeUncounted(m, outcome) ==
    /\ <<m, outcome>> \in notices
    /\ notices' = notices \ {<<m, outcome>>}
    /\ IF msg[m] = "handed_off"
         THEN /\ msg' = [msg EXCEPT ![m] = outcome]
              /\ owed' = IF outcome = "sent" THEN owed \cup {<<m, "sent">>}
                                                ELSE owed
         ELSE UNCHANGED <<msg, owed>>
    /\ UNCHANGED <<campaign, tally, worker, withdrawal, bounds, outbox>>

(* Mutant of HearOutcome: an unknown outcome is taken as sent. *)
HearOutcomeUnknownAsSent(m, outcome) ==
    /\ <<m, outcome>> \in notices
    /\ notices' = notices \ {<<m, outcome>>}
    /\ IF msg[m] = "handed_off"
         THEN /\ msg' = [msg EXCEPT ![m] = IF outcome = "failed" THEN outcome
                                                           ELSE "sent"]
              /\ owed' = owed \cup {<<m, IF outcome = "sent" THEN "sent"
                                                             ELSE "failed">>}
         ELSE UNCHANGED <<msg, owed>>
    /\ UNCHANGED <<campaign, tally, worker, withdrawal, bounds, outbox>>

HearOutcome(m, outcome) ==
    /\ <<m, outcome>> \in notices
    /\ notices' = notices \ {<<m, outcome>>}
    /\ IF msg[m] = "handed_off"
         THEN /\ msg' = [msg EXCEPT ![m] = outcome]
              /\ owed' = owed \cup {<<m, IF outcome = "sent" THEN "sent"
                                                             ELSE "failed">>}
         ELSE UNCHANGED <<msg, owed>>
    /\ UNCHANGED <<campaign, tally, worker, withdrawal, bounds, outbox>>

LoseOutcome(m, outcome) ==
    /\ <<m, outcome>> \in notices
    /\ notices' = notices \ {<<m, outcome>>}
    /\ Fault
    /\ unheard' = unheard \cup {m}
    /\ UNCHANGED <<campaign, msg, tally, owed, worker, withdrawal, dispatches,
                   staff, outbox>>

(* handleDeliveryCallback: a compare-and-set on the status just read.      *)
Callback(m, to) ==
    /\ to \in DELIVERY_TRANSITIONS(msg[m])
    /\ msg' = [msg EXCEPT ![m] = to]
    /\ owed' = owed \cup {<<m, CallbackCounter(to)>>}
    /\ UNCHANGED <<campaign, tally, worker, withdrawal, notices, bounds, outbox>>

PayCount(k) ==
    /\ k \in owed
    /\ owed' = owed \ {k}
    /\ \/ Count(k[1], k[2]) /\ UNCHANGED faults
       \/ UNCHANGED tally /\ Fault
    /\ UNCHANGED <<campaign, msg, worker, withdrawal, notices, dispatches,
                   staff, unheard, outbox>>

----------------------------------------------------------------------------
(* Cancelling or deleting the campaign: the update commits, then a hook    *)
(* withdraws what the outbox still holds of it.  The hook SELECTs the ids  *)
(* in a statement of its own, so a message of a later dispatch may be      *)
(* among them; one that is not there yet is left alone.                    *)

SetAside(status) ==
    /\ campaign.status # "deleted"
    /\ campaign' = [campaign EXCEPT !.status = status]
    /\ withdrawal' = Messages
    /\ UNCHANGED <<msg, tally, owed, worker, notices, bounds, outbox>>

(* cancelQueuedBySource leaves a message alone that is not queued when it  *)
(* comes to it, or is being delivered.                                     *)
Withdraw(m) ==
    /\ m \in withdrawal
    /\ withdrawal' = withdrawal \ {m}
    /\ \/ phase[m] = "pending" /\ Outbox!Close(m) /\ Tell(m, "failed")
       \/ UNCHANGED <<outbox, notices>>
    /\ UNCHANGED <<campaign, msg, tally, owed, worker, bounds>>

----------------------------------------------------------------------------

MessageStep(m) ==
    \/ Finishes(m) \/ HandsOver(m)
    \/ StaffRetries(m) \/ StaffCancels(m) \/ Withdraw(m)
    \/ \E o \in Outcomes : HearOutcome(m, o) \/ LoseOutcome(m, o)
    \/ \E to \in Reports : Callback(m, to)
    \/ \E c \in Counters : PayCount(<<m, c>>)

Next ==
    \/ \E recipients \in SUBSET Clients : Dispatch(recipients)
    \/ \E status \in {"cancelled", "deleted"} : SetAside(status)
    \/ \E w \in Workers : WorkerStep(w) \/ CrashWorker(w)
    \/ \E m \in Messages : MessageStep(m)
    \/ \E lost \in SUBSET Messages : RecoveredStale(lost)

SafetySpec == Init /\ [][Next]_vars

(* The scheduler runs campaign_send again and again, the outbox finishes   *)
(* what it took (MessageOutbox's EventuallyFinal) and its worker goes on   *)
(* to call the handler.                                                    *)
Spec ==
    /\ SafetySpec
    /\ WF_vars(WorkerStep("scheduled"))
    /\ \A m \in Messages :
          /\ WF_vars(Finishes(m))
          /\ WF_vars(\E o \in Outcomes : HearOutcome(m, o))

----------------------------------------------------------------------------
(* Properties *)

(* Dispatching again after a cancellation never leaves a client with two   *)
(* messages waiting to go out: the earlier snapshot is retired in the same *)
(* transaction, whatever a worker selected before.                         *)
OneQueuedPerClient ==
    \A m, n \in Messages :
       msg[m] = "queued" /\ msg[n] = "queued" /\ m[1] = n[1] => m = n

(* A message is either still queued here or owned by the outbox, never     *)
(* both and never neither: handOff's claim commits with the outbox row.    *)
OwnedByOne ==
    \A m \in Messages :
       /\ msg[m] \in {"none", "queued", "superseded"} => phase[m] = "absent"
       /\ msg[m] \in {"handed_off", "unknown"} \cup Taken => phase[m] # "absent"

(* Every message is counted at most once per counter, and in the counters  *)
(* its state says: replays, late outcomes, a competing worker and a        *)
(* redispatch do not count it again.                                       *)
CountedOnce ==
    \A m \in Messages : \A c \in Counters :
       /\ tally[<<m, c>>] <= 1
       /\ tally[<<m, c>>] = 1 /\ c \in {"sent", "failed"} => c \in CountedAs(msg[m])
       /\ <<m, c>> \in owed => tally[<<m, c>>] = 0

(* Without a stopped process nothing that ended is left out of the         *)
(* counters, except for the moment between the two statements.             *)
CountedAll ==
    faults = 0 =>
      \A m \in Messages : \A c \in CountedAs(msg[m]) :
         \/ tally[<<m, c>>] = 1
         \/ <<m, c>> \in owed
         \/ \E w \in Workers : worker[w].pc = "count" /\ m \in worker[w].cur

(* A campaign completed with recipients has nothing left that could still  *)
(* go out or come back, also from earlier dispatches.                      *)
SentIsOver ==
    campaign.status = "sent" /\ campaign.recipients # {} =>
      \A m \in Messages : msg[m] \notin Unsettled

(* What is recorded as sent was really taken by the provider, whatever     *)
(* order the outcomes of a resent or withdrawn message arrive in.          *)
SentWasTaken ==
    \A m \in Messages : msg[m] \in Taken => taken[m] > 0

(* A dispatch's message reaches its client once, and once more for each    *)
(* time staff resent it: stopped sends, late answers and cancelling and    *)
(* dispatching again add no copy.  One that waits or was retired reached   *)
(* nobody.                                                                 *)
OneCopyPerDispatch ==
    \A m \in Messages :
       /\ taken[m] <= 1 + staff
       /\ msg[m] \in {"none", "queued", "superseded"} => taken[m] = 0

(* A dispatched campaign leaves 'sending', unless the outbox never told    *)
(* the outcome of one of its messages.                                     *)
CampaignEnds ==
    campaign.status = "sending" ~> (campaign.status # "sending" \/ unheard # {})

(* No replacement batch is built while a provider may still have accepted  *)
(* an earlier message whose outcome is not recorded.                       *)
NoRedispatchWhileUnresolved ==
    [][dispatches' # dispatches
         => \A m \in Messages :
              m[1] \in campaign'.recipients /\ taken[m] > 0
                => msg[m] \notin {"handed_off", "unknown"}]_vars

=============================================================================
