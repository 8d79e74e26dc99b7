---------------------------- MODULE WebhookIntake ----------------------------
(***************************************************************************)
(* KryptaPayWebhookService and WiseWebhookService: how a delivered event   *)
(* is logged, acknowledged and worked on in the background.  The unique    *)
(* index of WebhookLog on (provider, eventId) claims an event before the   *)
(* work on it; what the work does to the rows of a flow is the business of *)
(* the module that extends this one (Settle).                              *)
(*                                                                         *)
(* A delivery with a bad signature (a secret not yet rotated on one side)  *)
(* and one with a body that does not match its headers claim the event id  *)
(* all the same.  The updates of the log may throw.                        *)
(***************************************************************************)
EXTENDS Integers

CONSTANT Events  \* the events of both providers, by (provider, eventId)

VARIABLES
  log,    \* WebhookLog.processingStatus; NONE: no row
  task,   \* event -> where the call or background task that serves it is
  acted   \* event -> how often its background work began (specification only)

intakeVars == <<log, task, acted>>

-----------------------------------------------------------------------------

LogStatus == {"NONE", "PENDING", "PROCESSING", "PROCESSED", "FAILED", "IGNORED"}
TaskSteps == {"idle", "check", "work", "mark", "fail"}

IntakeTypeOK ==
  /\ log \in [Events -> LogStatus]
  /\ task \in [Events -> TaskSteps]
  /\ acted \in [Events -> Nat]

IntakeInit ==
  /\ log = [e \in Events |-> "NONE"]
  /\ task = [e \in Events |-> "idle"]
  /\ acted = [e \in Events |-> 0]

Goto(e, step) == task' = [task EXCEPT ![e] = step]
Logs(e, status) == log' = [log EXCEPT ![e] = status]

(* Faulty: the unique index does not cover an event that has failed.       *)
NotLoggedOrFailed(e) == log[e] \in {"NONE", "FAILED"}

(* createWebhookLog returns true; otherwise (P2002) the delivery is        *)
(* acknowledged as a duplicate and nothing happens.                        *)
FirstDelivery(e) == log[e] = "NONE"

-----------------------------------------------------------------------------
(* The request                                                             *)

(* verifySignature fails: the delivery is logged FAILED and refused.       *)
RefuseSignature(e) ==
  /\ FirstDelivery(e)
  /\ Logs(e, "FAILED")
  /\ UNCHANGED <<task, acted>>

LogDelivery(e) ==
  /\ FirstDelivery(e)
  /\ Logs(e, "PENDING")
  /\ Goto(e, "check")
  /\ UNCHANGED acted

(* parseVerifiedPayload refuses the body, or a header that is not the      *)
(* payload's; the log is FAILED unless that update throws too.             *)
RefusePayload(e) ==
  /\ task[e] = "check"
  /\ log' \in {log, [log EXCEPT ![e] = "FAILED"]}
  /\ Goto(e, "idle")
  /\ UNCHANGED acted

(* A test notification of Wise ends here.                                  *)
IgnoreTest(e) ==
  /\ task[e] = "check"
  /\ Logs(e, "IGNORED")
  /\ Goto(e, "idle")
  /\ UNCHANGED acted

-----------------------------------------------------------------------------
(* processAcceptedWebhook, in the background                               *)

StartWork(e) ==
  /\ task[e] = "check"
  /\ Logs(e, "PROCESSING")
  /\ Goto(e, "work")
  /\ acted' = [acted EXCEPT ![e] = @ + 1]

(* PAYIN_CREATED and PAYOUT_CREATED are done; an event of Wise that is     *)
(* about no transfer, or a transfer that is not decided, is ignored.       *)
NothingToDo(e) ==
  /\ task[e] = "work"
  /\ log' \in {[log EXCEPT ![e] = status] : status \in {"PROCESSED", "IGNORED"}}
  /\ Goto(e, "idle")
  /\ UNCHANGED acted

(* The row is not found, the provider's query fails or contradicts the     *)
(* event, the event type is unknown, or an update or a dispatch throws.    *)
WorkThrows(e) ==
  /\ task[e] \in {"check", "work", "mark"}
  /\ Goto(e, "fail")
  /\ UNCHANGED <<log, acted>>

MarkProcessed(e) ==
  /\ task[e] = "mark"
  /\ Logs(e, "PROCESSED")
  /\ Goto(e, "idle")
  /\ UNCHANGED acted

(* The catch of acceptWebhook; an error of its own is swallowed.           *)
MarkFailed(e) ==
  /\ task[e] = "fail"
  /\ log' \in {log, [log EXCEPT ![e] = "FAILED"]}
  /\ Goto(e, "idle")
  /\ UNCHANGED acted

(* A restart loses every task.                                             *)
LoseTasks ==
  /\ task' = [e \in Events |-> "idle"]
  /\ UNCHANGED <<log, acted>>

IntakeStep(e) ==
  \/ RefuseSignature(e) \/ LogDelivery(e)
  \/ RefusePayload(e) \/ IgnoreTest(e)
  \/ StartWork(e) \/ WorkThrows(e) \/ MarkProcessed(e) \/ MarkFailed(e)

-----------------------------------------------------------------------------

(* "Duplicate event IDs are acknowledged but not processed again": however *)
(* an event's first delivery ended - settled, failed, refused, lost in a   *)
(* restart - no later one is worked on (createWebhookLog).                 *)
ActedOnOnce == \A e \in Events : acted[e] <= 1

=============================================================================
