-------------------------- MODULE OutboundDelivery --------------------------
(***************************************************************************)
(* SangaPayWebhookDispatcher: an outbound event is recorded as a delivery  *)
(* row and sent to SangaPay.  Two loops send it:                           *)
(*                                                                         *)
(*   - dispatch, called by the flow that made the transition, up to        *)
(*     maxAttempts times with a delay in between;                          *)
(*   - retryFailedDeliveries, at the end of each reconciliation pass, once *)
(*     per pass for a batch of FAILED rows it has read.                    *)
(*                                                                         *)
(* Both read and update the row without a lock.  Passes do not overlap     *)
(* (ReconciliationService.running), so there is one retrier.  Deliveries   *)
(* are numbered in the order of createdAt.  The process may restart        *)
(* between any two steps, and an update may throw (it is then not          *)
(* applied); Outages bounds how often either happens.                      *)
(***************************************************************************)
EXTENDS Integers, FiniteSets

CONSTANTS
  Deliveries,   \* the events dispatched, numbered in creation order
  MaxAttempts,  \* SANGAPAY_WEBHOOK_MAX_ATTEMPTS
  BatchSize,    \* the reconciliation batch size
  Outages       \* bound: how many restarts and failed updates there are

ASSUME DeliveryAssumption ==
  /\ Deliveries \subseteq Nat
  /\ MaxAttempts \in Nat \ {0}
  /\ BatchSize \in Nat \ {0}
  /\ Outages \in Nat

VARIABLES
  status,      \* OutboundWebhookDelivery.status; NONE: no row
  attempts,    \* OutboundWebhookDelivery.attempts
  dispatcher,  \* delivery -> where its dispatch call is, and its attempt
  retrier,     \* where retryFailedDeliveries is, the rows it has still to
               \* send, and the row it is sending
  enabled,     \* sangapayWebhook settings: enabled, with a url and a secret
  taken,       \* the deliveries SangaPay has taken in (external)
  outages      \* restarts and failed updates so far

vars == <<status, attempts, dispatcher, retrier, enabled, taken, outages>>

-----------------------------------------------------------------------------

DeliveryStatus == {"NONE", "DISABLED", "PENDING", "DELIVERED", "FAILED"}

(* What a request may come back with.  none: no response, whether or not   *)
(* SangaPay took the event; busy: 408, 429 or 5xx; refused: another error. *)
Answers == {"ok", "none", "busy", "refused"}

(* What the catch block or the code after the request goes by.  error is   *)
(* what a failed update throws, which is no answer of SangaPay's.          *)
Results == Answers \cup {"error"}

Sending == [pc : {"send", "record"}, attempt : 1..MaxAttempts, result : Results]
NotSending == [pc : {"idle"}, attempt : 0..MaxAttempts, result : Results]

Waiting == [pc |-> "idle", batch |-> {}, at |-> 0, result |-> "none"]

TypeOK ==
  /\ status \in [Deliveries -> DeliveryStatus]
  /\ attempts \in [Deliveries -> Nat]
  /\ dispatcher \in [Deliveries -> Sending \cup NotSending]
  /\ retrier \in [pc : {"idle", "send", "record"}, batch : SUBSET Deliveries,
                  at : Nat, result : Results]
  /\ enabled \in BOOLEAN
  /\ taken \subseteq Deliveries
  /\ outages \in 0..Outages

Init ==
  /\ status = [d \in Deliveries |-> "NONE"]
  /\ attempts = [d \in Deliveries |-> 0]
  /\ dispatcher = [d \in Deliveries |->
                     [pc |-> "idle", attempt |-> 0, result |-> "none"]]
  /\ retrier = Waiting
  /\ enabled \in BOOLEAN
  /\ taken = {}
  /\ outages = 0

-----------------------------------------------------------------------------
(* Helpers                                                                 *)

(* Faulty: an error response is taken for a delivery.                      *)
AnyResponse(answer) == answer \in {"ok", "busy", "refused"}

(* send resolves for a 2xx response only.                                  *)
Accepted(answer) == answer = "ok"

Retryable(result) == result \in {"none", "busy"}

(* Faulty: the loop runs once more than maxAttempts.                       *)
OneMoreAttempt(attempt) == attempt > MaxAttempts

LastAttempt(attempt) == attempt >= MaxAttempts

(* SangaPay takes an event it answers with 2xx; when no response arrives   *)
(* it may have taken it (external).                                        *)
Receive(d, answer) ==
  \/ answer = "ok" /\ taken' = taken \cup {d}
  \/ answer = "none" /\ taken' \in {taken, taken \cup {d}}
  \/ answer \in {"busy", "refused"} /\ taken' = taken

Attempted(d) == attempts' = [attempts EXCEPT ![d] = @ + 1]

Goto(d, step) == dispatcher' = [dispatcher EXCEPT ![d].pc = step]

OutOfService == outages < Outages /\ outages' = outages + 1

-----------------------------------------------------------------------------
(* dispatch                                                                *)

(* The row is created, PENDING or DISABLED as the settings say.            *)
Dispatch(d) ==
  /\ status[d] = "NONE"
  /\ \A e \in Deliveries : e < d => status[e] # "NONE"
  /\ IF enabled
       THEN /\ status' = [status EXCEPT ![d] = "PENDING"]
            /\ dispatcher' = [dispatcher EXCEPT ![d].pc = "send", ![d].attempt = 1]
       ELSE /\ status' = [status EXCEPT ![d] = "DISABLED"]
            /\ UNCHANGED dispatcher
  /\ UNCHANGED <<attempts, retrier, enabled, taken, outages>>

Send(d) ==
  /\ dispatcher[d].pc = "send"
  /\ \E answer \in Answers :
       /\ Receive(d, answer)
       /\ dispatcher' = [dispatcher EXCEPT ![d].pc = "record", ![d].result = answer]
  /\ UNCHANGED <<status, attempts, retrier, enabled, outages>>

RecordDelivered(d) ==
  /\ dispatcher[d].pc = "record"
  /\ Accepted(dispatcher[d].result)
  /\ status' = [status EXCEPT ![d] = "DELIVERED"]
  /\ Attempted(d)
  /\ Goto(d, "idle")
  /\ UNCHANGED <<retrier, enabled, taken, outages>>

(* The update of a success is inside the try block.                        *)
RecordDeliveredThrows(d) ==
  /\ dispatcher[d].pc = "record"
  /\ Accepted(dispatcher[d].result)
  /\ OutOfService
  /\ dispatcher' = [dispatcher EXCEPT ![d].result = "error"]
  /\ UNCHANGED <<status, attempts, retrier, enabled, taken>>

(* The catch block, and the loop's next round unless it was the last.      *)
RecordFailed(d) ==
  LET call == dispatcher[d] IN
  /\ call.pc = "record"
  /\ ~ Accepted(call.result)
  /\ status' = [status EXCEPT ![d] = "FAILED"]
  /\ Attempted(d)
  /\ IF LastAttempt(call.attempt) \/ ~ Retryable(call.result)
       THEN Goto(d, "idle")
       ELSE dispatcher' = [dispatcher EXCEPT ![d].pc = "send", ![d].attempt = @ + 1]
  /\ UNCHANGED <<retrier, enabled, taken, outages>>

(* An update in the catch block throws: dispatch rejects.                  *)
RecordFailedThrows(d) ==
  /\ dispatcher[d].pc = "record"
  /\ ~ Accepted(dispatcher[d].result)
  /\ OutOfService
  /\ Goto(d, "idle")
  /\ UNCHANGED <<status, attempts, retrier, enabled, taken>>

-----------------------------------------------------------------------------
(* retryFailedDeliveries                                                   *)

(* Faulty: a row may be retried once its attempts are used up.             *)
DueOnceMore(d) == status[d] = "FAILED" /\ attempts[d] <= MaxAttempts

Due(d) == status[d] = "FAILED" /\ attempts[d] < MaxAttempts

(* The oldest rows that are due, as many as a batch takes.                 *)
Batch ==
  {d \in Deliveries :
     Due(d) /\ Cardinality({e \in Deliveries : e < d /\ Due(e)}) < BatchSize}

(* The rows are read once, before the first is sent.                       *)
StartRetries ==
  /\ retrier.pc = "idle"
  /\ enabled
  /\ Batch # {}
  /\ retrier' = [retrier EXCEPT !.pc = "send", !.batch = Batch]
  /\ UNCHANGED <<status, attempts, dispatcher, enabled, taken, outages>>

RetrySend ==
  /\ retrier.pc = "send"
  /\ \E d \in retrier.batch, answer \in Answers :
       /\ \A e \in retrier.batch : d <= e
       /\ Receive(d, answer)
       /\ retrier' = [retrier EXCEPT !.pc = "record", !.at = d, !.result = answer]
  /\ UNCHANGED <<status, attempts, dispatcher, enabled, outages>>

(* On to the next row of the batch.                                        *)
NextRow ==
  LET rest == retrier.batch \ {retrier.at} IN
  retrier' = IF rest = {} THEN Waiting
             ELSE [retrier EXCEPT !.pc = "send", !.batch = rest]

RetryDelivered ==
  /\ retrier.pc = "record"
  /\ Accepted(retrier.result)
  /\ status' = [status EXCEPT ![retrier.at] = "DELIVERED"]
  /\ Attempted(retrier.at)
  /\ NextRow
  /\ UNCHANGED <<dispatcher, enabled, taken, outages>>

RetryDeliveredThrows ==
  /\ retrier.pc = "record"
  /\ Accepted(retrier.result)
  /\ OutOfService
  /\ retrier' = [retrier EXCEPT !.result = "error"]
  /\ UNCHANGED <<status, attempts, dispatcher, enabled, taken>>

(* Faulty: as in dispatch, the row is set to FAILED again.                 *)
StillFailed(d) == status' = [status EXCEPT ![d] = "FAILED"] /\ Attempted(d)

(* Faulty: a retry in vain is not counted.                                 *)
Uncounted(d) == UNCHANGED <<status, attempts>>

(* What a retry in vain writes: the attempt, and no status.                *)
InVain(d) == UNCHANGED status /\ Attempted(d)

RetryFailed ==
  /\ retrier.pc = "record"
  /\ ~ Accepted(retrier.result)
  /\ InVain(retrier.at)
  /\ NextRow
  /\ UNCHANGED <<dispatcher, enabled, taken, outages>>

(* An update in the catch block throws: the pass ends.                     *)
RetryFailedThrows ==
  /\ retrier.pc = "record"
  /\ ~ Accepted(retrier.result)
  /\ OutOfService
  /\ retrier' = Waiting
  /\ UNCHANGED <<status, attempts, dispatcher, enabled, taken>>

-----------------------------------------------------------------------------

(* Every call in progress is lost; the settings may have changed.          *)
Restart ==
  /\ OutOfService
  /\ dispatcher' = [d \in Deliveries |-> [dispatcher[d] EXCEPT !.pc = "idle"]]
  /\ retrier' = Waiting
  /\ enabled' \in BOOLEAN
  /\ UNCHANGED <<status, attempts, taken>>

DispatchStep(d) ==
  \/ Send(d)
  \/ RecordDelivered(d) \/ RecordDeliveredThrows(d)
  \/ RecordFailed(d) \/ RecordFailedThrows(d)

RetryStep ==
  \/ StartRetries \/ RetrySend
  \/ RetryDelivered \/ RetryDeliveredThrows
  \/ RetryFailed \/ RetryFailedThrows

Next ==
  \/ \E d \in Deliveries : Dispatch(d) \/ DispatchStep(d)
  \/ RetryStep
  \/ Restart

Spec == Init /\ [][Next]_vars

(* A request ends within its time limit, the delay of the loop passes, and *)
(* the interval starts one pass after another.  The code does not promise  *)
(* the last: a provider's request that is never answered stops the passes, *)
(* and with them the retries (PassesGoOn in Reconciliation).               *)
FairSpec ==
  /\ Spec
  /\ \A d \in Deliveries : WF_vars(DispatchStep(d))
  /\ WF_vars(RetryStep)

-----------------------------------------------------------------------------
(* Properties                                                              *)

(* The two loops share the counter and not the limit: the pass compares    *)
(* attempts with maxAttempts only when it reads its batch, and dispatch    *)
(* not at all.  Together they count at most 2 * maxAttempts - 1 attempts,  *)
(* and a row is never retried without end.                                 *)
AttemptsBounded == \A d \in Deliveries : attempts[d] <= 2 * MaxAttempts - 1

(* A row is DELIVERED only if SangaPay has taken the event, whichever loop *)
(* wrote it, and after whatever errors.                                    *)
DeliveredWasTaken == \A d \in Deliveries : status[d] = "DELIVERED" => d \in taken

(* A row that is DELIVERED is set back only by its own dispatch call,      *)
(* after a retry overtook its second or later attempt; never by the pass,  *)
(* whose batch may be out of date, and never by a restart.                 *)
OnlyDispatchTakesBack ==
  [][\A d \in Deliveries :
       status[d] = "DELIVERED" /\ status'[d] # "DELIVERED" =>
         /\ dispatcher[d].pc = "record" /\ dispatcher[d].attempt > 1
         /\ status'[d] = "FAILED"]_vars

(* While webhooks stay enabled and passes come to their retries, a FAILED  *)
(* row that is due is delivered or has its attempts used up: rows that     *)
(* fail again and again do not keep younger ones out of the batch for ever.*)
DueIsResolved ==
  \A d \in Deliveries :
    <>[]enabled => (Due(d) ~> ~ Due(d))

-----------------------------------------------------------------------------
(* The inductive invariant                                                 *)

(* How many attempts of its dispatch call may have been counted.           *)
Made(d) ==
  IF dispatcher[d].pc = "idle" THEN dispatcher[d].attempt
  ELSE dispatcher[d].attempt - 1

(* A result that will be recorded as a delivery is one.                    *)
ResultsTrue ==
  /\ DeliveredWasTaken
  /\ \A d \in Deliveries :
       dispatcher[d].pc = "record" /\ dispatcher[d].result = "ok" => d \in taken
  /\ retrier.pc = "record" =>
       /\ retrier.at \in retrier.batch
       /\ retrier.result = "ok" => retrier.at \in taken

(* Until its first attempt is recorded a row is PENDING, and no retry      *)
(* knows it: only a recorded failure makes it FAILED.                      *)
FirstAttemptAlone ==
  \A d \in Deliveries :
    /\ status[d] = "NONE" => dispatcher[d].pc = "idle" /\ dispatcher[d].attempt = 0
    /\ dispatcher[d].pc # "idle" /\ Made(d) = 0 => status[d] = "PENDING"
    /\ status[d] = "FAILED" \/ d \in retrier.batch => Made(d) >= 1

(* Retries add at most maxAttempts - 1 to what dispatch has counted, and a *)
(* row in the batch has room for one more.                                 *)
RetriesCounted ==
  \A d \in Deliveries :
    /\ attempts[d] <= Made(d) + MaxAttempts - 1
    /\ d \in retrier.batch => attempts[d] <= Made(d) + MaxAttempts - 2

(* Type correctness, with what relates the row, its dispatch call and the  *)
(* retrier's batch: the counter, the statuses and the results they carry   *)
(* (dispatch, retryFailedDeliveries).                                      *)
DeliveryInv == TypeOK /\ ResultsTrue /\ FirstAttemptAlone /\ RetriesCounted

=============================================================================
