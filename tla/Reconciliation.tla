--------------------------- MODULE Reconciliation ---------------------------
(***************************************************************************)
(* ReconciliationService over the rows of the money flows, together with   *)
(* the webhook intake: the two ways in which a deposit, payout or          *)
(* conversion learns what its provider decided.  The flows' own modules    *)
(* say what settling a row does; here a row is open or settled.            *)
(*                                                                         *)
(* A pass reads one batch per table: the oldest BatchSize rows of the      *)
(* lookback window that are open and have a provider reference.  It asks   *)
(* the provider about each in turn; an error of one row does not stop the  *)
(* others.  Rows are numbered in the order of createdAt.                   *)
(***************************************************************************)
EXTENDS FiniteSets, WebhookIntake

CONSTANTS
  Rows,       \* deposits, payouts and conversions, numbered by createdAt
  Plans,      \* what kind each row may be, and what its provider will say
  Passes,     \* passes that could run at the same time
  BatchSize,  \* REEPAY_RECONCILIATION_BATCH_SIZE
  Outages     \* bound: how many restarts there are

(* A row has at most one event, which bears its number, by which its       *)
(* provider reports the decision; the others are never delivered.          *)
ASSUME ReconciliationAssumption ==
  /\ Rows \subseteq Nat
  /\ Events \subseteq Rows
  /\ BatchSize \in Nat \ {0}
  /\ Outages \in Nat

VARIABLES
  plan,        \* row -> its kind and its provider's last word (constant)
  status,      \* none, open (PENDING or PROCESSING) or settled
  referenced,  \* the rows with a provider reference
  decided,     \* the rows whose provider has said its last word (external)
  aged,        \* the rows that have left the lookback window
  running,     \* ReconciliationService.running
  pass,        \* where a pass is, and the rows it has still to ask about
  outages

rowVars == <<plan, status, referenced, decided, aged>>
passVars == <<running, pass>>
vars == <<rowVars, passVars, intakeVars, outages>>

-----------------------------------------------------------------------------
(* What the providers say                                                  *)

KryptaPayCompleted ==
  {"PAYIN_RECEIVED", "PAYOUT_COMPLETED", "CONVERSION_COMPLETED",
   "RECEIVED", "SETTLED", "SUCCESS", "SUCCEEDED", "COMPLETED"}
KryptaPayFailed ==
  {"PAYIN_FAILED", "PAYOUT_FAILED", "FAILED", "EXPIRED", "CANCELLED", "REFUNDED"}

WiseCompleted == {"outgoing_payment_sent", "funds_converted", "completed",
                  "sent", "success"}
WiseFailed == {"bounced_back", "cancelled", "failed", "funds_refunded", "refunded"}

(* mapTransactionStatus; every other word is pending, processing or        *)
(* unknown to the pass.                                                    *)
KryptaPayDecides(word) == word \in KryptaPayCompleted \cup KryptaPayFailed

(* isWiseCompletedState, isWiseFailedState                                 *)
WiseDecides(word) == word \in WiseCompleted \cup WiseFailed

Kinds == {"deposit", "usdcPayout", "wisePayout", "eurConversion", "usdcConversion"}

TableOf(kind) ==
  CASE kind = "deposit" -> 1
    [] kind \in {"usdcPayout", "wisePayout"} -> 2
    [] OTHER -> 3

Table(r) == TableOf(plan[r].kind)

(* Whether the answer of the provider's status endpoint would settle the   *)
(* row.  A USDC conversion has no such endpoint ("provider_conversion_     *)
(* status_endpoint_unavailable").                                          *)
AnswerSettles(r) ==
  /\ r \in decided
  /\ CASE plan[r].kind = "wisePayout" -> WiseDecides(plan[r].word)
       [] plan[r].kind = "usdcConversion" -> FALSE
       [] OTHER -> KryptaPayDecides(plan[r].word)

-----------------------------------------------------------------------------

Idle == [pc |-> "idle", todo |-> {}]

TypeOK ==
  /\ IntakeTypeOK
  /\ plan \in Plans
  /\ status \in [Rows -> {"none", "open", "settled"}]
  /\ referenced \subseteq Rows
  /\ decided \subseteq Rows
  /\ aged \subseteq Rows
  /\ running \in BOOLEAN
  /\ pass \in [Passes -> [pc : {"idle", "read", "next", "ask", "retry"},
                          todo : SUBSET Rows]]
  /\ outages \in 0..Outages

Init ==
  /\ IntakeInit
  /\ plan \in Plans
  /\ status = [r \in Rows |-> "none"]
  /\ referenced = {}
  /\ decided = {}
  /\ aged = {}
  /\ running = FALSE
  /\ pass = [p \in Passes |-> Idle]
  /\ outages = 0

-----------------------------------------------------------------------------
(* Rows                                                                    *)

(* A deposit is inserted with its reference, a payout or a conversion      *)
(* before it has one.                                                      *)
Create(r) ==
  /\ status[r] = "none"
  /\ \A s \in Rows : s < r => status[s] # "none"
  /\ status' = [status EXCEPT ![r] = "open"]
  /\ referenced' = IF plan[r].kind = "deposit" THEN referenced \cup {r}
                   ELSE referenced
  /\ UNCHANGED <<plan, decided, aged, passVars, intakeVars, outages>>

(* The confirm call records the reference, unless it was cut short.        *)
RecordReference(r) ==
  /\ status[r] = "open"
  /\ referenced' = referenced \cup {r}
  /\ UNCHANGED <<plan, status, decided, aged, passVars, intakeVars, outages>>

(* The provider settles what it was asked for (external).                  *)
Decide(r) ==
  /\ status[r] = "open"
  /\ decided' = decided \cup {r}
  /\ UNCHANGED <<plan, status, referenced, aged, passVars, intakeVars, outages>>

(* createdAt is not after Date.now() - lookback any more: oldest first.    *)
Age(r) ==
  /\ status[r] # "none"
  /\ \A s \in Rows : s < r => s \in aged
  /\ aged' = aged \cup {r}
  /\ UNCHANGED <<plan, status, referenced, decided, passVars, intakeVars, outages>>

SettleRow(r) == status' = [status EXCEPT ![r] = "settled"]

-----------------------------------------------------------------------------
(* Webhooks                                                                *)

(* The background task finds the row by its reference and settles it; a    *)
(* deposit's transaction marks the event too.                              *)
SettleByWebhook(r) ==
  /\ task[r] = "work"
  /\ r \in referenced \cap decided
  /\ SettleRow(r)
  /\ IF plan[r].kind = "deposit" THEN Logs(r, "PROCESSED") ELSE UNCHANGED log
  /\ Goto(r, "mark")
  /\ UNCHANGED <<acted, plan, referenced, decided, aged, passVars, outages>>

(* The event of a decided row, or one that reports something else.         *)
Webhook(r) ==
  /\ status[r] # "none"
  /\ IntakeStep(r) \/ NothingToDo(r)
  /\ UNCHANGED <<rowVars, passVars, outages>>

-----------------------------------------------------------------------------
(* Passes                                                                  *)

Candidate(r) == status[r] = "open" /\ r \in referenced \ aged

(* The rows of its table that come before it in a batch.                   *)
Ahead(r) == {s \in Rows : s < r /\ Table(s) = Table(r) /\ Candidate(s)}

(* Faulty: the rows that are taken are the youngest.                       *)
YoungestBatch ==
  {r \in Rows : /\ Candidate(r)
                /\ Cardinality({s \in Rows : s > r /\ Table(s) = Table(r)
                                             /\ Candidate(s)}) < BatchSize}

(* findMany of the three tables, with orderBy and take.                    *)
Batch == {r \in Rows : Candidate(r) /\ Cardinality(Ahead(r)) < BatchSize}

Step(p, step) == pass' = [pass EXCEPT ![p].pc = step]

(* Faulty: runScheduledPass does not look at the flag.                     *)
AnyTime == TRUE

NotRunning == ~ running

(* A tick of the timer; while the flag is set it is skipped.               *)
StartPass(p) ==
  /\ pass[p].pc = "idle"
  /\ NotRunning
  /\ running' = TRUE
  /\ Step(p, "read")
  /\ UNCHANGED <<rowVars, intakeVars, outages>>

ReadBatches(p) ==
  /\ pass[p].pc = "read"
  /\ pass' = [pass EXCEPT ![p] = [pc |-> "next", todo |-> Batch]]
  /\ UNCHANGED <<rowVars, running, intakeVars, outages>>

(* reconcileRows: deposits, then payouts, then conversions, oldest first.  *)
Before(r, s) == Table(r) < Table(s) \/ (Table(r) = Table(s) /\ r < s)
IsNext(p, r) == r \in pass[p].todo /\ \A s \in pass[p].todo \ {r} : Before(r, s)

(* A row settled since the batch was read is left alone, and so is one     *)
(* that there is nothing to ask about.                                     *)
SkipRow(p) ==
  /\ pass[p].pc = "next"
  /\ \E r \in Rows :
       /\ IsNext(p, r)
       /\ status[r] = "settled" \/ plan[r].kind = "usdcConversion"
       /\ pass' = [pass EXCEPT ![p].todo = @ \ {r}]
  /\ UNCHANGED <<rowVars, running, intakeVars, outages>>

AskRow(p) ==
  /\ pass[p].pc = "next"
  /\ \E r \in Rows :
       /\ IsNext(p, r)
       /\ status[r] # "settled" /\ plan[r].kind # "usdcConversion"
  /\ Step(p, "ask")
  /\ UNCHANGED <<rowVars, running, intakeVars, outages>>

AfterRow(p, r) == pass' = [pass EXCEPT ![p] = [pc |-> "next", todo |-> @.todo \ {r}]]

SettleByPass(p, r) ==
  /\ pass[p].pc = "ask"
  /\ IsNext(p, r)
  /\ AnswerSettles(r)
  /\ SettleRow(r)
  /\ AfterRow(p, r)
  /\ UNCHANGED <<plan, referenced, decided, aged, running, intakeVars, outages>>

(* The provider has not decided, or in a word the code does not know; or   *)
(* the request or the settlement throws.                                   *)
LeaveRow(p) ==
  /\ pass[p].pc = "ask"
  /\ \E r \in Rows : IsNext(p, r) /\ AfterRow(p, r)
  /\ UNCHANGED <<rowVars, running, intakeVars, outages>>

(* retryFailedDeliveries, which is OutboundDelivery's.                     *)
RetryDeliveries(p) ==
  /\ pass[p].pc = "next"
  /\ pass[p].todo = {}
  /\ Step(p, "retry")
  /\ UNCHANGED <<rowVars, running, intakeVars, outages>>

(* Faulty: the flag is reset at the end of a pass, not in a finally block. *)
ResetAtTheEnd(p) == running' = (running /\ pass[p].pc # "retry")

(* The finally block.                                                      *)
ResetRunning(p) == running' = FALSE

(* The pass is over, or findMany or an update of the retries threw.        *)
EndPass(p) ==
  /\ pass[p].pc \in {"read", "retry"}
  /\ ResetRunning(p)
  /\ pass' = [pass EXCEPT ![p] = Idle]
  /\ UNCHANGED <<rowVars, intakeVars, outages>>

(* The process is restarted.                                               *)
Restart ==
  /\ outages < Outages
  /\ outages' = outages + 1
  /\ running' = FALSE
  /\ pass' = [p \in Passes |-> Idle]
  /\ LoseTasks
  /\ UNCHANGED rowVars

-----------------------------------------------------------------------------

PassStep(p) ==
  \/ ReadBatches(p) \/ SkipRow(p) \/ AskRow(p) \/ RetryDeliveries(p) \/ EndPass(p)

Answer(p) == LeaveRow(p) \/ \E r \in Rows : SettleByPass(p, r)

Next ==
  \/ \E r \in Rows : Create(r) \/ RecordReference(r) \/ Decide(r) \/ Age(r)
  \/ \E r \in Events : Webhook(r) \/ SettleByWebhook(r)
  \/ \E p \in Passes : StartPass(p) \/ PassStep(p) \/ Answer(p)
  \/ Restart

Spec == Init /\ [][Next]_vars

(* The interval ticks, and a pass goes on, except that the provider's      *)
(* clients set no time limit: a request may stay open for ever.  Of the    *)
(* reads and of the questions about one row it is only assumed that they   *)
(* do not fail every time.  Nothing is assumed of webhooks.                *)
FairSpec ==
  /\ Spec
  /\ WF_vars(\E p \in Passes : StartPass(p))
  /\ \A p \in Passes : WF_vars(PassStep(p))
  /\ SF_vars(\E p \in Passes : ReadBatches(p))
  /\ \A r \in Rows : SF_vars(\E p \in Passes : SettleByPass(p, r))

-----------------------------------------------------------------------------
(* Properties                                                              *)

(* Passes do not overlap, which is why OutboundDelivery has one retrier,   *)
(* and no pass that failed or died leaves the flag behind it set.          *)
OnePassAtATime ==
  \A p \in Passes :
    pass[p].pc # "idle" =>
      running /\ \A q \in Passes \ {p} : pass[q].pc = "idle"

Hangs == \E p \in Passes : pass[p].pc = "ask"

(* Errors never stop the schedule: one pass after another comes to its     *)
(* end, or the last one waits for an answer that never comes, and then     *)
(* every tick is skipped (runScheduledPass, and no timeout).               *)
PassesGoOn == []<>(~ running) \/ <>[]Hangs

(* What a pass could settle: the provider has decided, in a word the code  *)
(* knows, and the row is referenced, open and in the window.               *)
Due(r) == Candidate(r) /\ AnswerSettles(r)

Crowded(r) == Cardinality(Ahead(r)) >= BatchSize

(* The pass makes up for events that were lost, refused, claimed by a bad  *)
(* delivery or failed half way: a row that is due is settled while it is   *)
(* in the window - provided that requests are answered and that older      *)
(* rows, some of which no pass can settle, do not fill the batch for ever. *)
DueIsSettled ==
  []<>(~ Hangs) => \A r \in Rows : <>[](~ Crowded(r)) => (Due(r) ~> ~ Due(r))

=============================================================================
