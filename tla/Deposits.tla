------------------------------ MODULE Deposits ------------------------------
(***************************************************************************)
(* DepositsService and the payin half of KryptaPayWebhookService: a        *)
(* customer pays KryptaPay by mobile money, and the XAF wallet is credited *)
(* once the provider has been asked whether the payin is completed.        *)
(*                                                                         *)
(*   - a create call opens a checkout at the provider, then inserts the    *)
(*     deposit;                                                            *)
(*   - the reconciliation pass, a status poll or a verify call asks the    *)
(*     provider and credits or fails the deposit                           *)
(*     (reconcileProviderDepositStatus);                                   *)
(*   - PAYIN_RECEIVED asks the provider and credits, PAYIN_FAILED fails    *)
(*     the deposit on its own word.                                        *)
(*                                                                         *)
(* Tasks are these concurrent calls; each may crash between any two steps. *)
(* A transaction reads the deposit at one step and writes at a later one   *)
(* (READ COMMITTED, no lock in between).  idempotencyKey is unique and     *)
(* every deposit has one, so deposits are named by their key; a payin too, *)
(* since the provider answers a repeated key with the same checkout.       *)
(***************************************************************************)
EXTENDS WalletBook

CONSTANTS
  Deposits,    \* the idempotency keys of create calls
  Tasks,       \* concurrent create, reconciliation and webhook calls
  WalletOf,    \* deposit -> the XAF wallet it funds
  Amount,      \* deposit -> what it credits
  FeeBearing,  \* the deposits whose Reepay fee is not zero
  None         \* no deposit, no event

ASSUME DepositAssumption ==
  /\ WalletOf \in [Deposits -> Wallets]
  /\ Amount \in [Deposits -> Nat]
  /\ FeeBearing \subseteq Deposits
  /\ None \notin Deposits \cup {"PAYIN_RECEIVED", "PAYIN_FAILED"}

VARIABLES
  deposit,    \* Deposit.status; NONE: no row
  funded,     \* the deposits with a Transaction row
  earned,     \* the deposits with a ReepayFeeEarning row
  log,        \* WebhookLog.processingStatus of each provider event
  announced,  \* the OutboundWebhookDelivery events of each deposit
  provider,   \* what each payin has been, oldest first (external)
  sent,       \* the events the provider sends, and repeats (external)
  place,      \* whether the batches of the passes hold a deposit (external)
  task

dbVars == <<deposit, funded, earned, log, announced>>
externalVars == <<provider, sent, place>>
vars == <<bookVars, dbVars, externalVars, task>>

-----------------------------------------------------------------------------

DepositStatus == {"NONE", "PENDING", "COMPLETED", "FAILED", "CANCELLED",
                  "REFUNDED"}
Terminal == {"COMPLETED", "FAILED", "CANCELLED", "REFUNDED"}
ProviderStatus == {"pending", "completed", "failed", "cancelled", "refunded"}

(* Faulty: a refunded payin is not among the failures.                     *)
FailuresButRefunds == {"failed", "cancelled"}

Failures == {"failed", "cancelled", "refunded"}

Events == {"PAYIN_RECEIVED", "PAYIN_FAILED"}
LogStatus == {"NONE", "PROCESSING", "PROCESSED", "FAILED"}

(* A pass reads the oldest REEPAY_RECONCILIATION_BATCH_SIZE open deposits  *)
(* of the lookback window.  A deposit is in its batch, crowded out of it   *)
(* by older ones, or too old for the window.                               *)
Places == {"batch", "crowded", "aged"}

Idle == [pc |-> "idle", deposit |-> None, event |-> None, seen |-> "pending"]

Steps == {"idle", "checkout", "insert", "ask", "readCredit", "credit",
          "announceCompleted", "markFailed", "verify", "readFailure",
          "writeFailure", "announceFailed", "failLog"}

TypeOK ==
  /\ balance \in [Wallets -> Int]
  /\ ledger \in [Wallets -> Seq(Entries(Deposits, {"funding"}))]
  /\ deposit \in [Deposits -> DepositStatus]
  /\ funded \subseteq Deposits
  /\ earned \subseteq Deposits
  /\ log \in [Deposits -> [Events -> LogStatus]]
  /\ announced \in [Deposits -> Seq({"deposit.completed", "deposit.failed"})]
  /\ provider \in [Deposits -> Seq(ProviderStatus)]
  /\ sent \subseteq Deposits \X Events
  /\ place \in [Deposits -> Places]
  /\ task \in [Tasks -> [pc : Steps, deposit : Deposits \cup {None},
                         event : Events \cup {None}, seen : ProviderStatus]]

Init ==
  /\ BookInit
  /\ deposit = [d \in Deposits |-> "NONE"]
  /\ funded = {}
  /\ earned = {}
  /\ log = [d \in Deposits |-> [e \in Events |-> "NONE"]]
  /\ announced = [d \in Deposits |-> <<>>]
  /\ provider = [d \in Deposits |-> <<>>]
  /\ sent = {}
  /\ place = [d \in Deposits |-> "batch"]
  /\ task = [t \in Tasks |-> Idle]

-----------------------------------------------------------------------------
(* Helpers                                                                 *)

Current(d) == provider[d][Len(provider[d])]

Goto(t, step) == task' = [task EXCEPT ![t].pc = step]
Leave(t) == task' = [task EXCEPT ![t] = Idle]
Begin(t, step, d, e) ==
  task' = [task EXCEPT ![t] = [pc |-> step, deposit |-> d, event |-> e,
                               seen |-> "pending"]]

(* Marks the event the task serves, when it serves one.                    *)
Logged(t, status) ==
  IF task[t].event = None THEN log
  ELSE [log EXCEPT ![task[t].deposit][task[t].event] = status]

Announce(d, event) == announced' = [announced EXCEPT ![d] = Append(@, event)]

(* Faulty: the provider's word is stored as it is spelt.                   *)
FailedStatusRaw(seen) == seen

(* mapFailedDepositStatus                                                  *)
FailedStatus(seen) ==
  CASE seen = "cancelled" -> "CANCELLED"
    [] seen = "refunded" -> "REFUNDED"
    [] OTHER -> "FAILED"

(* Faulty: a payin that has not failed is taken for a completed one.       *)
PaidUnlessFailed(status) == status \notin Failures

Paid(status) == status = "completed"

(* Faulty: the row is upserted, and a second create call resets it.        *)
AlwaysInserted(d) == TRUE

(* The unique indexes of Deposit accept the new row.                       *)
DepositInsertable(d) == deposit[d] = "NONE"

(* Faulty: no unique index on Transaction.depositId and merchantReference. *)
AlwaysInsertable(d) == TRUE

(* The unique indexes of Transaction (depositId, merchantReference) accept *)
(* the deposit's transaction.                                              *)
TransactionInsertable(d) == d \notin funded

-----------------------------------------------------------------------------
(* Creation                                                                *)

(* createXafDeposit: a key that already has a deposit is answered with it. *)
StartCreate(t, d) ==
  /\ task[t].pc = "idle"
  /\ deposit[d] = "NONE"
  /\ Begin(t, "checkout", d, None)
  /\ UNCHANGED <<bookVars, dbVars, externalVars>>

(* createPayinCheckout: from here on the customer can pay, whether or not  *)
(* the row is ever inserted.  Its error leaves nothing behind.             *)
CreateCheckout(t) ==
  LET d == task[t].deposit
  IN  /\ task[t].pc = "checkout"
      /\ \/ /\ provider' = IF provider[d] = <<>>
                             THEN [provider EXCEPT ![d] = <<"pending">>]
                             ELSE provider
            /\ Goto(t, "insert")
         \/ Leave(t) /\ UNCHANGED provider
      /\ UNCHANGED <<bookVars, dbVars, sent, place>>

(* deposit.create; a unique violation is answered with a conflict.         *)
InsertDeposit(t) ==
  LET d == task[t].deposit
  IN  /\ task[t].pc = "insert"
      /\ deposit' = IF DepositInsertable(d)
                      THEN [deposit EXCEPT ![d] = "PENDING"]
                      ELSE deposit
      /\ Leave(t)
      /\ UNCHANGED <<bookVars, funded, earned, log, announced, externalVars>>

-----------------------------------------------------------------------------
(* Reconciliation                                                          *)

(* Older deposits that are open come before d or are settled, and a        *)
(* deposit that has left the window is never in a batch again (external).  *)
(* No pass cares where a settled deposit is.                               *)
PlaceMoves(d, p) ==
  /\ deposit[d] = "PENDING"
  /\ place[d] \notin {"aged", p}
  /\ place' = [place EXCEPT ![d] = p]
  /\ UNCHANGED <<bookVars, dbVars, provider, sent, task>>

(* reconcileProviderDepositStatus, which the scheduled pass and a poll of  *)
(* the status reach with a pending deposit, and verifyDeposit with one     *)
(* whose payin is decided: a terminal deposit is left alone.               *)
StartReconcile(t, d) ==
  /\ task[t].pc = "idle"
  /\ deposit[d] = "PENDING"
  /\ Begin(t, "ask", d, None)
  /\ UNCHANGED <<bookVars, dbVars, externalVars>>

(* It asks the provider, whose answer credits or fails the deposit.        *)
AskProvider(t) ==
  LET status == Current(task[t].deposit)
  IN  /\ task[t].pc = "ask"
      /\ \/ Paid(status) /\ Goto(t, "readCredit")
         \/ /\ status \in Failures
            /\ task' = [task EXCEPT ![t].pc = "markFailed", ![t].seen = status]
      /\ UNCHANGED <<bookVars, dbVars, externalVars>>

(* A payin that is still open, an error, and an amount or a currency that  *)
(* is not the deposit's all end the call.                                  *)
AskProviderFails(t) ==
  /\ task[t].pc = "ask"
  /\ Leave(t)
  /\ UNCHANGED <<bookVars, dbVars, externalVars>>

(* The failure is one guarded updateMany, with no notification and no      *)
(* outbound event.                                                         *)
MarkReconciledFailed(t) ==
  LET d == task[t].deposit
  IN  /\ task[t].pc = "markFailed"
      /\ deposit' = IF deposit[d] \in Terminal THEN deposit
                    ELSE [deposit EXCEPT ![d] = FailedStatus(task[t].seen)]
      /\ Leave(t)
      /\ UNCHANGED <<bookVars, funded, earned, log, announced, externalVars>>

-----------------------------------------------------------------------------
(* Crediting                                                               *)

(* The transaction of the reconciliation stops at a COMPLETED deposit only.*)
(* That of PAYIN_RECEIVED also refuses a deposit that is not there or has  *)
(* failed ("Deposit is not creditable").                                   *)
ReadForCredit(t) ==
  LET status == deposit[task[t].deposit]
  IN  /\ task[t].pc = "readCredit"
      /\ \/ /\ status = "COMPLETED"
            /\ log' = Logged(t, "PROCESSED")
            /\ Leave(t)
         \/ /\ status # "COMPLETED"
            /\ Goto(t, IF task[t].event = None \/ status = "PENDING"
                         THEN "credit" ELSE "failLog")
            /\ UNCHANGED log
      /\ UNCHANGED <<bookVars, deposit, funded, earned, announced, externalVars>>

(* Its writes commit together: the wallet, the transaction, the ledger     *)
(* entry, the fee earning, the deposit by its id alone, and the webhook    *)
(* log.  A second transaction row for the deposit aborts them all.         *)
Credit(t) ==
  LET d == task[t].deposit
  IN  /\ task[t].pc = "credit"
      /\ \/ /\ TransactionInsertable(d)
            /\ Post(WalletOf[d], "CREDIT", Amount[d], Source(d, "funding"))
            /\ funded' = funded \cup {d}
            /\ earned' = earned \cup ({d} \cap FeeBearing)
            /\ deposit' = [deposit EXCEPT ![d] = "COMPLETED"]
            /\ log' = Logged(t, "PROCESSED")
            /\ Goto(t, "announceCompleted")
         \/ /\ ~ TransactionInsertable(d)
            /\ IF task[t].event = None THEN Leave(t) ELSE Goto(t, "failLog")
            /\ UNCHANGED <<bookVars, funded, earned, deposit, log>>
      /\ UNCHANGED <<announced, externalVars>>

AnnounceCompleted(t) ==
  /\ task[t].pc = "announceCompleted"
  /\ Announce(task[t].deposit, "deposit.completed")
  /\ Leave(t)
  /\ UNCHANGED <<bookVars, deposit, funded, earned, log, externalVars>>

(* dispatch throws: a webhook's task fails after its commit, and its event *)
(* is logged FAILED.                                                       *)
DispatchFails(t) ==
  /\ task[t].pc \in {"announceCompleted", "announceFailed"}
  /\ IF task[t].event = None THEN Leave(t) ELSE Goto(t, "failLog")
  /\ UNCHANGED <<bookVars, dbVars, externalVars>>

-----------------------------------------------------------------------------
(* Provider and webhooks                                                   *)

(* A payin completes, fails or is cancelled, a failed one may be paid      *)
(* after all, and a completed one refunded (external).  Only completion    *)
(* and failure have an event that Reepay acts on.                          *)
Moves ==
  {<<"pending", "completed">>, <<"pending", "failed">>,
   <<"pending", "cancelled">>, <<"failed", "completed">>,
   <<"completed", "refunded">>}

ProviderMoves(d, status) ==
  /\ Len(provider[d]) > 0
  /\ <<Current(d), status>> \in Moves
  /\ provider' = [provider EXCEPT ![d] = Append(@, status)]
  /\ sent' = CASE status = "completed" -> sent \cup {<<d, "PAYIN_RECEIVED">>}
               [] status = "failed" -> sent \cup {<<d, "PAYIN_FAILED">>}
               [] OTHER -> sent
  /\ UNCHANGED <<bookVars, dbVars, place, task>>

(* Faulty: no unique index on WebhookLog(provider, eventId).               *)
NeverLogged(d, e) == TRUE

(* createWebhookLog: the unique index on (provider, eventId) lets an event *)
(* in once; a repeated delivery is acknowledged and dropped.               *)
FirstDelivery(d, e) == log[d][e] = "NONE"

HandlerOf(e) == IF e = "PAYIN_RECEIVED" THEN "verify" ELSE "readFailure"

(* acceptWebhook: the log row, and the task that runs in the background.   *)
AcceptWebhook(t, d, e) ==
  /\ task[t].pc = "idle"
  /\ <<d, e>> \in sent
  /\ FirstDelivery(d, e)
  /\ log' = [log EXCEPT ![d][e] = "PROCESSING"]
  /\ Begin(t, HandlerOf(e), d, e)
  /\ UNCHANGED <<bookVars, deposit, funded, earned, announced, externalVars>>

(* getVerifiedPayinStatus: a payin that is not completed by now, or an     *)
(* error, fails the task.                                                  *)
VerifyPayin(t) ==
  /\ task[t].pc = "verify"
  /\ \/ Paid(Current(task[t].deposit)) /\ Goto(t, "readCredit")
     \/ Goto(t, "failLog")
  /\ UNCHANGED <<bookVars, dbVars, externalVars>>

(* processPayinFailed reads the deposit: one that is COMPLETED or FAILED   *)
(* is left alone.                                                          *)
ReadForFailure(t) ==
  LET status == deposit[task[t].deposit]
  IN  /\ task[t].pc = "readFailure"
      /\ \/ /\ status \in {"COMPLETED", "FAILED"}
            /\ log' = Logged(t, "PROCESSED")
            /\ Leave(t)
         \/ /\ status \notin {"COMPLETED", "FAILED"}
            /\ Goto(t, IF status = "NONE" THEN "failLog" ELSE "writeFailure")
            /\ UNCHANGED log
      /\ UNCHANGED <<bookVars, deposit, funded, earned, announced, externalVars>>

(* ... and writes by its id alone, whatever its status is by then.         *)
WriteFailure(t) ==
  /\ task[t].pc = "writeFailure"
  /\ deposit' = [deposit EXCEPT ![task[t].deposit] = "FAILED"]
  /\ log' = Logged(t, "PROCESSED")
  /\ Goto(t, "announceFailed")
  /\ UNCHANGED <<bookVars, funded, earned, announced, externalVars>>

AnnounceFailed(t) ==
  /\ task[t].pc = "announceFailed"
  /\ Announce(task[t].deposit, "deposit.failed")
  /\ Leave(t)
  /\ UNCHANGED <<bookVars, deposit, funded, earned, log, externalVars>>

(* Faulty: an event is PROCESSED once its task has ended, however it ended.*)
MarkWebhookProcessed(t) ==
  /\ task[t].pc = "failLog"
  /\ log' = Logged(t, "PROCESSED")
  /\ Leave(t)
  /\ UNCHANGED <<bookVars, deposit, funded, earned, announced, externalVars>>

(* The catch of acceptWebhook: markWebhookFailed.                          *)
MarkWebhookFailed(t) ==
  /\ task[t].pc = "failLog"
  /\ log' = Logged(t, "FAILED")
  /\ Leave(t)
  /\ UNCHANGED <<bookVars, deposit, funded, earned, announced, externalVars>>

Crash(t) ==
  /\ task[t].pc # "idle"
  /\ Leave(t)
  /\ UNCHANGED <<bookVars, dbVars, externalVars>>

-----------------------------------------------------------------------------

Step(t) ==
  \/ \E d \in Deposits : StartCreate(t, d) \/ StartReconcile(t, d)
  \/ CreateCheckout(t) \/ InsertDeposit(t)
  \/ AskProvider(t) \/ AskProviderFails(t) \/ MarkReconciledFailed(t)
  \/ ReadForCredit(t) \/ Credit(t) \/ AnnounceCompleted(t)
  \/ DispatchFails(t)
  \/ \E d \in Deposits, e \in Events : AcceptWebhook(t, d, e)
  \/ VerifyPayin(t)
  \/ ReadForFailure(t) \/ WriteFailure(t) \/ AnnounceFailed(t)
  \/ MarkWebhookFailed(t)
  \/ Crash(t)

Next ==
  \/ \E d \in Deposits, status \in ProviderStatus : ProviderMoves(d, status)
  \/ \E d \in Deposits, p \in Places : PlaceMoves(d, p)
  \/ \E t \in Tasks : Step(t)

Spec == Init /\ [][Next]_vars

(* The passes come round and ask about each deposit of their batch, and of *)
(* no other; a row's error does not stop the others (reconcileRows).  Of   *)
(* the failures it is only assumed that they do not hit the same step of   *)
(* the same deposit's reconciliation every time.  A call under way goes on *)
(* or fails, but for one that waits for the provider: the client sets no   *)
(* time limit.  Nothing is assumed of polls, of webhooks, of the customer  *)
(* or of what the provider decides.                                        *)
PassAsks(d) == place[d] = "batch" /\ \E t \in Tasks : StartReconcile(t, d)

Serves(t, d) == task[t].deposit = d /\ task[t].event = None

AwaitsProvider(t) == task[t].pc \in {"checkout", "ask", "verify"}

Fairness ==
  /\ \A t \in Tasks :
      WF_vars(task[t].pc # "idle" /\ ~ AwaitsProvider(t) /\ Step(t))
  /\ \A d \in Deposits :
      /\ SF_vars(PassAsks(d))
      /\ SF_vars(\E t \in Tasks : Serves(t, d) /\ AskProvider(t))
      /\ SF_vars(\E t \in Tasks : Serves(t, d) /\ MarkReconciledFailed(t))
      /\ SF_vars(\E t \in Tasks : Serves(t, d) /\ ReadForCredit(t))
      /\ SF_vars(\E t \in Tasks : Serves(t, d) /\ Credit(t))

FairSpec == Spec /\ Fairness

-----------------------------------------------------------------------------
(* Properties                                                              *)

(* A payin that opened is not credited before the provider has said it is  *)
(* completed, and the fee is earned with the credit, not before            *)
(* (getVerifiedPayinStatus, reconcileProviderDepositStatus).               *)
CreditNeedsCompletion ==
  \A d \in Deposits :
    /\ Posted(Source(d, "funding")) =>
         \E i \in DOMAIN provider[d] : provider[d][i] = "completed"
    /\ d \in earned => Posted(Source(d, "funding"))

(* An event logged PROCESSED has had its effect: the credit is in the      *)
(* ledger, or the deposit is settled, whichever tasks raced with it        *)
(* (processPayinReceived and processPayinFailed log inside their           *)
(* transactions).                                                          *)
ProcessedMeansApplied ==
  \A d \in Deposits :
    /\ log[d]["PAYIN_RECEIVED"] = "PROCESSED" => Posted(Source(d, "funding"))
    /\ log[d]["PAYIN_FAILED"] = "PROCESSED" => deposit[d] \in Terminal

(* SangaPay hears at most once that a deposit is completed and at most     *)
(* once that it failed, whichever of webhook, poll and reconciliation pass *)
(* got there first.                                                        *)
AnnouncedOnce ==
  \A d \in Deposits : \A i, j \in DOMAIN announced[d] :
    announced[d][i] = announced[d][j] => i = j

(* A settled deposit stays settled.                                        *)
NeverUnsettled ==
  [][\A d \in Deposits :
       deposit[d] \in Terminal => deposit'[d] \in Terminal]_vars

(* The wallets keep the promise of Collection: a balance moves only by the *)
(* amount of a paid deposit, once each, whichever of webhook, poll and     *)
(* reconciliation pass credits it.                                         *)
Collected == INSTANCE Collection WITH
  Orders <- Deposits,
  paid <- {d \in Deposits :
             \E i \in DOMAIN provider[d] : provider[d][i] = "completed"},
  collected <- funded

CollectedOnce == Collected!CollectionSpec

(* What a pass can settle: the provider has decided about the payin, and   *)
(* the deposit is open and in the window.                                  *)
Due(d) ==
  deposit[d] = "PENDING" /\ Current(d) # "pending" /\ place[d] # "aged"

(* The reconciliation pass makes up for webhooks that are lost, refused or *)
(* cut short, however often calls crash: a deposit that is due is settled  *)
(* unless it leaves the lookback window first - provided that requests to  *)
(* the provider are answered and that older deposits do not keep it out of *)
(* the batch for ever.  One that is decided after the window, or whose     *)
(* questions fail until it closes (the amount does not match, see Pricing),*)
(* may stay PENDING.                                                       *)
DecidedIsSettled ==
  (\A t \in Tasks : []<>(~ AwaitsProvider(t))) =>
    \A d \in Deposits :
      <>[](place[d] # "crowded") => (Due(d) ~> ~ Due(d))

-----------------------------------------------------------------------------
(* What the documents say and the code does not keep                       *)

(* "After a real internal state transition, Reepay dispatches a            *)
(* provider-neutral outbound webhook" (ARCHITECTURE.md): the step that     *)
(* settles a deposit leaves its task about to announce it.                 *)
TransitionsAnnounced ==
  [][\A d \in Deposits :
       deposit[d] = "PENDING" /\ deposit'[d] \in Terminal =>
         \E t \in Tasks :
           /\ task'[t].deposit = d
           /\ task'[t].pc \in {"announceCompleted", "announceFailed"}]_vars

=============================================================================
