------------------------- MODULE WalletConversions --------------------------
(***************************************************************************)
(* WalletConversionsService: a customer's XAF wallet funds the EUR or USDC *)
(* wallet of the same customer.                                            *)
(*                                                                         *)
(*   - a confirm call debits the XAF wallet and records the conversion in  *)
(*     one transaction, then moves the money at KryptaPay: a USDC leg is a *)
(*     conversion that may complete in the answer, a EUR leg is a payout   *)
(*     to Reepay's own Wise account;                                       *)
(*   - the answer, a webhook or the reconciliation pass settles it, which  *)
(*     credits the destination wallet, or reverses it, which gives the XAF *)
(*     back.                                                               *)
(*                                                                         *)
(* Tasks are the concurrent confirm calls, webhook and reconciliation      *)
(* tasks; each serves one call after another and may crash between any two *)
(* steps.  The settle and reverse transactions read the conversion at one  *)
(* step and write at a later one: nothing locks the row in between (READ   *)
(* COMMITTED).  A quote has at most one conversion (quoteId is unique), so *)
(* conversions are named by their quote.                                   *)
(***************************************************************************)
EXTENDS WalletBook

CONSTANTS
  Quotes,       \* the WalletConversionQuote rows, all of them created
  Keys,         \* the Idempotency-Key values of confirm calls
  Tasks,        \* concurrent confirm, webhook and reconciliation tasks
  SourceOf,     \* quote -> the XAF wallet it debits
  FundedWallet, \* quote -> the wallet it credits
  TotalDebit,   \* quote -> what it debits
  Destination,  \* quote -> what it credits
  FeeBearing,   \* the quotes whose Reepay fee is not zero
  None          \* no quote, no key

ASSUME ConversionAssumption ==
  /\ SourceOf \in [Quotes -> Wallets]
  /\ FundedWallet \in [Quotes -> Wallets]
  /\ \A p, q \in Quotes : SourceOf[p] # FundedWallet[q]
  /\ TotalDebit \in [Quotes -> Nat]
  /\ Destination \in [Quotes -> Nat]
  /\ FeeBearing \subseteq Quotes
  /\ None \notin Quotes /\ None \notin Keys

VARIABLES
  quote,       \* WalletConversionQuote: open, expired or confirmed
  leg,         \* its destination currency
  conversion,  \* WalletConversion: status, key, provider reference, reversedAt
  txn,         \* the status of its WALLET_CONVERSION transaction row
  earned,      \* the conversions with a ReepayFeeEarning row
  announced,   \* the OutboundWebhookDelivery events of each conversion
  provider,    \* what the provider's side has been, oldest first (external)
  webhooks,    \* provider events not delivered yet (external)
  task

dbVars == <<quote, leg, conversion, txn, earned, announced>>
externalVars == <<provider, webhooks>>
vars == <<bookVars, dbVars, externalVars, task>>

-----------------------------------------------------------------------------

ConversionStatus == {"NONE", "PROCESSING", "COMPLETED", "FAILED"}
Outcomes == {"completed", "failed"}
ProviderStatus == {"processing"} \cup Outcomes
EventTypes == {"wallet.conversion.processing", "wallet.conversion.completed",
               "wallet.conversion.failed"}

NoConversion ==
  [status |-> "NONE", key |-> None, hasRef |-> FALSE, reversed |-> FALSE]
Idle == [pc |-> "idle", quote |-> None, key |-> None]

Steps == {"idle", "readQuote", "readWallet", "reserve", "submit", "answer",
          "dispatch", "settle", "settleWrite", "announceCompleted", "reverse",
          "reverseWrite", "announceFailed", "ask"}

TypeOK ==
  /\ balance \in [Wallets -> Int]
  /\ ledger \in [Wallets -> Seq(Entries(Quotes, {"debit", "funding", "reversal"}))]
  /\ quote \in [Quotes -> {"open", "expired", "confirmed"}]
  /\ leg \in [Quotes -> {"EUR", "USDC"}]
  /\ conversion \in [Quotes -> [status : ConversionStatus,
                                key : Keys \cup {None},
                                hasRef : BOOLEAN, reversed : BOOLEAN]]
  /\ txn \in [Quotes -> {"NONE", "PROCESSING", "COMPLETED"}]
  /\ earned \subseteq Quotes
  /\ announced \in [Quotes -> Seq(EventTypes)]
  /\ provider \in [Quotes -> Seq(ProviderStatus)]
  /\ webhooks \subseteq Quotes \X Outcomes
  /\ task \in [Tasks -> [pc : Steps, quote : Quotes \cup {None},
                         key : Keys \cup {None}]]

Init ==
  /\ BookInit
  /\ quote = [q \in Quotes |-> "open"]
  /\ leg \in [Quotes -> {"EUR", "USDC"}]
  /\ conversion = [q \in Quotes |-> NoConversion]
  /\ txn = [q \in Quotes |-> "NONE"]
  /\ earned = {}
  /\ announced = [q \in Quotes |-> <<>>]
  /\ provider = [q \in Quotes |-> <<>>]
  /\ webhooks = {}
  /\ task = [t \in Tasks |-> Idle]

-----------------------------------------------------------------------------
(* Helpers                                                                 *)

Exists(q) == conversion[q].status # "NONE"
KeyUsed(k) == \E q \in Quotes : conversion[q].key = k
Current(q) == provider[q][Len(provider[q])]

Goto(t, step) == task' = [task EXCEPT ![t].pc = step]
Leave(t) == task' = [task EXCEPT ![t] = Idle]
Begin(t, step, q) == task' = [task EXCEPT ![t].pc = step, ![t].quote = q]

(* Faulty: the event is named after the row's status.                      *)
AnnounceStatus(q, event) ==
  announced' = [announced EXCEPT ![q] = Append(@, conversion[q].status)]

Announce(q, event) == announced' = [announced EXCEPT ![q] = Append(@, event)]

(* Faulty: no unique index on WalletConversion.quoteId.                    *)
InsertableTwice(q, k) == ~ KeyUsed(k)

(* The unique indexes of WalletConversion accept the new row.              *)
Insertable(q, k) == ~ Exists(q) /\ ~ KeyUsed(k)

(* Faulty: the reversal's merchantReference is not unique.                 *)
ReversalAlwaysInsertable(q) == TRUE

(* Transaction.merchantReference is unique and a reversal's is made from   *)
(* the conversion's, so its second insert aborts the transaction.          *)
ReversalInsertable(q) == ~ conversion[q].reversed

-----------------------------------------------------------------------------
(* Confirmation                                                            *)

(* The clock passes expiresAt of a quote nobody has confirmed.             *)
ExpireQuote(q) ==
  /\ quote[q] = "open"
  /\ quote' = [quote EXCEPT ![q] = "expired"]
  /\ UNCHANGED <<bookVars, leg, conversion, txn, earned, announced,
                 externalVars, task>>

(* confirm, up to its transaction: a key that already has a conversion is  *)
(* answered with it.                                                       *)
StartConfirm(t, q, k) ==
  /\ task[t].pc = "idle"
  /\ ~ KeyUsed(k)
  /\ task' = [task EXCEPT ![t] = [pc |-> "readQuote", quote |-> q, key |-> k]]
  /\ UNCHANGED <<bookVars, dbVars, externalVars>>

ReadQuote(t) ==
  /\ task[t].pc = "readQuote"
  /\ IF quote[task[t].quote] = "open" THEN Goto(t, "readWallet") ELSE Leave(t)
  /\ UNCHANGED <<bookVars, dbVars, externalVars>>

ReadWallet(t) ==
  LET q == task[t].quote
  IN  /\ task[t].pc = "readWallet"
      /\ IF balance[SourceOf[q]] >= TotalDebit[q]
           THEN Goto(t, "reserve")
           ELSE Leave(t)
      /\ UNCHANGED <<bookVars, dbVars, externalVars>>

(* The writes of reserveSourceWallet commit together, or abort together on *)
(* a unique violation.  The conversion is PROCESSING from the start.       *)
Reserve(t) ==
  LET q == task[t].quote
      k == task[t].key
  IN  /\ task[t].pc = "reserve"
      /\ \/ /\ Insertable(q, k)
            /\ Post(SourceOf[q], "DEBIT", TotalDebit[q], Source(q, "debit"))
            /\ conversion' = [conversion EXCEPT ![q] =
                 [status |-> "PROCESSING", key |-> k, hasRef |-> FALSE,
                  reversed |-> FALSE]]
            /\ txn' = [txn EXCEPT ![q] = "PROCESSING"]
            /\ quote' = [quote EXCEPT ![q] = "confirmed"]
            /\ Goto(t, "submit")
         \/ /\ ~ Insertable(q, k)
            /\ Leave(t)
            /\ UNCHANGED <<bookVars, conversion, txn, quote>>
      /\ UNCHANGED <<leg, earned, announced, externalVars>>

(* KryptaPay takes the conversion (USDC) or the payout (EUR).              *)
ProviderAccepts(t) ==
  /\ task[t].pc = "submit"
  /\ provider' = [provider EXCEPT ![task[t].quote] = Append(@, "processing")]
  /\ Goto(t, "answer")
  /\ UNCHANGED <<bookVars, dbVars, webhooks>>

(* An error inside the try block: the EUR funding account is not           *)
(* configured, the provider refuses, its answer is lost, or the update or  *)
(* the dispatch fails.  An error of settleConversion is not one: its       *)
(* promise is returned, not awaited, and the catch block misses it.        *)
SubmissionFails(t) ==
  /\ task[t].pc \in {"submit", "answer", "dispatch"}
  /\ Goto(t, "reverse")
  /\ UNCHANGED <<bookVars, dbVars, externalVars>>

(* The answer to executeConversion says completed.                         *)
AnswerCompleted(t) ==
  LET q == task[t].quote
  IN  /\ task[t].pc = "answer"
      /\ leg[q] = "USDC" /\ Current(q) = "completed"
      /\ Goto(t, "settle")
      /\ UNCHANGED <<bookVars, dbVars, externalVars>>

(* Any other answer: the update sets PROCESSING by id alone, whatever the  *)
(* conversion's status is by then.                                         *)
RecordSubmission(t) ==
  LET q == task[t].quote
  IN  /\ task[t].pc = "answer"
      /\ conversion' = [conversion EXCEPT ![q].status = "PROCESSING",
                                          ![q].hasRef = TRUE]
      /\ Goto(t, "dispatch")
      /\ UNCHANGED <<bookVars, quote, leg, txn, earned, announced, externalVars>>

DispatchProcessing(t) ==
  /\ task[t].pc = "dispatch"
  /\ Announce(task[t].quote, "wallet.conversion.processing")
  /\ Leave(t)
  /\ UNCHANGED <<bookVars, quote, leg, conversion, txn, earned, externalVars>>

-----------------------------------------------------------------------------
(* Settlement and reversal                                                 *)

(* settleConversion reads the conversion, and stops when it is COMPLETED;  *)
(* one that was reversed goes through.                                     *)
ReadForSettle(t) ==
  /\ task[t].pc = "settle"
  /\ IF conversion[task[t].quote].status = "COMPLETED"
       THEN Leave(t)
       ELSE Goto(t, "settleWrite")
  /\ UNCHANGED <<bookVars, dbVars, externalVars>>

(* ... and writes what it then decided, without looking again: the upsert  *)
(* increments the destination wallet and no unique index stops a second    *)
(* credit.                                                                 *)
Settle(t) ==
  LET q == task[t].quote
  IN  /\ task[t].pc = "settleWrite"
      /\ Post(FundedWallet[q], "CREDIT", Destination[q], Source(q, "funding"))
      /\ conversion' = [conversion EXCEPT ![q].status = "COMPLETED",
                                          ![q].hasRef = TRUE]
      /\ txn' = [txn EXCEPT ![q] = "COMPLETED"]
      /\ earned' = earned \cup ({q} \cap FeeBearing)
      /\ Goto(t, "announceCompleted")
      /\ UNCHANGED <<quote, leg, announced, externalVars>>

AnnounceCompleted(t) ==
  /\ task[t].pc = "announceCompleted"
  /\ Announce(task[t].quote, "wallet.conversion.completed")
  /\ Leave(t)
  /\ UNCHANGED <<bookVars, quote, leg, conversion, txn, earned, externalVars>>

(* reverseConversion reads the conversion, and stops when it has been      *)
(* reversed; a COMPLETED one goes through.                                 *)
ReadForReverse(t) ==
  /\ task[t].pc = "reverse"
  /\ IF conversion[task[t].quote].reversed
       THEN Leave(t)
       ELSE Goto(t, "reverseWrite")
  /\ UNCHANGED <<bookVars, dbVars, externalVars>>

(* Its writes; the WALLET_CONVERSION transaction is not among them.        *)
Reverse(t) ==
  LET q == task[t].quote
  IN  /\ task[t].pc = "reverseWrite"
      /\ \/ /\ ReversalInsertable(q)
            /\ Post(SourceOf[q], "CREDIT", TotalDebit[q], Source(q, "reversal"))
            /\ conversion' = [conversion EXCEPT ![q].status = "FAILED",
                                                ![q].reversed = TRUE]
            /\ Goto(t, "announceFailed")
         \/ /\ ~ ReversalInsertable(q)
            /\ Leave(t)
            /\ UNCHANGED <<bookVars, conversion>>
      /\ UNCHANGED <<quote, leg, txn, earned, announced, externalVars>>

AnnounceFailed(t) ==
  /\ task[t].pc = "announceFailed"
  /\ Announce(task[t].quote, "wallet.conversion.failed")
  /\ Leave(t)
  /\ UNCHANGED <<bookVars, quote, leg, conversion, txn, earned, externalVars>>

-----------------------------------------------------------------------------
(* Provider, webhooks and reconciliation                                   *)

(* The provider's side completes or fails (external).  A completed EUR     *)
(* payout may still be refunded, which is claimed as a failure.  A USDC    *)
(* conversion has no event of failure.                                     *)
ProviderMoves(q, status) ==
  /\ Len(provider[q]) > 0
  /\ \/ Current(q) = "processing"
     \/ Current(q) = "completed" /\ status = "failed" /\ leg[q] = "EUR"
  /\ provider' = [provider EXCEPT ![q] = Append(@, status)]
  /\ webhooks' = IF leg[q] = "USDC" /\ status = "failed"
                   THEN webhooks ELSE webhooks \cup {<<q, status>>}
  /\ UNCHANGED <<bookVars, dbVars, task>>

(* Faulty: the provider is given the merchant reference of a EUR leg too.  *)
FindableByAnyone(q) == Exists(q)

(* findFirst by providerReference or merchantReference: executeConversion  *)
(* sends the merchant reference along, so a USDC event may carry it before *)
(* the provider's own is recorded.                                         *)
Findable(q) == conversion[q].hasRef \/ (leg[q] = "USDC" /\ Exists(q))

(* Faulty: what kind of event it is is not looked at.                      *)
HandlerOfAny(status) == "settle"

HandlerOf(status) == IF status = "completed" THEN "settle" ELSE "reverse"

(* tryMarkProviderConversionSettled and tryMarkProviderConversionFailed:   *)
(* the event's word is applied as it stands.                               *)
AcceptWebhook(t, q, status) ==
  /\ task[t].pc = "idle"
  /\ <<q, status>> \in webhooks
  /\ Findable(q)
  /\ webhooks' = webhooks \ {<<q, status>>}
  /\ Begin(t, HandlerOf(status), q)
  /\ UNCHANGED <<bookVars, dbVars, provider>>

(* No conversion has the event's reference: it is taken for a payout's,    *)
(* which does not exist either, and the task fails.                        *)
WebhookNotFound(t, q, status) ==
  /\ task[t].pc = "idle"
  /\ <<q, status>> \in webhooks
  /\ ~ conversion[q].hasRef
  /\ webhooks' = webhooks \ {<<q, status>>}
  /\ UNCHANGED <<bookVars, dbVars, provider, task>>

(* reconcileProviderConversionStatus: only a EUR leg that is not terminal  *)
(* and has a provider reference can be asked about.                        *)
StartReconcile(t, q) ==
  /\ task[t].pc = "idle"
  /\ conversion[q].status = "PROCESSING"
  /\ conversion[q].hasRef
  /\ leg[q] = "EUR"
  /\ Begin(t, "ask", q)
  /\ UNCHANGED <<bookVars, dbVars, externalVars>>

AskProvider(t) ==
  LET q == task[t].quote
  IN  /\ task[t].pc = "ask"
      /\ IF Current(q) \in Outcomes
           THEN Goto(t, HandlerOf(Current(q)))
           ELSE Leave(t)
      /\ UNCHANGED <<bookVars, dbVars, externalVars>>

Crash(t) ==
  /\ task[t].pc # "idle"
  /\ Leave(t)
  /\ UNCHANGED <<bookVars, dbVars, externalVars>>

-----------------------------------------------------------------------------

Step(t) ==
  \/ \E q \in Quotes, k \in Keys : StartConfirm(t, q, k)
  \/ ReadQuote(t) \/ ReadWallet(t) \/ Reserve(t)
  \/ ProviderAccepts(t) \/ SubmissionFails(t)
  \/ AnswerCompleted(t) \/ RecordSubmission(t) \/ DispatchProcessing(t)
  \/ ReadForSettle(t) \/ Settle(t) \/ AnnounceCompleted(t)
  \/ ReadForReverse(t) \/ Reverse(t) \/ AnnounceFailed(t)
  \/ \E q \in Quotes, status \in Outcomes :
       AcceptWebhook(t, q, status) \/ WebhookNotFound(t, q, status)
  \/ \E q \in Quotes : StartReconcile(t, q)
  \/ AskProvider(t)
  \/ Crash(t)

Next ==
  \/ \E q \in Quotes : ExpireQuote(q)
  \/ \E q \in Quotes, status \in Outcomes : ProviderMoves(q, status)
  \/ \E t \in Tasks : Step(t)

Spec == Init /\ [][Next]_vars

-----------------------------------------------------------------------------
(* Properties                                                              *)

(* A conversion is handed to the provider at most once, and only when its  *)
(* XAF debit is in the ledger (confirm).                                   *)
SubmittedOnce ==
  \A q \in Quotes :
    /\ \A i, j \in DOMAIN provider[q] :
         provider[q][i] = "processing" /\ provider[q][j] = "processing" => i = j
    /\ provider[q] # <<>> => Posted(Source(q, "debit"))

(* The destination wallet is credited only once the provider has reported  *)
(* completion, although no webhook is verified (settleConversion).         *)
FundedAfterCompletion ==
  \A q \in Quotes :
    Posted(Source(q, "funding")) =>
      \E i \in DOMAIN provider[q] : provider[q][i] = "completed"

(* The rows agree on where the money is: the debit, the credit and the     *)
(* reversal entries are there exactly when the rows say so.  A conversion  *)
(* that was reversed or settled is not PROCESSING again, unless a late     *)
(* answer of executeConversion overwrote COMPLETED.                        *)
RowsMatchLedger ==
  \A q \in Quotes :
    /\ Exists(q) <=> Posted(Source(q, "debit"))
    /\ conversion[q].reversed <=> Posted(Source(q, "reversal"))
    /\ conversion[q].status = "COMPLETED" => Posted(Source(q, "funding"))
    /\ conversion[q].status = "FAILED" => conversion[q].reversed
    /\ conversion[q].status = "PROCESSING" => ~ conversion[q].reversed
    /\ conversion[q].status = "PROCESSING" /\ Posted(Source(q, "funding"))
         => leg[q] = "USDC"
    /\ txn[q] = "COMPLETED" <=> Posted(Source(q, "funding"))
    /\ q \in earned => txn[q] = "COMPLETED"

(* The XAF side keeps the promise of Escrow: it is debited at most once    *)
(* and given back at most once, however settlements and reversals race.    *)
SourceWallets == {SourceOf[q] : q \in Quotes}

SourceEscrow == INSTANCE Escrow WITH
  Orders <- Quotes, Wallets <- SourceWallets, WalletOf <- SourceOf,
  Amount <- TotalDebit,
  Opening <- [w \in SourceWallets |-> Opening[w]],
  balance <- [w \in SourceWallets |-> balance[w]],
  taken <- {q \in Quotes : Exists(q)},
  returned <- {q \in Quotes : conversion[q].reversed}

SourceEscrowKept == SourceEscrow!EscrowSpec

-----------------------------------------------------------------------------
(* What the documents say and the code does not keep                       *)

(* "Duplicate event IDs are acknowledged but not processed again,          *)
(* preventing duplicate wallet credits" (ARCHITECTURE.md): a conversion    *)
(* credits its destination at most once.                                   *)
FundedOnce ==
  \A q \in Quotes : \A i, j \in DOMAIN ledger[FundedWallet[q]] :
    /\ ledger[FundedWallet[q]][i].source = Source(q, "funding")
    /\ ledger[FundedWallet[q]][j].source = Source(q, "funding")
    => i = j

=============================================================================
