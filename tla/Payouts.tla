------------------------------- MODULE Payouts ------------------------------
(***************************************************************************)
(* PayoutsService: a customer's wallet pays a recipient outside Reepay     *)
(* through Wise (EUR) or KryptaPay (USDC address).                         *)
(*                                                                         *)
(*   - a quote is created, and expires after 15 minutes;                   *)
(*   - a confirm call debits the wallet and records the payout in one      *)
(*     database transaction, submits it to the provider, and records the   *)
(*     provider's reference; any error after the debit reverses it;        *)
(*   - a provider webhook or the reconciliation pass settles the payout:   *)
(*     completes it, or reverses the debit with a credit.                  *)
(*                                                                         *)
(* Handlers are concurrent confirm calls, Settlers the concurrent webhook  *)
(* and reconciliation tasks; each serves one call after another and may    *)
(* crash between any two steps.  A database transaction runs at READ       *)
(* COMMITTED: what it reads it reads at separate steps, what it writes     *)
(* commits in one step, where its guarded updates and the unique indexes   *)
(* are evaluated again.  An early return that changes nothing is a         *)
(* stuttering step.                                                        *)
(*                                                                         *)
(* A quote has at most one payout (Payout.quoteId is unique), so payouts   *)
(* are named by their quote.                                               *)
(***************************************************************************)
EXTENDS WalletBook

CONSTANTS
  Quotes,       \* the PayoutQuote rows
  Keys,         \* the Idempotency-Key values of confirm calls
  Handlers,     \* concurrent confirm calls
  Settlers,     \* concurrent webhook and reconciliation tasks
  WalletOf,     \* quote -> the wallet it debits
  TotalDebit,   \* quote -> what it debits: amount + provider fee + Reepay fee
  FeeBearing,   \* the quotes whose Reepay fee is not zero
  None          \* no quote, no key

ASSUME PayoutAssumption ==
  /\ WalletOf \in [Quotes -> Wallets]
  /\ TotalDebit \in [Quotes -> Nat]
  /\ FeeBearing \subseteq Quotes
  /\ None \notin Quotes /\ None \notin Keys

VARIABLES
  quote,      \* PayoutQuote: absent, open, expired or confirmed
  rail,       \* its provider: wise for an IBAN or a Wisetag, kryptapay for USDC
  payout,     \* Payout: its status, key, provider reference and reversedAt
  txn,        \* the statuses of its Transaction rows, debit and reversal
  earned,     \* the payouts with a ReepayFeeEarning row
  announced,  \* the OutboundWebhookDelivery events of each payout, in order
  provider,   \* what each provider payout has been, oldest first (external)
  webhooks,   \* provider events not delivered yet (external)
  handler,    \* the confirm calls
  settler     \* the webhook and reconciliation tasks

dbVars == <<quote, rail, payout, txn, earned, announced>>
externalVars == <<provider, webhooks>>
vars == <<bookVars, dbVars, externalVars, handler, settler>>

-----------------------------------------------------------------------------

PayoutStatus == {"NONE", "PENDING", "PROCESSING", "COMPLETED", "FAILED",
                 "REFUNDED"}
TransactionStatus == {"NONE", "PROCESSING", "COMPLETED", "FAILED", "REFUNDED"}
ProviderStatus == {"processing", "completed", "failed", "refunded"}
Rails == {"wise", "kryptapay"}
Outcomes == {"completed", "failed", "refunded"}
EventTypes == {"payout.processing", "payout.completed", "payout.failed",
               "payout.refunded"}

(* isTerminalPayoutStatus; CANCELLED is never written to a payout.         *)
Terminal == {"COMPLETED", "FAILED", "REFUNDED"}

NoPayout == [status |-> "NONE", key |-> None, hasRef |-> FALSE,
             reversed |-> FALSE]
Idle == [pc |-> "idle", quote |-> None, key |-> None]
Resting == [pc |-> "idle", quote |-> None, claim |-> "completed",
            seen |-> "unknown"]

HandlerSteps == {"idle", "readQuote", "readWallet", "reserve", "submit",
                 "record", "announce", "reverse", "announceReversal"}
SettlerSteps == {"idle", "ask", "query", "apply", "announce"}

PayoutRow == [status : PayoutStatus, key : Keys \cup {None}, hasRef : BOOLEAN,
              reversed : BOOLEAN]
TransactionRows == [debit : TransactionStatus, reversal : TransactionStatus]
Call == [pc : HandlerSteps, quote : Quotes \cup {None}, key : Keys \cup {None}]
Settlement == [pc : SettlerSteps, quote : Quotes \cup {None}, claim : Outcomes,
               seen : ProviderStatus \cup {"unknown"}]

TypeOK ==
  /\ balance \in [Wallets -> Int]
  /\ ledger \in [Wallets -> Seq(Entries(Quotes, {"debit", "reversal"}))]
  /\ quote \in [Quotes -> {"absent", "open", "expired", "confirmed"}]
  /\ rail \in [Quotes -> Rails]
  /\ payout \in [Quotes -> PayoutRow]
  /\ txn \in [Quotes -> TransactionRows]
  /\ earned \subseteq Quotes
  /\ announced \in [Quotes -> Seq(EventTypes)]
  /\ provider \in [Quotes -> Seq(ProviderStatus)]
  /\ webhooks \subseteq Quotes \X Outcomes
  /\ handler \in [Handlers -> Call]
  /\ settler \in [Settlers -> Settlement]

Init ==
  /\ BookInit
  /\ quote = [q \in Quotes |-> "absent"]
  /\ rail \in [Quotes -> Rails]
  /\ payout = [q \in Quotes |-> NoPayout]
  /\ txn = [q \in Quotes |-> [debit |-> "NONE", reversal |-> "NONE"]]
  /\ earned = {}
  /\ announced = [q \in Quotes |-> <<>>]
  /\ provider = [q \in Quotes |-> <<>>]
  /\ webhooks = {}
  /\ handler = [h \in Handlers |-> Idle]
  /\ settler = [s \in Settlers |-> Resting]

-----------------------------------------------------------------------------
(* Helpers                                                                 *)

Exists(q) == payout[q].status # "NONE"

KeyUsed(k) == \E q \in Quotes : payout[q].key = k

Goto(h, step) == handler' = [handler EXCEPT ![h].pc = step]
Leave(h) == handler' = [handler EXCEPT ![h] = Idle]
Rest(s) == settler' = [settler EXCEPT ![s] = Resting]

(* SangaPayWebhookDispatcher.dispatch, as far as this component sees it:   *)
(* the event is recorded and sent.                                         *)
Announce(q, event) == announced' = [announced EXCEPT ![q] = Append(@, event)]

(* Faulty: the payout's transactions are left as they were.                *)
TransactionsUntouched(t, status) == t

(* transaction.updateMany({payoutId}): every transaction row of the payout,*)
(* the reversal too when there is one.                                     *)
AllTransactions(t, status) ==
  [debit |-> status,
   reversal |-> IF t.reversal = "NONE" THEN "NONE" ELSE status]

(* Faulty: any payout that is not FAILED is reversed.                      *)
ReversibleUnlessFailed(q) == payout[q].status # "FAILED"

(* The guard of reversePayout's updateMany: where reversedAt is null.      *)
Reversible(q) == ~ payout[q].reversed

(* The transaction of reversePayout, once its guard holds.  The row it     *)
(* reads first gives only columns that no one changes, and the final       *)
(* updateMany also overwrites the COMPLETED status of the reversal         *)
(* transaction it has just created.                                        *)
ReversePayout(q, status) ==
  /\ payout' = [payout EXCEPT ![q].status = status, ![q].reversed = TRUE]
  /\ Post(WalletOf[q], "CREDIT", TotalDebit[q], Source(q, "reversal"))
  /\ txn' = [txn EXCEPT ![q] =
       AllTransactions([@ EXCEPT !.reversal = "COMPLETED"], status)]

-----------------------------------------------------------------------------
(* Quotes                                                                  *)

(* createWalletPayoutQuote.  A repeated Idempotency-Key returns the quote  *)
(* that is already there.                                                  *)
CreateQuote(q) ==
  /\ quote[q] = "absent"
  /\ quote' = [quote EXCEPT ![q] = "open"]
  /\ UNCHANGED <<bookVars, rail, payout, txn, earned, announced,
                 externalVars, handler, settler>>

(* The clock passes expiresAt of a quote nobody has confirmed.             *)
ExpireQuote(q) ==
  /\ quote[q] = "open"
  /\ quote' = [quote EXCEPT ![q] = "expired"]
  /\ UNCHANGED <<bookVars, rail, payout, txn, earned, announced,
                 externalVars, handler, settler>>

-----------------------------------------------------------------------------
(* Confirmation                                                            *)

(* confirmWalletPayout up to its transaction: a key that already has a     *)
(* payout is answered with it, outside any transaction.                    *)
StartConfirm(h, q, k) ==
  /\ handler[h].pc = "idle"
  /\ quote[q] # "absent"
  /\ ~ KeyUsed(k)
  /\ handler' = [handler EXCEPT
       ![h] = [pc |-> "readQuote", quote |-> q, key |-> k]]
  /\ UNCHANGED <<bookVars, dbVars, externalVars, settler>>

(* The transaction reads the quote, and refuses it when it has expired or  *)
(* has been confirmed.                                                     *)
ReadQuote(h) ==
  /\ handler[h].pc = "readQuote"
  /\ IF quote[handler[h].quote] = "open" THEN Goto(h, "readWallet") ELSE Leave(h)
  /\ UNCHANGED <<bookVars, dbVars, externalVars, settler>>

(* The transaction reads the wallet without locking it, and refuses to     *)
(* debit more than the balance it saw.                                     *)
ReadWallet(h) ==
  LET q == handler[h].quote
  IN  /\ handler[h].pc = "readWallet"
      /\ IF balance[WalletOf[q]] >= TotalDebit[q]
           THEN Goto(h, "reserve")
           ELSE Leave(h)
      /\ UNCHANGED <<bookVars, dbVars, externalVars, settler>>

(* Faulty: no unique index on Payout.quoteId and merchantReference.        *)
InsertableTwice(q, k) == ~ KeyUsed(k)

(* The unique indexes of Payout (quoteId, merchantReference, which is the  *)
(* quote's, and idempotencyKey) accept the new row.                        *)
Insertable(q, k) == ~ Exists(q) /\ ~ KeyUsed(k)

(* The writes of reserveWalletCurrencyPayoutDebit commit together: the     *)
(* relative decrement of the wallet, the payout, its transaction and its   *)
(* ledger entry, and the quote's confirmedAt.  A unique violation aborts   *)
(* them all.                                                               *)
Reserve(h) ==
  LET q == handler[h].quote
      k == handler[h].key
  IN  /\ handler[h].pc = "reserve"
      /\ \/ /\ Insertable(q, k)
            /\ Post(WalletOf[q], "DEBIT", TotalDebit[q], Source(q, "debit"))
            /\ payout' = [payout EXCEPT ![q] =
                 [status |-> "PENDING", key |-> k, hasRef |-> FALSE,
                  reversed |-> FALSE]]
            /\ txn' = [txn EXCEPT ![q].debit = "PROCESSING"]
            /\ quote' = [quote EXCEPT ![q] = "confirmed"]
            /\ Goto(h, "submit")
         \/ /\ ~ Insertable(q, k)
            /\ Leave(h)
            /\ UNCHANGED <<bookVars, payout, txn, quote>>
      /\ UNCHANGED <<rail, earned, announced, externalVars, settler>>

(* The provider takes the payout: from here on it may pay the recipient,   *)
(* whether or not its answer reaches the handler.                          *)
ProviderAccepts(h) ==
  /\ handler[h].pc = "submit"
  /\ provider' = [provider EXCEPT ![handler[h].quote] = Append(@, "processing")]
  /\ Goto(h, "record")
  /\ UNCHANGED <<bookVars, dbVars, webhooks, settler>>

(* An error inside the try block: the provider refuses (or Wise's fee is   *)
(* no longer the quoted one), its answer is lost, or a later statement of  *)
(* the block fails.  The catch block does not tell these apart.            *)
SubmissionFails(h) ==
  /\ handler[h].pc \in {"submit", "record", "announce"}
  /\ Goto(h, "reverse")
  /\ UNCHANGED <<bookVars, dbVars, externalVars, settler>>

(* The provider's answer arrives and the payout takes its reference.  The  *)
(* update names the payout by id alone, so it would overwrite any status.  *)
RecordSubmission(h) ==
  /\ handler[h].pc = "record"
  /\ payout' = [payout EXCEPT ![handler[h].quote].status = "PROCESSING",
                              ![handler[h].quote].hasRef = TRUE]
  /\ Goto(h, "announce")
  /\ UNCHANGED <<bookVars, quote, rail, txn, earned, announced, externalVars,
                 settler>>

AnnounceProcessing(h) ==
  /\ handler[h].pc = "announce"
  /\ Announce(handler[h].quote, "payout.processing")
  /\ Leave(h)
  /\ UNCHANGED <<bookVars, quote, rail, payout, txn, earned, externalVars,
                 settler>>

(* The catch block: reversePayout with the default status FAILED.          *)
ReverseSubmission(h) ==
  LET q == handler[h].quote
  IN  /\ handler[h].pc = "reverse"
      /\ \/ /\ Reversible(q)
            /\ ReversePayout(q, "FAILED")
            /\ Goto(h, "announceReversal")
         \/ /\ ~ Reversible(q)
            /\ Leave(h)
            /\ UNCHANGED <<bookVars, payout, txn>>
      /\ UNCHANGED <<quote, rail, earned, announced, externalVars, settler>>

AnnounceReversal(h) ==
  /\ handler[h].pc = "announceReversal"
  /\ Announce(handler[h].quote, "payout.failed")
  /\ Leave(h)
  /\ UNCHANGED <<bookVars, quote, rail, payout, txn, earned, externalVars,
                 settler>>

(* The process dies, or its database connection does: the call is gone and *)
(* nothing resumes it.                                                     *)
HandlerCrash(h) ==
  /\ handler[h].pc # "idle"
  /\ Leave(h)
  /\ UNCHANGED <<bookVars, dbVars, externalVars, settler>>

-----------------------------------------------------------------------------
(* The provider (external)                                                 *)

Current(q) == provider[q][Len(provider[q])]

(* What the provider may answer when it is asked: its answer can lag behind *)
(* its webhooks.                                                           *)
Answers(q) == {provider[q][i] : i \in DOMAIN provider[q]}

(* A payout completes, fails or is refunded; Wise calls a transfer whose   *)
(* funds were converted or sent completed, and it can still bounce or be   *)
(* refunded after that.  Each change is sent as a webhook.                 *)
Moves(r) ==
  {<<"processing", "completed">>, <<"processing", "failed">>,
   <<"processing", "refunded">>, <<"completed", "refunded">>,
   <<"failed", "refunded">>}
  \cup IF r = "wise" THEN {<<"completed", "failed">>} ELSE {}

ProviderMoves(q, status) ==
  /\ Len(provider[q]) > 0
  /\ <<Current(q), status>> \in Moves(rail[q])
  /\ provider' = [provider EXCEPT ![q] = Append(@, status)]
  /\ webhooks' = webhooks \cup {<<q, status>>}
  /\ UNCHANGED <<bookVars, dbVars, handler, settler>>

-----------------------------------------------------------------------------
(* Settlement                                                              *)

(* A webhook is accepted once (its event id is unique in WebhookLog) and   *)
(* processed in the background; a cancelled payout is claimed as failed.   *)
AcceptWebhook(s, q, status) ==
  /\ settler[s].pc = "idle"
  /\ <<q, status>> \in webhooks
  /\ webhooks' = webhooks \ {<<q, status>>}
  /\ settler' = [settler EXCEPT ![s] =
       [pc |-> "query", quote |-> q, claim |-> status, seen |-> "unknown"]]
  /\ UNCHANGED <<bookVars, dbVars, provider, handler>>

(* reconcileProviderPayoutStatus reads the payout: a terminal one, or one  *)
(* without a provider reference, is left alone.                            *)
StartReconcile(s, q) ==
  /\ settler[s].pc = "idle"
  /\ payout[q].status \in {"PENDING", "PROCESSING"}
  /\ payout[q].hasRef
  /\ settler' = [settler EXCEPT ![s].pc = "ask", ![s].quote = q]
  /\ UNCHANGED <<bookVars, dbVars, externalVars, handler>>

(* ... and asks the provider, whose outcome becomes the claim.             *)
AskProvider(s) ==
  LET q == settler[s].quote
  IN  /\ settler[s].pc = "ask"
      /\ \E status \in Answers(q) :
           IF status \in Outcomes
             THEN settler' = [settler EXCEPT ![s].pc = "query",
                                             ![s].claim = status]
             ELSE Rest(s)
      /\ UNCHANGED <<bookVars, dbVars, externalVars, handler>>

(* markWisePayoutSettled and markProviderPayoutSettled first ask the       *)
(* provider (again).  An error ends the KryptaPay task; with Wise it is    *)
(* swallowed, and the status stays unknown.                                *)
QueryProvider(s) ==
  LET q == settler[s].quote
  IN  /\ settler[s].pc = "query"
      /\ \/ \E status \in Answers(q) :
              settler' = [settler EXCEPT ![s].pc = "apply", ![s].seen = status]
         \/ rail[q] = "wise" /\ settler' = [settler EXCEPT ![s].pc = "apply"]
         \/ rail[q] = "kryptapay" /\ Rest(s)
      /\ UNCHANGED <<bookVars, dbVars, externalVars, handler>>

(* Faulty: what the provider says is not compared with the claim.          *)
CompletionUnverified(s) == settler[s].claim # "failed"

(* The claim of completion is borne out, or (Wise) could not be checked.   *)
ShowsCompletion(s) ==
  /\ settler[s].claim = "completed"
  /\ settler[s].seen \in {"completed", "unknown"}

(* Faulty: a payout that is not completed is taken for a failed one.       *)
AnythingElseFails(s) == TRUE

(* A claim of failure is taken as it is; otherwise the provider has to     *)
(* report one.                                                             *)
ShowsFailure(s) ==
  {settler[s].claim, settler[s].seen} \cap {"failed", "refunded"} # {}

(* KryptaPay's refund shows in the claim or in the answer, Wise's in the   *)
(* claim alone.                                                            *)
FailureStatus(s) ==
  IF \/ settler[s].claim = "refunded"
     \/ rail[settler[s].quote] = "kryptapay" /\ settler[s].seen = "refunded"
  THEN "REFUNDED" ELSE "FAILED"

(* Faulty: the payout is looked for by its own reference, which it has     *)
(* from the start.                                                         *)
FoundByMerchantReference(q) == Exists(q)

(* The payout is looked for by the provider's references.                  *)
Found(q) == payout[q].hasRef

(* No payout has the reference: NotFoundException ends the task.           *)
SettlementNotFound(s) ==
  /\ settler[s].pc = "apply"
  /\ ~ Found(settler[s].quote)
  /\ Rest(s)
  /\ UNCHANGED <<bookVars, dbVars, externalVars, handler>>

(* The completion transaction: guarded by the status alone, so a payout    *)
(* that was reversed passes it too.                                        *)
ApplyCompletion(s) ==
  LET q == settler[s].quote
  IN  /\ settler[s].pc = "apply"
      /\ Found(q)
      /\ ShowsCompletion(s)
      /\ \/ /\ payout[q].status # "COMPLETED"
            /\ payout' = [payout EXCEPT ![q].status = "COMPLETED"]
            /\ txn' = [txn EXCEPT ![q] = AllTransactions(@, "COMPLETED")]
            /\ earned' = earned \cup ({q} \cap FeeBearing)
            /\ settler' = [settler EXCEPT ![s].pc = "announce"]
         \/ /\ payout[q].status = "COMPLETED"
            /\ Rest(s)
            /\ UNCHANGED <<payout, txn, earned>>
      /\ UNCHANGED <<bookVars, quote, rail, announced, externalVars, handler>>

ApplyFailure(s) ==
  LET q == settler[s].quote
  IN  /\ settler[s].pc = "apply"
      /\ Found(q)
      /\ ~ ShowsCompletion(s)
      /\ ShowsFailure(s)
      /\ \/ /\ Reversible(q)
            /\ ReversePayout(q, FailureStatus(s))
            /\ settler' = [settler EXCEPT ![s].pc = "announce"]
         \/ /\ ~ Reversible(q)
            /\ Rest(s)
            /\ UNCHANGED <<bookVars, payout, txn>>
      /\ UNCHANGED <<quote, rail, earned, announced, externalVars, handler>>

(* A claim of completion the provider does not bear out, while it reports  *)
(* no failure either: nothing happens.                                     *)
SettlementIgnored(s) ==
  /\ settler[s].pc = "apply"
  /\ Found(settler[s].quote)
  /\ ~ ShowsCompletion(s) /\ ~ ShowsFailure(s)
  /\ Rest(s)
  /\ UNCHANGED <<bookVars, dbVars, externalVars, handler>>

(* The event is built inside the transaction and dispatched after its      *)
(* commit: its type is the outcome the task applied, not the status the    *)
(* payout has by then.                                                     *)
AnnounceSettlement(s) ==
  /\ settler[s].pc = "announce"
  /\ Announce(settler[s].quote,
       IF ShowsCompletion(s) THEN "payout.completed"
       ELSE IF FailureStatus(s) = "REFUNDED" THEN "payout.refunded"
       ELSE "payout.failed")
  /\ Rest(s)
  /\ UNCHANGED <<bookVars, quote, rail, payout, txn, earned, externalVars,
                 handler>>

SettlerCrash(s) ==
  /\ settler[s].pc # "idle"
  /\ Rest(s)
  /\ UNCHANGED <<bookVars, dbVars, externalVars, handler>>

-----------------------------------------------------------------------------

HandlerStep(h) ==
  \/ \E q \in Quotes, k \in Keys : StartConfirm(h, q, k)
  \/ ReadQuote(h) \/ ReadWallet(h) \/ Reserve(h)
  \/ ProviderAccepts(h) \/ SubmissionFails(h) \/ RecordSubmission(h)
  \/ AnnounceProcessing(h)
  \/ ReverseSubmission(h) \/ AnnounceReversal(h)
  \/ HandlerCrash(h)

SettlerStep(s) ==
  \/ \E q \in Quotes, status \in Outcomes : AcceptWebhook(s, q, status)
  \/ \E q \in Quotes : StartReconcile(s, q)
  \/ AskProvider(s) \/ QueryProvider(s)
  \/ SettlementNotFound(s) \/ ApplyCompletion(s) \/ ApplyFailure(s)
  \/ SettlementIgnored(s)
  \/ AnnounceSettlement(s)
  \/ SettlerCrash(s)

Next ==
  \/ \E q \in Quotes : CreateQuote(q) \/ ExpireQuote(q)
  \/ \E q \in Quotes, status \in Outcomes : ProviderMoves(q, status)
  \/ \E h \in Handlers : HandlerStep(h)
  \/ \E s \in Settlers : SettlerStep(s)

Spec == Init /\ [][Next]_vars

-----------------------------------------------------------------------------
(* Properties                                                              *)

(* Reepay hands a payout to its provider at most once, and only when the   *)
(* wallet has been debited for it: concurrent confirm calls for one quote, *)
(* or with one key, never pay a recipient twice (confirmWalletPayout).     *)
SubmittedOnce ==
  \A q \in Quotes :
    /\ \A i, j \in DOMAIN provider[q] :
         provider[q][i] = "processing" /\ provider[q][j] = "processing" => i = j
    /\ provider[q] # <<>> => Posted(Source(q, "debit"))

(* The rows agree on where the money is: a payout exists exactly when its  *)
(* debit is in the ledger, carries reversedAt exactly when its credit is,  *)
(* and is FAILED or REFUNDED only with that credit (reversePayout).        *)
RowsMatchLedger ==
  \A q \in Quotes :
    /\ Exists(q) <=> Posted(Source(q, "debit"))
    /\ payout[q].reversed <=> Posted(Source(q, "reversal"))
    /\ payout[q].status \in {"FAILED", "REFUNDED"} => payout[q].reversed

(* The transaction a customer sees for the debit says what the payout      *)
(* says, whichever tasks raced to settle it.                               *)
DebitTransactionFollows ==
  \A q \in Quotes :
    txn[q].debit = IF payout[q].status \in {"PENDING", "PROCESSING"}
                     THEN "PROCESSING" ELSE payout[q].status

(* Reepay earns its fee only on payouts the provider has once completed.   *)
FeeNeedsCompletion ==
  \A q \in earned : \E i \in DOMAIN provider[q] : provider[q][i] = "completed"

(* SangaPay hears of at most one reversal of a payout.                     *)
ReversalAnnouncedOnce ==
  \A q \in Quotes : \A i, j \in DOMAIN announced[q] :
    {announced[q][i], announced[q][j]} \subseteq {"payout.failed", "payout.refunded"}
      => i = j

(* A settled payout does not become an unsettled one: the unguarded update *)
(* of a confirm call never meets a payout that was settled in between.     *)
NeverUnsettled ==
  [][\A q \in Quotes :
       payout[q].status \in Terminal => payout'[q].status \in Terminal]_vars

(* Money comes back only for a reason: the provider has once reported the  *)
(* payout failed or refunded, or the confirm call met an error.            *)
ReversedForAReason ==
  [][\A q \in Quotes :
       payout'[q].reversed /\ ~ payout[q].reversed =>
         \/ \E i \in DOMAIN provider[q] : provider[q][i] \in {"failed", "refunded"}
         \/ \E h \in Handlers : handler[h].quote = q /\ handler[h].pc = "reverse"]_vars

(* The payouts keep the promise of Escrow: an existing payout has taken    *)
(* its amount, a reversed one has returned it, and each happened once.     *)
Escrowed == INSTANCE Escrow WITH
  Orders <- Quotes, Amount <- TotalDebit,
  taken <- {q \in Quotes : Exists(q)},
  returned <- {q \in Quotes : payout[q].reversed}

EscrowKept == Escrowed!EscrowSpec

-----------------------------------------------------------------------------
(* What the documents say and the code does not keep                       *)

(* "rejects confirmation when the quote is expired or balance is           *)
(* insufficient" (test/eur-payout-flow.test.ts): no confirmation takes a   *)
(* wallet below zero.                                                      *)
NeverOverdrawn == \A w \in Wallets : balance[w] >= 0

(* "Reepay keeps the internal payout in processing until KryptaPay webhook *)
(* events are received and the payout is re-verified" (ARCHITECTURE.md):   *)
(* no payout is refunded to the wallet and completed by the provider too.  *)
PaidOrReturned ==
  \A q \in Quotes :
    payout[q].reversed /\ provider[q] # <<>> => Current(q) # "completed"

=============================================================================
