# Reepay in TLA+

Reepay is a payment service: it keeps wallets for customers of a merchant
(SangaPay), takes money in through KryptaPay, pays it out through KryptaPay and
Wise, and converts between a customer's wallets. This directory holds TLA+
modules of its money flows, of the webhook intake and the scheduler that settle
them, of the provider clients and the prices they rest on, the TLC instances
that check them, and proofs checked by TLAPS.

Paths below are relative to the repository. The service itself is under `src/`
of the repository (a NestJS application on PostgreSQL through Prisma).

## 1. Inventory

| Part | Source | State it keeps | Operations |
|---|---|---|---|
| Wallets and ledger | `prisma/schema.prisma` | `Wallet.balance`, `LedgerEntry` rows | one relative balance update plus one entry, inside each flow's transaction |
| Payouts | `src/payouts/payouts.service.ts` | `PayoutQuote`, `Payout`, its `Transaction` rows, `ReepayFeeEarning` | create a quote, confirm, submit to the provider, record the reference, reverse, settle from a webhook, reconcile |
| Wallet conversions | `src/wallets/wallet-conversions.service.ts` | `WalletConversionQuote`, `WalletConversion`, transactions | confirm, settle, reverse, webhooks, reconcile |
| Deposits | `src/deposits/deposits.service.ts`, `src/webhooks/kryptapay/` | `Deposit`, its transaction, fee earning | create a checkout, reconcile (scheduled, polled, verified), PAYIN_RECEIVED, PAYIN_FAILED |
| Provider webhook intake | `src/webhooks/kryptapay/`, `src/webhooks/wise/` | `WebhookLog` (event id, processing status) | check the signature, log the event once, process it in the background |
| Outbound webhooks | `src/webhooks/sangapay/` | `OutboundWebhookDelivery` (status, attempts) | record, send with in-process retries, retry failed deliveries |
| Reconciliation | `src/reconciliation/reconciliation.service.ts` | `running` flag, timer | every interval: a batch of deposits, payouts, conversions, then outbound retries |
| Fees | `src/common/fees/fee.service.ts` | none | percentages, caps, rounding, gross-up |
| Provider clients | `src/providers/`, `src/common/http/provider-retry.ts` | none | HTTP requests, retry of idempotent ones |
| FX, admin, API reads, guards, config, health | the rest of `src/` | none that moves money | reads and stateless checks |

### How they interact

* The four money flows share the wallet rows. Each writes them in database
  transactions, which run at READ COMMITTED: what a transaction reads can be
  stale when it writes, unless the write is an `updateMany` with a `where`
  guard, a relative update, or is protected by a unique index.
* Flows call the providers outside of any transaction, and record the answer in
  a later statement. A crash or an error can fall in between.
* An inbound webhook is acknowledged when its log row is inserted; its
  processing runs in the background of the same process, concurrently with
  confirm calls, other webhooks, polls and the reconciliation pass.
* An outbound webhook is dispatched after the commit of the change it announces.

### What is hard, and what makes each part correct

* *Wallets and ledger.* Flows interleave on one row. Correct when the ledger
  explains the balance and no movement is entered twice.
* *Payouts.* Two confirm calls for one quote, one key or one balance; an answer
  lost after the provider took the payout; a webhook before the reference is
  recorded; several tasks that settle or reverse one payout. Correct when a
  payout is submitted once and only after its debit, put back at most once and
  only for a reason, and its rows, transactions, fee and events agree.
* *Wallet conversions.* Settlement and reversal decide on a status read
  earlier. Correct when the XAF is taken and given back at most once and the
  destination is credited only after the provider completed.
* *Deposits.* Webhook, poll and pass all credit; failures come from two places.
  Correct when a deposit is credited at most once, only for a completed payin,
  a processed event has had its effect, and a decided payin is settled while the
  pass still looks at it.
* *Webhook intake.* Duplicates; deliveries that are refused after they claimed
  the event id; work that is lost or throws. Correct when an event is acted on
  once and what its loss leaves undone is made up for by the pass.
* *Outbound delivery.* The dispatch loop and the pass send one row concurrently.
  Correct when DELIVERED means that SangaPay took the event, a retry that works
  from an old read does not undo it, attempts are bounded, and a row that is due
  is resolved.
* *Reconciliation.* Batches, a lookback window, a flag and requests without a
  time limit. Correct when passes do not overlap, errors do not end the
  schedule, and a row that a pass could settle is settled.
* *Fees.* Rounding and gross-up, and a configuration that changes between the
  price and the settlement. Correct when what is left covers the credit, the
  settlement matches to the last unit, and the payer is not asked for more.
* *Provider clients.* Answers that are lost or late, retries, a fee that is
  quoted twice. Correct when a submission moves the money at most once, at the
  fee the customer agreed to, and ends.

The hazards, each at its source line with the property that would catch it, are
listed in `PROJECT.json`.

## 2. Modules

| Module | Models | Notes |
|---|---|---|
| `WalletBook` | wallets and ledger | `Post` is the pair of statements every flow uses; extended by each flow |
| `Escrow` | abstract promise | an order takes its amount once, and returns it once at most; nothing else moves the balances |
| `Collection` | abstract promise | an order's amount reaches its wallet once at most, and only when paid; nothing else moves the balances |
| `Payouts` | the live payouts (IBAN and Wisetag through Wise, USDC through KryptaPay) | implements `Escrow` |
| `PayoutsInvariant` | inductive invariant of `Payouts` | parts named for what tasks know between steps |
| `WalletBookProofs`, `PayoutsProofs` | proofs | lemmas on one posting; the theorems |
| `WalletConversions` | conversions, EUR and USDC legs | its XAF side implements `Escrow` |
| `WalletConversionsInvariant`, `WalletConversionsProofs` | its inductive invariant, proofs | on the lemmas of `WalletBookProofs` |
| `Deposits` | deposits, the payin webhooks and their log | implements `Collection`; safety and liveness |
| `DepositsInvariant`, `DepositsProofs` | its inductive invariant, proofs | on the lemmas of `WalletBookProofs` |
| `OutboundDelivery`, `OutboundDeliveryProofs` | delivery rows, `dispatch` and `retryFailedDeliveries` | safety, liveness and proofs |
| `WebhookIntake` | acceptance and processing of inbound events, KryptaPay's and Wise's | extended by `Reconciliation`, which says what the work does to a row |
| `Reconciliation`, `ReconciliationProofs` | the scheduler, its passes, batches and window, composed with `WebhookIntake` over rows of all flows | safety, liveness and proofs |
| `Submission` | abstract promise | the money of a submission moves once at most, and before success is told |
| `ProviderCalls`, `ProviderCallsProofs` | the requests of `submitWisePayout`, `createPayout`, `executeConversion`, `createPayinCheckout`, with `withProviderRetry` | implements `Submission`; liveness; proofs |
| `FeeService` | the fee functions | operators on integers |
| `Pricing`, `PricingProofs` | pricing of deposits and quotes, their settlement, and restarts with another configuration | proofs for every scale, rate and amount |
| `MC*` | instances for TLC | values of the constants, symmetry |

### How state and actions correspond to the code

A row is a record or a status in a function indexed by the quote (or the
idempotency key, for deposits): `Payout.quoteId` and the other unique indexes
make the name unambiguous. `NONE` stands for no row. Columns nobody decides on
(names, references as text, provider cost, failure reasons, notifications) are
left out; `hasRef` says whether a provider reference has been recorded.

Every concurrent call (an HTTP request, a background webhook task, one row of
the reconciliation pass) is a task with a program counter. The code between two
`await`s that another task can observe is one action; the writes of a database
transaction are one action because they commit together, its reads are separate
earlier actions because nothing locks what they read. Guards on columns that
are evaluated again at the write (`updateMany ... where reversedAt: null`,
unique indexes) are guards of the writing action. An early return that changes
nothing leaves the call, and changes nothing else.

| Action of `Payouts` | Code |
|---|---|
| `StartConfirm` | `confirmWalletPayout` until its transaction |
| `ReadQuote`, `ReadWallet`, `Reserve` | `reserveWalletCurrencyPayoutDebit` |
| `ProviderAccepts`, `SubmissionFails` | `submitWisePayout`, `submitUsdcAddressPayout`, and the `try` block around them |
| `RecordSubmission`, `AnnounceProcessing` | the rest of the `try` block |
| `ReverseSubmission`, `AnnounceReversal` | the `catch` block: `reversePayout` and its dispatch |
| `AcceptWebhook` | the background task of a KryptaPay or Wise webhook |
| `StartReconcile`, `AskProvider` | `reconcileProviderPayoutStatus` |
| `QueryProvider`, `SettlementNotFound`, `ApplyCompletion`, `ApplyFailure`, `SettlementIgnored`, `AnnounceSettlement` | `markWisePayoutSettled`, `markProviderPayoutSettled` |
| `HandlerCrash`, `SettlerCrash` | the process or its connection dies between two steps |
| `ProviderMoves` | the provider (external) |

`WalletConversions` has one action per step of `confirm`, `settleConversion`,
`reverseConversion`, `dispatchProcessingConversion`, the `tryMark...` handlers
and `reconcileProviderConversionStatus`; `Deposits` one per step of
`createXafDeposit`, `reconcileProviderDepositStatus`, `processPayinReceived`,
`processPayinFailed` and the log updates of `acceptWebhook`. `PROJECT.json`
maps every definition to its lines.

`OutboundDelivery` has the row's status and attempts, the dispatch call of each
delivery (its attempt and the result it has yet to record), and the one retrier
with the batch it read; the running flag keeps passes of the one server process
from overlapping (two processes during a deployment are not modelled). The
request and the update after it are separate actions, and an update may throw:
after a 2xx answer this leads into the `catch` block, in the `catch` block it
ends the loop. A restart ends every call in progress and may change whether
webhooks are enabled. The other modules' `Announce` stands for the creation of
the row, after which this module takes over.

`WebhookIntake` has the log row of each event and the request or background task
that serves it; `RefuseSignature`, `LogDelivery`, `RefusePayload`, `IgnoreTest`,
`StartWork`, `NothingToDo`, `WorkThrows`, `MarkProcessed` and `MarkFailed` are
the steps of `acceptWebhook` and `processAcceptedWebhook` of both services. A
request without the required headers, and on Wise one whose body is not JSON or
has no event type, is refused before anything is stored, and is no action. From
there on the insert of the log row comes first: a delivery whose signature is
wrong is logged too, FAILED, and claims its event id.

| Action of `Reconciliation` | Code |
|---|---|
| `Create`, `RecordReference`, `Decide`, `Age` | what the flows, the provider (external) and the clock do to a row |
| `Webhook`, `SettleByWebhook` | the intake above, and its settling of the row |
| `StartPass` | `runScheduledPass` until `run` |
| `ReadBatches` | the `findMany` of the three tables |
| `SkipRow`, `AskRow` | `reconcileRows` and the early returns of the flows' reconcile methods |
| `SettleByPass`, `LeaveRow` | the provider's answer, or an error of the row |
| `RetryDeliveries`, `EndPass` | `retryFailedDeliveries` (in `OutboundDelivery`) and the `finally` block |
| `Restart` | the process is restarted: the flag, passes and tasks are gone |

A row there is only open or settled: the flows' modules say what settling does.
A plan fixes the kind of a row and its provider's last word, among them words
the code does not know and kinds no endpoint reports on.

In `ProviderCalls` the wire is a set of requests the provider has not handled: a
request whose connection broke stays on it and may still take effect, also after
the client has given up or sent another. A 5xx answer, and a 2xx answer the
client cannot read, may have had its effect. That KryptaPay honours the
`Idempotency-Key`, which the retries send again unchanged, is an assumption
(`Effect`); Wise requests have none and are never repeated.

In `Pricing` money is a natural number of the smallest unit (eighth decimal);
`Place` and `Whole` are the fourth decimal and a whole unit, and a rate of *n*
is *n*/`Hundred`. Rounding is by definition (`CeilToWhole`, `RoundTo`); Decimal's
20 significant digits are taken as exact.

Providers are external and modelled from how the code uses them: a payout, a
transfer or a payin moves through statuses, each change may be sent as a
webhook, webhooks arrive late, out of order or never. A refusal and a lost
answer are both errors to the code, and both are possible at every call. A
query may be answered with any status the payout has had (`Answers`), so that
an answer may lag behind the webhook that prompted it.

## 3. Model checking

Run `tlc -config <cfg> <module>` in this directory.

| Run | Instance | Question |
|---|---|---|
| `payouts_contention` | 2 quotes (2 and 3 units) on one wallet of 4, 2 keys, 2 confirm calls; no settlers. 518k states | What the ledger, the escrow and the provider may see when confirm calls race |
| `payouts_settlement` | 1 quote on either rail, 1 confirm call, 2 settlers. 360k states | Whether rows, transactions, fee and events stay consistent when confirm, webhooks and reconciliation race |
| `conversions` | 1 quote, EUR or USDC, 2 keys, 3 tasks. 65k states | The same for conversions |
| `deposits` | 1 deposit, 3 tasks, in or out of the pass's batch and window, with fairness. 279k states | Credited once, only when paid, settled while a pass can |
| `outbound_delivery` | 2 deliveries, 2 attempts, a batch of 1, 2 outages, with fairness. 78k states | What status and attempts mean when both loops send a row, and whether a due row is resolved |
| `provider_submission` | 1 submission of any of the 4 flows, 3 attempts, 2 fees, with fairness. 6.6k states | Whether the clients keep the promise the flows rely on |
| `reconciliation` | 2 rows of one table or two, 1 with an event, batches of 1, 2 possible passes, 1 restart, with fairness. 46k states | What passes and webhooks settle together, and what stops them |
| `pricing` | 1 row, 3 configurations, 23 amounts, 4 rates; 8 smallest units to a whole, 4 to the place. 12k states | Whether prices cover what they are for and settle exactly |
| `payouts_overdraft` | as `payouts_contention` | expected to fail: `NeverOverdrawn` |
| `payouts_paid_and_returned` | 1 quote, 1 confirm call, 1 settler | expected to fail: `PaidOrReturned` |
| `conversions_funded_twice` | 1 quote, 2 tasks | expected to fail: `FundedOnce` |
| `deposits_unannounced` | 1 deposit, 1 task | expected to fail: `TransitionsAnnounced` |

*Why these bounds are enough.* Payouts meet each other only in the wallet's
balance and in the keys, so contention needs two quotes, and amounts for which
either fits and both do not. What settles one payout touches no other, so
settlement needs one quote, with one task for each of the roles that can meet:
the call that owns the payout and two others, since every guard on a row is
about this task and one that came before. Three tasks on a conversion or a
deposit are a confirm or create call and two settlements, or two settlements
and a poll. Submissions share nothing but Wise's fee, so one is enough, with the
three attempts of the code; two fees tell the two quotes apart. Rows meet in a
batch, in the order of a pass and in the flag: with a batch of one, one row of
two can keep the other out, and a second pass is one too many. A row's price
depends on no other row; the scale is small, and the amounts include ones that
are not whole, not a multiple of the place, and at the caps. Calls repeat after they end, so retries with the same or another
key, and repeated webhooks, occur within the same number of tasks. For
payouts, conversions, deposits, provider calls, the passes' and the log's
safety, and prices, the proofs remove the bounds. Deliveries meet only in the batch: two
rows and a batch of one make one wait for the other, and two attempts are the
fewest with which a retry comes between the attempts of `dispatch`; with three
attempts (the default) and one outage the run passes too, on 319k states. Here
too the proofs remove the bounds.

`Outages` bounds the restarts and failed updates of `outbound_delivery` and the
restarts of `reconciliation`; without a bound on them nothing need ever be
recorded, or come to its end. No other counter is cut off: provider histories are finite because their status
changes have no cycle, and announcements because each needs a change of the
row, so the state spaces are finite without constraints.

*Symmetry* is used over tasks and keys, which are interchangeable, and not in
the runs where liveness is checked. Deadlock checking is off:
with every quote used and nothing in flight the service waits.

*Fairness (`Deposits!Fairness`).* `setInterval` starts the pass again and again
(reconciliation is assumed to be enabled), and `reconcileRows` catches the error
of a row. A pass asks only about the oldest `batchSize` open deposits created
within the lookback window (`reconciliation.service.ts:69-79`): `place` says
whether that includes a deposit, and only then is it asked about infinitely
often (`PassAsks`, strong fairness). The steps of a reconciliation are strongly
fair, that is, failures do not hit the same step of a deposit every time, which
includes that the amount paid is the one expected (`Pricing`). A call under way
goes on or ends (weak fairness), except while it waits for the provider, since
the client sets no time limit. The rest are premises of `DecidedIsSettled`: that
requests are answered (`[]<>` not waiting, for each task), and that older
deposits do not keep this one out of the batch for ever. Its conclusion is that a
due deposit is settled *or leaves the window*: a payin decided after it, or whose
questions fail until it closes, is left PENDING unless someone polls it. The
property fails without each of the two premises, and for deposits past the
window. Nothing is assumed of polls, webhooks or customers, nor of what the
provider decides.

*Fairness (`Reconciliation!FairSpec`).* The interval ticks (weak fairness of
starting a pass) and a pass goes on (weak fairness of its steps), except while
it waits for an answer, which need not come. Reads of the batches and the
settling of one row do not fail every time (strong fairness). Nothing is assumed
of webhooks.

*Fairness (`ProviderCalls!FairSpec`).* A continuation that is ready runs and
the retry delay passes: weak fairness of sending and of acting on a result. A
response need not come.

*Fairness (`OutboundDelivery!FairSpec`).* A request ends within its five
seconds, the delay of the loop passes, and the interval starts passes again:
weak fairness of each dispatch call and of the retrier. Reconciliation is
assumed to be enabled; that webhooks stay enabled is a premise of
`DueIsResolved`. That passes come to their retries is an assumption too, and one
the code does not ensure: the retries are the last part of a pass, and one
provider request that is never answered keeps the pass from reaching them, and
every later pass from starting (`PassesGoOn`).

### Properties

* `WalletBook`: `LedgerExplainsBalance`, `NothingPostedTwice`.
* `Payouts`: `SubmittedOnce`, `RowsMatchLedger`, `DebitTransactionFollows`,
  `FeeNeedsCompletion`, `ReversalAnnouncedOnce`; the action properties
  `NeverUnsettled` (the update to PROCESSING by id alone never overwrites a
  settlement) and `ReversedForAReason`; the refinement `EscrowKept`.
* `WalletConversions`: `SubmittedOnce`, `FundedAfterCompletion`,
  `RowsMatchLedger`, the refinement `SourceEscrowKept`.
* `Deposits`: `CreditNeedsCompletion`, `ProcessedMeansApplied`,
  `AnnouncedOnce`, `NeverUnsettled`, the refinement `CollectedOnce`, and the
  liveness property `DecidedIsSettled`.
* The inductive invariants `PayoutsInv`, `ConversionsInv`, `DepositsInv` and
  `DeliveryInv`, each with the module's `TypeOK` as a part, are invariants of
  the runs too: that TLC finds them true of the reachable states came before
  their proofs.
* `OutboundDelivery`: `AttemptsBounded`, `DeliveredWasTaken`, the action property
  `OnlyDispatchTakesBack` and the liveness property `DueIsResolved`.
* `ProviderCalls`: `PaidAtAgreedFee`, the refinement `MovedOnce`, and the
  liveness property `EndsOrHangs`.
* `WebhookIntake`: `ActedOnOnce`. `Reconciliation`: `OnePassAtATime`, and the
  liveness properties `PassesGoOn` and `DueIsSettled`. The premises of
  `DueIsSettled` and of `DecidedIsSettled` are part of what they say: requests
  are answered, and older rows do not crowd the batch.
* `Pricing`: `PaidAsPricedIsCredited`, `CoveredUpToRounding`,
  `LeastThatSettles`.

Operators commented *Faulty* are plausible bugs (a missing unique index, a
dropped guard, a stale balance). None is used by the specifications: put in
place of the operator that follows it, each makes a property of the run fail,
which shows that the property depends on that line of the code.

### What the failing runs show

* `NeverOverdrawn`: the balance check reads without a lock and the decrement is
  unconditional. Two confirmations, each covered, overdraw the wallet together.
  Nothing else can: theorem `OverdraftNeedsRace`.
* `PaidOrReturned`: any error in the `try` block of `confirmWalletPayout`
  reverses the debit, also one after the provider took the payout, which may
  then be paid to the recipient.
* `FundedOnce`: `settleConversion` decides on a status it read before and
  updates by id; two settlements credit the destination twice (what it takes is
  in theorem `DoubleCreditNeedsRace`). For the same reason a conversion can be both credited and reversed: `RowsMatchLedger` of
  `WalletConversions` states only what is left.
* `TransitionsAnnounced`: a failure found by a reconciliation pass or a poll
  updates the deposit and dispatches nothing.

Behaviours that no document contradicts but a reader should know of, visible in
the models: a payout reversed by the `catch` block becomes COMPLETED by a later
completion and keeps its refund (so `DebitTransactionFollows` speaks of the
status, not of the money); a fee earning stays when a completed payout is
refunded (`FeeNeedsCompletion` says *once*); a PAYIN_FAILED task may overwrite
COMPLETED with FAILED, and a credit by the reconciliation may overwrite FAILED
with COMPLETED, which is why `CreditNeedsCompletion` does not mention the
deposit's status; a failure that KryptaPay reports is believed, for payouts and
conversions, and so is the completion of a conversion, without the GET that
ARCHITECTURE.md:268 requires (in the models an event reports what happened, so
that a false one is not among their behaviours); the two loops of the dispatcher share a counter, so a row may
count `2 * maxAttempts - 1` attempts, and when SangaPay is down for longer than
the delays of `dispatch`, `dispatch` itself uses up the attempts and no pass
retries the row; a row left PENDING by a restart is never sent again.

Of the scheduler: one unanswered provider request holds the flag, and with it
reconciliation and outbound retries, until a restart. Rows that no pass can
settle (USDC conversions, which have no status endpoint, and states the code
does not know) keep their place in the batch until they leave the window, and a
batch full of them hides younger rows. A payout without a reference is not a
candidate at all. A delivery that is refused for its signature has already
claimed its event id, so the genuine one is dropped and only the pass is left.

Of prices: the settlement has to match to the last unit, which is exact only
because the gross-up is rounded to whole XAF as the provider rounds its fee
(assumed), for net amounts that are whole, and at the rate the deposit was
priced with; otherwise the deposit is refused at every attempt. README.md:89-91
and ARCHITECTURE.md:165 describe the fee as a percentage *of the credit and
Reepay's fee*; the code (and `test/fee.service.test.ts`) grosses up, and
`PaidAsPricedIsCredited` fails for the described formula (`DepositFeeOnTop`). The
total is rounded half up to four places while the amounts have eight, so up to
half a place is credited or paid out unpaid for. `createXafDepositQuote` stores
nothing: the deposit made after it is priced anew.

## 4. Proofs

`tlapm` checks `WalletBookProofs`, `PayoutsProofs`, `WalletConversionsProofs`,
`DepositsProofs`, `OutboundDeliveryProofs`, `ProviderCallsProofs`,
`ReconciliationProofs` and `PricingProofs`. Those about payouts, conversions and
deposits hold for any sets of wallets, orders, keys and concurrent calls, finite
or not, any opening balances and any amounts in Nat, from `WalletAssumption` and
`PayoutAssumption`, `ConversionAssumption` or `DepositAssumption` alone.

*Lemmas on a posting* (`WalletBookProofs`): a posting keeps the book typed
(`PostTypes`), enters exactly its source (`PostPosts`), keeps the balance
explained (`PostExplains`), and leaves nothing posted twice when its source is
new (`PostOnce`). They do not depend on the flow and serve the others too.

*The invariant* (`PayoutsInv`, theorem `Invariance`). None of the properties is
inductive alone. That a debit is not entered twice depends on the row being new
exactly when its debit is (`RowsMatchLedger`), because the only thing that stops
the second insert is the unique index on the row. That a submission happens
once depends on a confirm call owning its payout alone after its transaction
(`CallsOwnTheirPayout`). That the unguarded update to PROCESSING overwrites no
settlement depends on the reference: a payout without one is not found by any
settler, and a call that has yet to record it therefore still has a PENDING
payout. That fees and reversals are deserved depends on what a settler carries
between its steps having been reported by the provider (`ClaimsReported`). One
lemma per action, or per group of actions that touch no row, shows that the
step keeps each part. TLC checks `PayoutsInv` in `payouts_settlement`.

*Theorems*: `TypeCorrect`, `BookExplained`, `PostedOnce`, `RowsAgree`,
`TransactionAgrees`, `FeesDeserved` and `GivenOnce` follow from the invariant;
`SettledStays` and `ReturnedForAReason` from it and from `PayoutSteps`, which
says what a step can do to a payout and a balance; `ImplementsEscrow` shows that
initial states map to initial states and each step to a `Take`, a `Return` or a
stutter; `ReversalToldOnce` has an invariant of its own (`ToldInv`: what one
task is about to tell nobody else has told or is about to).

`OverdraftNeedsRace` takes opening balances of zero or above, and has a premise,
`ChecksApart`: no two confirm calls are at once between reading a wallet's
balance and debiting it. It does not hold of the code, as the run
`payouts_overdraft` shows; a lock on the wallet row would make it hold. Under it a balance that was checked still covers the debit
(`DebitsCovered`), since every step but a debit leaves the balance or adds to it,
so the unlocked read is the only cause of an overdraft.

*Conversions* (`WalletConversionsProofs`). `settleConversion` and
`reverseConversion` act on a status they read before, so little about a single
step can be relied on; `ConversionsInv` says what can. A completion a task
carries has been reported, and a webhook says what was (`TaskInv`,
`WebhooksReported`): hence `FundedForCompletion`. While a call is between its
reservation and the answer recorded, no other call submits, dispatches or
reverses that conversion (`SubmittedAlone`), because a EUR leg without a
reference is found by nobody and a USDC leg has no event of failure: hence
`HandedOverOnce`, and hence the update to PROCESSING by id alone never hits a
reversed conversion. That it hits no settled EUR leg rests on
`UnreferencedIsUnsettled`; a settled USDC leg it may hit, and `RowsMatchLedger`
says so. `RowsTellTheLedger` and `BookExplained` follow from the invariant;
`ImplementsSourceEscrow` from `ConversionSteps`, which classes each step as a
debit, a refund or neither, and from the fact that no conversion credits a
wallet another one debits (`ConversionAssumption`: an XAF wallet is not an EUR
or USDC one). `DoubleCreditNeedsRace` has a premise that the code does not keep,
`SettlesApart`, which names all the causes of the double credit: two settlements
of one conversion between their read and their write, or a COMPLETED that a
reversal or a late answer overwrote. Under it what a settlement has read still
holds when it writes (`SettlesOnce`).

*Deposits* (`DepositsProofs`). Webhook, poll and pass share no lock; a deposit is
credited once because its transaction row is unique, and `RowsAgree` ties that
row to the ledger entry, the fee and the status: `PostedOnce`,
`CreditedAfterCompletion`. An event has one task at most, since its log row is
unique and is never removed (`OneTaskPerEvent`), so that a failure, which is
told only by the task of its event, is told once; `ToldInv` adds that only the
task whose credit committed is about to tell of it: `ToldOnce`.
`ProcessedApplied` needs that a credited deposit stays terminal, also when a late
PAYIN_FAILED overwrites COMPLETED. `SettledStays` looks at the few steps that
write a status. `ImplementsCollection` is the
refinement: a provider's completion maps to `Pay`, a credit to `Collect`, every
other step to a stutter. `ConversionAssumption` and `DepositAssumption` say no
more than that wallets and amounts are there, but for the disjointness above and
that `None` is none of the values it stands in for.

*Outbound delivery* (`OutboundDeliveryProofs`, for any deliveries, limits and
outages, from `DeliveryAssumption`): the bound on attempts is not inductive.
`DeliveryInv` adds how much of the counter the dispatch call accounts for
(`Made`), that retries account for at most `maxAttempts - 1`, and that a row in
the batch has room for one more, which holds because only a recorded failure of
`dispatch` makes a row FAILED. `FirstAttemptAlone` makes a row PENDING until
then, hence only a later attempt can overwrite DELIVERED. Theorems: `Invariance`,
`AttemptsEnd`, `DeliveredTaken`, `TakenBackByDispatch`.

*Provider calls* (`ProviderCallsProofs`, for any submissions, attempts and fees,
from `CallAssumption`): that a submission is paid once rests on `OneKey`, every
money request of it bears the same key, because a KryptaPay request is retried
with its key and a Wise request is not retried; `CallsInv` adds that the provider
has counted a payment exactly when it knows the key, and that success follows a
counted one. `Agrees` is about the late quote: a Wise quote still on the wire
belongs to a submission that has not gone on to its transfer and never will, so
nothing can change the fee of a quote a transfer is made from. Each step is
shown to keep the invariant of the submission it touches (`StepKeeps`) and to
leave that of the others alone (`Untouched`). Theorems: `Invariance`,
`AgreedFee`, and the refinement `Implements`.

*Reconciliation and intake* (`ReconciliationProofs`, for any rows, events, plans,
passes and restarts, from `ReconciliationAssumption`): `IntakeInv` says that an
event without a log row has neither a task nor work behind it, and that a task
before its check has begun none; `OnePassAtATime` is inductive with the types of
`TypeOK`. Theorems: `Invariance`, `ActedOnce`, `PassesApart`.

*Prices* (`PricingProofs`, for any units, places, rates, configurations and
amounts, from `FeeAssumption` and `PricingAssumption`): the bounds of a rounding
up (`CeilToWholeBounds`, `CeilOfWholes`) are divided by the whole, which turns
the gross-up into inequalities between whole numbers: with *g* the least number
whose fee-free part covers *n* and *f* the fee of *g* rounded up, *g - f* is
above *n - 1* and below *n + 1* (`GrossUpInWholes`). `GrossUpExact` is the
result; `PricingInv` ties each row to the configuration it was priced under, and
`CreditedAsPriced`, `LeastAsked` and `Covered` follow.

*Only model-checked*: liveness (`DecidedIsSettled`, `DueIsResolved`,
`EndsOrHangs`, `PassesGoOn`, `DueIsSettled`), which is out of the prover's reach,
as are ENABLED and what a recursive definition computes for every input. Every
safety property the passing runs check is stated by a theorem.

## 5. Not modelled

* The legacy EUR payout from an XAF wallet (`createEurPayoutQuote`,
  `confirmEurPayout`): the same protocol as the live payouts; no route calls it.
* FX quotes, admin and fee reports, transaction and wallet reads, API key
  guards, configuration, logging and health: stateless, or reads.
* Notification rows, provider costs and failure reasons: written along with the
  statuses and never read by a flow.
* Status queries of the provider clients are single steps of the flows and of
  `Reconciliation`; the approval and list calls of the KryptaPay client have no
  caller; the mapping of response fields is left out, but for the words of a
  status.
* `handleWebhook`, which waits for its work, is called by no route.
* Two server processes, as during a deployment: the flag is one per process.
* Fees quoted by KryptaPay for a deposit: `fee.service.ts` takes them, no caller
  passes one.

## 6. Plan

Done: all money flows, intake, scheduler, outbound delivery, provider calls and
prices, with proofs of every safety property and refinement the runs check.
Next:

1. Parts of the liveness arguments that are safety: that a row the pass could
   settle stays a candidate until it is settled (`DueIsSettled`), that a due
   delivery stays due (`DueIsResolved`), that a due deposit keeps what a
   reconciliation needs (`DecidedIsSettled`).
2. What it takes to pay and return a payout (`PaidOrReturned`), in the manner of
   `OverdraftNeedsRace` and `DoubleCreditNeedsRace`.
3. The legacy EUR payout, should a route reach it again: an instance of
   `Payouts` with KryptaPay as its rail.
