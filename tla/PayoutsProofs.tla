---------------------------- MODULE PayoutsProofs ---------------------------
(***************************************************************************)
(* The properties of Payouts for any number of wallets, quotes, confirm    *)
(* calls and settlers.                                                     *)
(***************************************************************************)
EXTENDS PayoutsInvariant, WalletBookProofs

Sources == {"debit", "reversal"}

(* A step that leaves the rows and the provider as they are keeps what the *)
(* invariant says of them.                                                 *)
LEMMA RowsFrame ==
  ASSUME RowsInv, UNCHANGED <<bookVars, payout, txn, earned, provider>>
  PROVE  RowsInv'
<1>1. LedgerExplainsBalance' /\ NothingPostedTwice'
  BY BookFrame DEF RowsInv
<1>3. RowsMatchLedger'
  BY BookFrame DEF RowsInv, RowsMatchLedger, Exists
<1>4. DebitTransactionFollows' /\ FeeNeedsCompletion'
  BY DEF RowsInv, DebitTransactionFollows, FeeNeedsCompletion
<1>5. NothingBeforeReserve' /\ ProcessingFirst'
  BY DEF RowsInv, NothingBeforeReserve, ProcessingFirst, Exists
<1> QED
  BY <1>1, <1>3, <1>4, <1>5 DEF RowsInv

(* A step of a settler that leaves the payouts and the provider as they    *)
(* are takes nothing from a confirm call.                                  *)
LEMMA CallsFrame ==
  ASSUME CallsOwnTheirPayout, UNCHANGED <<handler, payout, provider>>
  PROVE  CallsOwnTheirPayout'
BY DEF CallsOwnTheirPayout, CallInv, Owns, Exists

(* A step of a confirm call that leaves the references and the provider as *)
(* they are takes nothing from a settler.                                  *)
LEMMA ClaimsFrame ==
  ASSUME ClaimsReported, UNCHANGED <<settler, webhooks, provider>>,
         \A q \in Quotes : payout'[q].hasRef => payout[q].hasRef
  PROVE  ClaimsReported'
BY DEF ClaimsReported, Reported

LEMMA InitInv == Init => PayoutsInv
<1> SUFFICES ASSUME Init PROVE PayoutsInv
  OBVIOUS
<1> USE PayoutAssumption, WalletAssumption DEF Init, BookInit
<1>1. TypeOK
  BY DEF TypeOK, NoPayout, Idle, Resting, Entries, PayoutRow, TransactionRows,
         Call, Settlement, PayoutStatus, TransactionStatus, HandlerSteps, SettlerSteps, Outcomes
<1>2. \A s : ~ Posted(s)
  BY DEF Posted
<1>3. LedgerExplainsBalance /\ NothingPostedTwice
  BY DEF LedgerExplainsBalance, BalanceAt, NothingPostedTwice
<1>4. RowsMatchLedger
  BY <1>2 DEF RowsMatchLedger, Exists, NoPayout
<1>5. DebitTransactionFollows /\ FeeNeedsCompletion /\ NothingBeforeReserve
      /\ ProcessingFirst
  BY DEF DebitTransactionFollows, FeeNeedsCompletion, NothingBeforeReserve,
         ProcessingFirst, NoPayout, Exists
<1>6. CallsOwnTheirPayout
  BY DEF CallsOwnTheirPayout, CallInv, Owns, Idle
<1>7. ClaimsReported
  BY DEF ClaimsReported, NoPayout, Resting
<1> QED
  BY <1>1, <1>3, <1>4, <1>5, <1>6, <1>7 DEF PayoutsInv, RowsInv

-----------------------------------------------------------------------------
(* Steps that touch no row                                                 *)

(* Quotes come and expire.                                                 *)
LEMMA QuoteSteps ==
  ASSUME PayoutsInv, NEW q \in Quotes, CreateQuote(q) \/ ExpireQuote(q)
  PROVE  PayoutsInv'
<1>1. /\ UNCHANGED <<bookVars, rail, payout, txn, earned, announced,
                     externalVars, handler, settler>>
      /\ quote' \in [Quotes -> {"absent", "open", "expired", "confirmed"}]
  BY DEF CreateQuote, ExpireQuote, PayoutsInv, TypeOK
<1>2. TypeOK'
  BY <1>1 DEF PayoutsInv, TypeOK, bookVars, externalVars
<1>3. RowsInv' /\ CallsOwnTheirPayout' /\ ClaimsReported'
  BY <1>1, RowsFrame, CallsFrame, ClaimsFrame DEF PayoutsInv, externalVars
<1> QED
  BY <1>2, <1>3 DEF PayoutsInv

(* Steps of a confirm call before its transaction, its errors and its end: *)
(* the call comes to own nothing it did not own before.                    *)
LEMMA QuietHandlerSteps ==
  ASSUME PayoutsInv, NEW h \in Handlers,
         \/ \E q \in Quotes, k \in Keys : StartConfirm(h, q, k)
         \/ ReadQuote(h) \/ ReadWallet(h) \/ SubmissionFails(h)
         \/ HandlerCrash(h)
  PROVE  PayoutsInv'
<1>1. UNCHANGED <<bookVars, dbVars, externalVars, settler>>
  BY DEF StartConfirm, ReadQuote, ReadWallet, SubmissionFails, HandlerCrash
<1>2. /\ handler' \in [Handlers -> Call]
      /\ \A g \in Handlers \ {h} : handler'[g] = handler[g]
      /\ \/ handler'[h].pc = "idle"
         \/ /\ handler'[h].quote \in Quotes /\ handler'[h].key \in Keys
            /\ handler'[h].pc \in {"readQuote", "readWallet", "reserve"}
         \/ /\ handler'[h].quote = handler[h].quote
            /\ handler'[h].key = handler[h].key
            /\ handler'[h].pc = "reverse"
            /\ Owns(h)
  <2> USE DEF PayoutsInv, TypeOK, Call, HandlerSteps
  <2>1. CASE \E q \in Quotes, k \in Keys : StartConfirm(h, q, k)
    BY <2>1 DEF StartConfirm
  <2>2. CASE ReadQuote(h) \/ ReadWallet(h)
    <3>1. \/ handler' = [handler EXCEPT ![h] = Idle]
          \/ \E step \in {"readWallet", "reserve"} :
               handler' = [handler EXCEPT ![h].pc = step]
      BY <2>2 DEF ReadQuote, ReadWallet, Goto, Leave
    <3>2. handler[h].quote \in Quotes /\ handler[h].key \in Keys
      BY <2>2 DEF ReadQuote, ReadWallet, CallsOwnTheirPayout, CallInv
    <3>3. CASE handler' = [handler EXCEPT ![h] = Idle]
      BY <3>3 DEF Idle
    <3>4. CASE \E step \in {"readWallet", "reserve"} :
                 handler' = [handler EXCEPT ![h].pc = step]
      <4>1. PICK step \in {"readWallet", "reserve"} :
              handler' = [handler EXCEPT ![h].pc = step]
        BY <3>4
      <4>2. /\ handler'[h].pc = step
            /\ handler'[h].quote = handler[h].quote
            /\ handler'[h].key = handler[h].key
        BY <4>1
      <4> QED
        BY <3>2, <4>1, <4>2
    <3> QED
      BY <3>1, <3>3, <3>4
  <2>3. CASE SubmissionFails(h)
    BY <2>3 DEF SubmissionFails, Goto, Owns
  <2>4. CASE HandlerCrash(h)
    BY <2>4 DEF HandlerCrash, Leave, Idle
  <2> QED
    BY <2>1, <2>2, <2>3, <2>4
<1>3. TypeOK'
  BY <1>1, <1>2 DEF PayoutsInv, TypeOK, bookVars, dbVars, externalVars
<1>4. CallsOwnTheirPayout'
  BY <1>1, <1>2 DEF PayoutsInv, CallsOwnTheirPayout, CallInv, Owns, Exists, dbVars,
                    externalVars
<1>5. RowsInv' /\ ClaimsReported'
  BY <1>1, RowsFrame, ClaimsFrame DEF PayoutsInv, dbVars, externalVars
<1> QED
  BY <1>3, <1>4, <1>5 DEF PayoutsInv

(* Announcements change only the event log and the task that makes them.   *)
LEMMA HandlerAnnouncements ==
  ASSUME PayoutsInv, NEW h \in Handlers,
         AnnounceProcessing(h) \/ AnnounceReversal(h)
  PROVE  PayoutsInv'
<1>1. PICK q \in Quotes : q = handler[h].quote
  BY DEF AnnounceProcessing, AnnounceReversal, PayoutsInv, CallsOwnTheirPayout, CallInv
<1>2. /\ UNCHANGED <<bookVars, quote, rail, payout, txn, earned, externalVars,
                     settler>>
      /\ handler' = [handler EXCEPT ![h] = Idle]
      /\ \E event \in EventTypes :
           announced' = [announced EXCEPT ![q] = Append(@, event)]
  BY <1>1 DEF AnnounceProcessing, AnnounceReversal, Announce, Leave, EventTypes
<1>3. TypeOK'
  BY <1>2 DEF PayoutsInv, TypeOK, bookVars, externalVars, Idle, Call, HandlerSteps
<1>4. CallsOwnTheirPayout'
  BY <1>2 DEF PayoutsInv, TypeOK, CallsOwnTheirPayout, CallInv, Owns, Exists, Idle,
              externalVars
<1>5. RowsInv' /\ ClaimsReported'
  BY <1>2, RowsFrame, ClaimsFrame DEF PayoutsInv, externalVars
<1> QED
  BY <1>3, <1>4, <1>5 DEF PayoutsInv

(* A settler comes to work on what a webhook or the provider reported, or  *)
(* goes back to rest.                                                      *)
LEMMA QuietSettlerSteps ==
  ASSUME PayoutsInv, NEW s \in Settlers,
         \/ \E q \in Quotes, status \in Outcomes : AcceptWebhook(s, q, status)
         \/ \E q \in Quotes : StartReconcile(s, q)
         \/ AskProvider(s) \/ QueryProvider(s) \/ SettlementNotFound(s)
         \/ SettlementIgnored(s) \/ SettlerCrash(s)
  PROVE  PayoutsInv'
<1>1. UNCHANGED <<bookVars, dbVars, provider, handler>>
  BY DEF AcceptWebhook, StartReconcile, AskProvider, QueryProvider,
         SettlementNotFound, SettlementIgnored, SettlerCrash, externalVars
<1>2. webhooks' \subseteq webhooks
  BY DEF AcceptWebhook, StartReconcile, AskProvider, QueryProvider,
         SettlementNotFound, SettlementIgnored, SettlerCrash, externalVars
<1>3. /\ settler' \in [Settlers -> Settlement]
      /\ \A t \in Settlers \ {s} : settler'[t] = settler[t]
      /\ settler'[s].pc # "apply" => settler'[s].seen = "unknown"
      /\ \/ settler'[s].pc = "idle"
         \/ /\ settler'[s].quote \in Quotes
            /\ settler'[s].pc = "ask"
            /\ provider[settler'[s].quote] # <<>>
         \/ /\ settler'[s].quote \in Quotes
            /\ settler'[s].pc = "query"
            /\ Reported(settler'[s].quote, settler'[s].claim)
         \/ /\ settler'[s].quote \in Quotes
            /\ settler'[s].pc = "apply"
            /\ Reported(settler'[s].quote, settler'[s].claim)
            /\ settler'[s].seen # "unknown" =>
                 Reported(settler'[s].quote, settler'[s].seen)
  <2>a. settler \in [Settlers -> Settlement]
    BY DEF PayoutsInv, TypeOK
  <2>b. provider \in [Quotes -> Seq(ProviderStatus)]
    BY DEF PayoutsInv, TypeOK
  <2>c. ClaimsReported
    BY DEF PayoutsInv
  <2>d. ASSUME NEW q \in Quotes, NEW status \in Answers(q)
        PROVE  status \in ProviderStatus /\ Reported(q, status)
    BY <2>b DEF Answers, Reported
  <2>1. CASE \E q \in Quotes, status \in Outcomes : AcceptWebhook(s, q, status)
    <3>1. PICK q \in Quotes, status \in Outcomes : AcceptWebhook(s, q, status)
      BY <2>1
    <3>2. Reported(q, status)
      BY <2>c, <3>1 DEF AcceptWebhook, ClaimsReported
    <3>3. settler' = [settler EXCEPT ![s] =
            [pc |-> "query", quote |-> q, claim |-> status, seen |-> "unknown"]]
      BY <3>1 DEF AcceptWebhook
    <3> QED
      BY <2>a, <3>2, <3>3 DEF Settlement, SettlerSteps
  <2>2. CASE \E q \in Quotes : StartReconcile(s, q)
    <3>1. PICK q \in Quotes : StartReconcile(s, q)
      BY <2>2
    <3>2. provider[q] # <<>>
      BY <2>c, <3>1 DEF StartReconcile, ClaimsReported
    <3>3. settler' = [settler EXCEPT ![s].pc = "ask", ![s].quote = q]
      BY <3>1 DEF StartReconcile
    <3>a. settler[s].seen = "unknown"
      BY <2>c, <3>1 DEF StartReconcile, ClaimsReported
    <3>4. /\ settler'[s].pc = "ask" /\ settler'[s].quote = q
          /\ settler'[s].seen = settler[s].seen
      BY <2>a, <3>3 DEF Settlement
    <3>5. settler' \in [Settlers -> Settlement]
      BY <2>a, <3>3 DEF Settlement, SettlerSteps
    <3> QED
      BY <2>a, <3>a, <3>2, <3>3, <3>4, <3>5
  <2>r. CASE Rest(s)
    BY <2>a, <2>r DEF Rest, Resting, Settlement, SettlerSteps, Outcomes
  <2>3. CASE AskProvider(s) /\ ~ Rest(s)
    <3>1. PICK q \in Quotes : q = settler[s].quote /\ provider[q] # <<>>
      BY <2>3, <2>c DEF AskProvider, ClaimsReported
    <3>2. PICK status \in Answers(q) :
            /\ status \in Outcomes
            /\ settler' = [settler EXCEPT ![s].pc = "query", ![s].claim = status]
      BY <2>3, <3>1 DEF AskProvider
    <3>a. settler[s].seen = "unknown"
      BY <2>c, <2>3 DEF AskProvider, ClaimsReported
    <3>3. /\ settler'[s].pc = "query" /\ settler'[s].claim = status
          /\ settler'[s].quote = q /\ settler'[s].seen = settler[s].seen
      BY <2>a, <3>1, <3>2 DEF Settlement
    <3>4. settler' \in [Settlers -> Settlement]
      BY <2>a, <3>2 DEF Settlement, SettlerSteps
    <3> QED
      BY <2>a, <2>d, <3>1, <3>2, <3>a, <3>3, <3>4
  <2>4. CASE QueryProvider(s) /\ ~ Rest(s)
    <3>1. PICK q \in Quotes : q = settler[s].quote /\ Reported(q, settler[s].claim)
      BY <2>4, <2>c DEF QueryProvider, ClaimsReported
    <3>2. \A status \in Answers(q) : status \in ProviderStatus /\ Reported(q, status)
      BY <2>d
    <3>3. \/ \E status \in Answers(q) :
               settler' = [settler EXCEPT ![s].pc = "apply", ![s].seen = status]
          \/ settler' = [settler EXCEPT ![s].pc = "apply"]
      BY <2>4, <3>1 DEF QueryProvider
    <3>4. /\ settler'[s].pc = "apply" /\ settler'[s].claim = settler[s].claim
          /\ settler'[s].quote = q
          /\ settler'[s].seen \in Answers(q) \cup {settler[s].seen}
      BY <2>a, <3>1, <3>3 DEF Settlement
    <3>5. settler[s].seen = "unknown"
      BY <2>4, <2>c DEF QueryProvider, ClaimsReported
    <3>6. settler' \in [Settlers -> Settlement]
      BY <2>a, <3>2, <3>3 DEF Settlement, SettlerSteps
    <3>7. \A t \in Settlers \ {s} : settler'[t] = settler[t]
      BY <2>a, <3>3
    <3> QED
      BY <3>1, <3>2, <3>4, <3>5, <3>6, <3>7
  <2>5. CASE SettlementNotFound(s) \/ SettlementIgnored(s) \/ SettlerCrash(s)
    BY <2>r, <2>5 DEF SettlementNotFound, SettlementIgnored, SettlerCrash
  <2> QED
    BY <2>1, <2>2, <2>r, <2>3, <2>4, <2>5
<1>4. TypeOK'
  BY <1>1, <1>2, <1>3 DEF PayoutsInv, TypeOK, bookVars, dbVars
<1>5. ClaimsReported'
  BY <1>1, <1>2, <1>3 DEF PayoutsInv, ClaimsReported, Reported, dbVars
<1>6. RowsInv' /\ CallsOwnTheirPayout'
  BY <1>1, RowsFrame, CallsFrame DEF PayoutsInv, dbVars
<1> QED
  BY <1>4, <1>5, <1>6 DEF PayoutsInv

LEMMA SettlerAnnouncement ==
  ASSUME PayoutsInv, NEW s \in Settlers, AnnounceSettlement(s)
  PROVE  PayoutsInv'
<1>1. PICK q \in Quotes : q = settler[s].quote
  BY DEF AnnounceSettlement, PayoutsInv, ClaimsReported
<1>2. /\ UNCHANGED <<bookVars, quote, rail, payout, txn, earned, externalVars,
                     handler>>
      /\ settler' = [settler EXCEPT ![s] = Resting]
      /\ \E event \in EventTypes :
           announced' = [announced EXCEPT ![q] = Append(@, event)]
  BY <1>1 DEF AnnounceSettlement, Announce, Rest, EventTypes
<1>3. TypeOK'
  BY <1>2 DEF PayoutsInv, TypeOK, bookVars, externalVars, Resting,
              Settlement, SettlerSteps, Outcomes
<1>4. ClaimsReported'
  BY <1>2 DEF PayoutsInv, TypeOK, ClaimsReported, Reported, Resting, externalVars
<1>5. RowsInv' /\ CallsOwnTheirPayout'
  BY <1>2, RowsFrame, CallsFrame DEF PayoutsInv, externalVars
<1> QED
  BY <1>3, <1>4, <1>5 DEF PayoutsInv

-----------------------------------------------------------------------------
(* Steps of the provider and its references                                *)

(* The provider takes a payout that exists and that it has not been given. *)
LEMMA ProviderAcceptsKeepsInv ==
  ASSUME PayoutsInv, NEW h \in Handlers, ProviderAccepts(h)
  PROVE  PayoutsInv'
<1>1. PICK q \in Quotes : /\ q = handler[h].quote /\ Exists(q)
                          /\ provider[q] = <<>>
  BY DEF ProviderAccepts, PayoutsInv, CallsOwnTheirPayout, CallInv, Owns
<1>2. /\ UNCHANGED <<bookVars, dbVars, webhooks, settler>>
      /\ handler' = [handler EXCEPT ![h].pc = "record"]
      /\ provider' = [provider EXCEPT ![q] = <<"processing">>]
      /\ handler[h].pc = "submit"
  BY <1>1 DEF ProviderAccepts, Goto
<1>3. TypeOK'
  <2>1. handler' \in [Handlers -> Call]
    BY <1>2 DEF PayoutsInv, TypeOK, Call, HandlerSteps
  <2>2. provider' \in [Quotes -> Seq(ProviderStatus)]
    BY <1>2 DEF PayoutsInv, TypeOK, ProviderStatus
  <2> QED
    BY <1>2, <2>1, <2>2 DEF PayoutsInv, TypeOK, bookVars, dbVars
<1>4. provider'[q] = <<"processing">> /\ \A p \in Quotes \ {q} : provider'[p] = provider[p]
  BY <1>2 DEF PayoutsInv, TypeOK
<1>5. RowsInv'
  <2>0. LedgerExplainsBalance' /\ NothingPostedTwice'
    BY <1>2, BookFrame DEF PayoutsInv, RowsInv
  <2> USE <1>2 DEF dbVars
  <2>1. RowsMatchLedger' /\ DebitTransactionFollows'
    BY BookFrame DEF PayoutsInv, RowsInv, RowsMatchLedger,
                     DebitTransactionFollows, Exists
  <2>2. FeeNeedsCompletion'
    BY <1>1, <1>4 DEF PayoutsInv, TypeOK, RowsInv, FeeNeedsCompletion
  <2>3. NothingBeforeReserve'
    BY <1>1, <1>4 DEF PayoutsInv, RowsInv, NothingBeforeReserve, Exists
  <2>4. ProcessingFirst'
    BY <1>4 DEF PayoutsInv, RowsInv, ProcessingFirst
  <2> QED
    BY <2>0, <2>1, <2>2, <2>3, <2>4 DEF RowsInv
<1>6. CallsOwnTheirPayout'
  <2>1. \A g \in Handlers : /\ handler'[g].quote = handler[g].quote
                            /\ handler'[g].key = handler[g].key
                            /\ handler'[g].pc = IF g = h THEN "record" ELSE handler[g].pc
    BY <1>2 DEF PayoutsInv, TypeOK
  <2>2. \A g \in Handlers : Owns(g)' <=> Owns(g)
    BY <1>2, <2>1 DEF Owns
  <2>3. \A g \in Handlers \ {h} : Owns(g) => handler[g].quote # q
    BY <1>1, <1>2 DEF PayoutsInv, CallsOwnTheirPayout, CallInv, Owns
  <2> QED
    BY <1>1, <1>2, <1>4, <2>1, <2>2, <2>3
       DEF PayoutsInv, CallsOwnTheirPayout, CallInv, Owns, Exists, dbVars
<1>7. ClaimsReported'
  <2>1. \A p \in Quotes : \A r : Reported(p, r) => Reported(p, r)'
    BY <1>1, <1>4 DEF Reported
  <2>2. \A p \in Quotes : provider[p] # <<>> => provider'[p] # <<>>
    BY <1>4
  <2> QED
    BY <1>2, <2>1, <2>2 DEF PayoutsInv, ClaimsReported, dbVars
<1> QED
  BY <1>3, <1>5, <1>6, <1>7 DEF PayoutsInv

(* What the provider has once reported stays reported.                     *)
LEMMA ProviderMovesKeepsInv ==
  ASSUME PayoutsInv, NEW q \in Quotes, NEW status \in Outcomes,
         ProviderMoves(q, status)
  PROVE  PayoutsInv'
<1>1. /\ UNCHANGED <<bookVars, dbVars, handler, settler>>
      /\ provider' = [provider EXCEPT ![q] = Append(@, status)]
      /\ webhooks' = webhooks \cup {<<q, status>>}
      /\ provider[q] # <<>>
  BY DEF ProviderMoves, PayoutsInv, TypeOK
<1>2. TypeOK'
  BY <1>1 DEF PayoutsInv, TypeOK, bookVars, dbVars, Outcomes, ProviderStatus
<1>3. /\ Len(provider'[q]) = Len(provider[q]) + 1
      /\ DOMAIN provider'[q] = 1..(Len(provider[q]) + 1)
      /\ provider'[q][Len(provider[q]) + 1] = status
      /\ \A i \in DOMAIN provider[q] : /\ i \in DOMAIN provider'[q]
                                        /\ provider'[q][i] = provider[q][i]
      /\ DOMAIN provider[q] = 1..Len(provider[q])
      /\ \A p \in Quotes \ {q} : provider'[p] = provider[p]
  BY <1>1 DEF PayoutsInv, TypeOK
<1>4. \A p \in Quotes : \A r : Reported(p, r) => Reported(p, r)'
  BY <1>3 DEF Reported
<1>5. Reported(q, status)'
  <2>1. Len(provider[q]) + 1 \in DOMAIN provider'[q]
    BY <1>1, <1>3 DEF PayoutsInv, TypeOK
  <2> QED
    BY <1>3, <2>1 DEF Reported
<1>6. \A p \in Quotes : provider'[p] = <<>> <=> provider[p] = <<>>
  <2>1. provider'[q] # <<>>
    BY <1>3 DEF PayoutsInv, TypeOK
  <2> QED
    BY <1>1, <1>3, <2>1
<1>7. RowsInv'
  <2>0. LedgerExplainsBalance' /\ NothingPostedTwice'
    BY <1>1, BookFrame DEF PayoutsInv, RowsInv
  <2> USE <1>1 DEF dbVars
  <2>1. RowsMatchLedger' /\ DebitTransactionFollows'
    BY BookFrame DEF PayoutsInv, RowsInv, RowsMatchLedger,
                     DebitTransactionFollows, Exists
  <2>2. FeeNeedsCompletion'
    BY <1>4 DEF PayoutsInv, TypeOK, RowsInv, FeeNeedsCompletion, Reported
  <2>3. NothingBeforeReserve'
    BY <1>6 DEF PayoutsInv, RowsInv, NothingBeforeReserve, Exists
  <2>4. ProcessingFirst'
    BY <1>3 DEF PayoutsInv, RowsInv, ProcessingFirst, Outcomes
  <2> QED
    BY <2>0, <2>1, <2>2, <2>3, <2>4 DEF RowsInv
<1>8. CallsOwnTheirPayout'
  BY <1>1, <1>6 DEF PayoutsInv, CallsOwnTheirPayout, CallInv, Owns, Exists, dbVars
<1>9. ClaimsReported'
  BY <1>1, <1>4, <1>5, <1>6 DEF PayoutsInv, ClaimsReported, dbVars
<1> QED
  BY <1>2, <1>7, <1>8, <1>9 DEF PayoutsInv

(* A payout takes its reference while it is still pending.                 *)
LEMMA RecordSubmissionKeepsInv ==
  ASSUME PayoutsInv, NEW h \in Handlers, RecordSubmission(h)
  PROVE  PayoutsInv'
<1>1. PICK q \in Quotes : /\ q = handler[h].quote
                          /\ payout[q].status = "PENDING"
                          /\ provider[q] # <<>>
  BY DEF RecordSubmission, PayoutsInv, CallsOwnTheirPayout, CallInv
<1>2. /\ UNCHANGED <<bookVars, quote, rail, txn, earned, announced,
                     externalVars, settler>>
      /\ handler[h].pc = "record"
      /\ handler' = [handler EXCEPT ![h].pc = "announce"]
      /\ payout' = [payout EXCEPT ![q].status = "PROCESSING", ![q].hasRef = TRUE]
  BY <1>1 DEF RecordSubmission, Goto
<1>3. TypeOK'
  <2>1. handler' \in [Handlers -> Call]
    BY <1>2 DEF PayoutsInv, TypeOK, Call, HandlerSteps
  <2>2. payout' \in [Quotes -> PayoutRow]
    <3>1. payout' = [payout EXCEPT ![q] =
            [payout[q] EXCEPT !.status = "PROCESSING", !.hasRef = TRUE]]
      BY <1>2 DEF PayoutsInv, TypeOK
    <3>2. payout[q] \in PayoutRow
      BY DEF PayoutsInv, TypeOK
    <3>3. [payout[q] EXCEPT !.status = "PROCESSING", !.hasRef = TRUE] \in PayoutRow
      BY <3>2 DEF PayoutRow, PayoutStatus
    <3> QED
      BY <3>1, <3>3 DEF PayoutsInv, TypeOK
  <2> QED
    BY <1>2, <2>1, <2>2 DEF PayoutsInv, TypeOK, bookVars, externalVars
<1>4. /\ payout'[q].status = "PROCESSING" /\ payout'[q].hasRef
      /\ payout'[q].reversed = payout[q].reversed
      /\ \A p \in Quotes \ {q} : payout'[p] = payout[p]
  BY <1>2 DEF PayoutsInv, TypeOK
<1>5. \A p \in Quotes : Exists(p)' <=> Exists(p)
  BY <1>1, <1>4 DEF Exists
<1>6. RowsInv'
  <2>0. LedgerExplainsBalance' /\ NothingPostedTwice'
    BY <1>2, BookFrame DEF PayoutsInv, RowsInv
  <2> USE <1>2 DEF externalVars
  <2>1. FeeNeedsCompletion' /\ ProcessingFirst'
    BY DEF PayoutsInv, RowsInv, FeeNeedsCompletion, ProcessingFirst
  <2>2. RowsMatchLedger'
    BY <1>4, <1>5, BookFrame DEF PayoutsInv, RowsInv, RowsMatchLedger
  <2>3. DebitTransactionFollows'
    BY <1>1, <1>4 DEF PayoutsInv, RowsInv, DebitTransactionFollows
  <2>4. NothingBeforeReserve'
    BY <1>1, <1>4, <1>5 DEF PayoutsInv, RowsInv, NothingBeforeReserve, Exists
  <2> QED
    BY <2>0, <2>1, <2>2, <2>3, <2>4 DEF RowsInv
<1>7. CallsOwnTheirPayout'
  <2>1. \A g \in Handlers : /\ handler'[g].quote = handler[g].quote
                            /\ handler'[g].key = handler[g].key
                            /\ handler'[g].pc = IF g = h THEN "announce" ELSE handler[g].pc
    BY <1>2 DEF PayoutsInv, TypeOK
  <2>2. \A g \in Handlers : Owns(g)' <=> Owns(g)
    BY <1>2, <2>1 DEF Owns
  <2>3. \A g \in Handlers \ {h} : Owns(g) => handler[g].quote # q
    BY <1>1, <1>2 DEF PayoutsInv, CallsOwnTheirPayout, CallInv, Owns
  <2>4. \A g, k \in Handlers :
          Owns(g)' /\ Owns(k)' /\ handler'[g].quote = handler'[k].quote => g = k
    BY <2>1, <2>2 DEF PayoutsInv, CallsOwnTheirPayout, CallInv
  <2>5. ASSUME NEW g \in Handlers \ {h}, Owns(g), handler[g].pc \in {"submit", "record"}
        PROVE  payout'[handler[g].quote] = payout[handler[g].quote]
    BY <1>4, <2>3, <2>5 DEF PayoutsInv, CallsOwnTheirPayout, CallInv, Owns
  <2>6. ASSUME NEW g \in Handlers
        PROVE  CallInv(g)'
    <3>1. CASE g = h
      <4>1. handler'[h].quote = q /\ handler'[h].pc = "announce"
        BY <1>1, <2>1
      <4>2. handler'[h].key \in Keys
        BY <1>2, <2>1 DEF PayoutsInv, CallsOwnTheirPayout, CallInv
      <4>3. payout'[handler'[h].quote].status # "NONE"
        BY <1>4, <4>1
      <4> QED
        BY <3>1, <4>1, <4>2, <4>3 DEF CallInv, Exists
    <3>2. CASE g # h
      <4>1. handler'[g] = handler[g]
        BY <1>2, <3>2 DEF PayoutsInv, TypeOK
      <4>2. CASE Owns(g)
        BY <1>2, <1>5, <2>5, <3>2, <4>1, <4>2
           DEF PayoutsInv, CallsOwnTheirPayout, CallInv, Owns, externalVars
      <4>3. CASE ~ Owns(g)
        BY <4>1, <4>3 DEF PayoutsInv, CallsOwnTheirPayout, CallInv, Owns
      <4> QED
        BY <4>2, <4>3
    <3> QED
      BY <3>1, <3>2
  <2> QED
    BY <2>4, <2>6 DEF CallsOwnTheirPayout
<1>8. ClaimsReported'
  <2>1. \A p \in Quotes : payout'[p].hasRef => provider[p] # <<>>
    BY <1>1, <1>4 DEF PayoutsInv, ClaimsReported
  <2> QED
    BY <1>2, <2>1 DEF PayoutsInv, ClaimsReported, Reported, externalVars
<1> QED
  BY <1>3, <1>6, <1>7, <1>8 DEF PayoutsInv

-----------------------------------------------------------------------------
(* Steps that move money, or settle a payout                               *)

LEMMA BookTyped == TypeOK => BookType(Entries(Quotes, Sources))
BY DEF TypeOK, BookType, Sources

(* The sources of different quotes, or purposes, are different.            *)
LEMMA SourcesDiffer ==
  \A p, q : \A a, b : Source(p, a) = Source(q, b) <=> p = q /\ a = b
BY DEF Source

(* The reservation: the debit is new to the ledger because the payout is   *)
(* new to the table.                                                       *)
LEMMA ReserveRows ==
  ASSUME TypeOK, RowsInv, NEW q \in Quotes, NEW k \in Keys, ~ Exists(q),
         Post(WalletOf[q], "DEBIT", TotalDebit[q], Source(q, "debit")),
         payout' = [payout EXCEPT ![q] =
           [status |-> "PENDING", key |-> k, hasRef |-> FALSE, reversed |-> FALSE]],
         txn' = [txn EXCEPT ![q].debit = "PROCESSING"],
         UNCHANGED <<earned, provider>>
  PROVE  /\ BookType(Entries(Quotes, Sources))'
         /\ payout' \in [Quotes -> PayoutRow] /\ txn' \in [Quotes -> TransactionRows]
         /\ RowsInv'
<1>1. /\ BookType(Entries(Quotes, Sources))
      /\ WalletOf[q] \in Wallets /\ TotalDebit[q] \in Nat
      /\ "debit" \in Sources /\ "DEBIT" \in EntryTypes
  BY BookTyped, PayoutAssumption DEF Sources, EntryTypes
<1>2. ~ Posted(Source(q, "debit"))
  BY DEF RowsInv, RowsMatchLedger
<1>3. BookType(Entries(Quotes, Sources))'
  BY <1>1, PostTypes
<1>4. LedgerExplainsBalance' /\ NothingPostedTwice'
  BY <1>1, <1>2, PostExplains, PostOnce DEF RowsInv
<1>5. \A s : Posted(s)' <=> Posted(s) \/ s = Source(q, "debit")
  BY <1>1, PostPosts
<1>6. payout' \in [Quotes -> PayoutRow]
  BY DEF TypeOK, PayoutRow, PayoutStatus
<1>7. txn' \in [Quotes -> TransactionRows]
  BY DEF TypeOK, TransactionRows, TransactionStatus
<1>8. /\ payout'[q].status = "PENDING" /\ ~ payout'[q].hasRef /\ ~ payout'[q].reversed
      /\ \A p \in Quotes \ {q} : payout'[p] = payout[p] /\ txn'[p] = txn[p]
      /\ txn'[q].debit = "PROCESSING"
  BY DEF TypeOK, TransactionRows
<1>9. RowsMatchLedger'
  <2>1. ASSUME NEW p \in Quotes
        PROVE  /\ Exists(p)' <=> Posted(Source(p, "debit"))'
               /\ payout'[p].reversed <=> Posted(Source(p, "reversal"))'
               /\ payout'[p].status \in {"FAILED", "REFUNDED"} => payout'[p].reversed
    <3>1. /\ Posted(Source(p, "debit"))' <=> Posted(Source(p, "debit")) \/ p = q
          /\ Posted(Source(p, "reversal"))' <=> Posted(Source(p, "reversal"))
      BY <1>5, SourcesDiffer
    <3>2. CASE p = q
      BY <1>8, <3>1, <3>2 DEF RowsInv, RowsMatchLedger, NothingBeforeReserve, Exists
    <3>3. CASE p # q
      BY <1>8, <3>1, <3>3 DEF RowsInv, RowsMatchLedger, Exists
    <3> QED
      BY <3>2, <3>3
  <2> QED
    BY <2>1 DEF RowsMatchLedger
<1>10. DebitTransactionFollows' /\ NothingBeforeReserve'
  BY <1>8 DEF RowsInv, DebitTransactionFollows, NothingBeforeReserve, Exists
<1>11. FeeNeedsCompletion' /\ ProcessingFirst'
  BY DEF RowsInv, FeeNeedsCompletion, ProcessingFirst
<1> QED
  BY <1>3, <1>4, <1>6, <1>7, <1>9, <1>10, <1>11 DEF RowsInv

(* The reversal: the credit is new to the ledger because reversedAt is     *)
(* null until then.                                                        *)
LEMMA ReversalRows ==
  ASSUME TypeOK, RowsInv, NEW q \in Quotes, Exists(q), Reversible(q),
         NEW status \in {"FAILED", "REFUNDED"}, ReversePayout(q, status),
         UNCHANGED <<earned, provider>>
  PROVE  /\ BookType(Entries(Quotes, Sources))'
         /\ payout' \in [Quotes -> PayoutRow] /\ txn' \in [Quotes -> TransactionRows]
         /\ \A p \in Quotes \ {q} : payout'[p] = payout[p]
         /\ payout'[q].status = status /\ payout'[q].hasRef = payout[q].hasRef
         /\ RowsInv'
<1>1. /\ BookType(Entries(Quotes, Sources))
      /\ WalletOf[q] \in Wallets /\ TotalDebit[q] \in Nat
      /\ "reversal" \in Sources /\ "CREDIT" \in EntryTypes
      /\ Post(WalletOf[q], "CREDIT", TotalDebit[q], Source(q, "reversal"))
  BY BookTyped, PayoutAssumption DEF Sources, EntryTypes, ReversePayout
<1>2. ~ Posted(Source(q, "reversal"))
  BY DEF RowsInv, RowsMatchLedger, Reversible
<1>3. BookType(Entries(Quotes, Sources))'
  BY <1>1, PostTypes
<1>4. LedgerExplainsBalance' /\ NothingPostedTwice'
  BY <1>1, <1>2, PostExplains, PostOnce DEF RowsInv
<1>5. \A s : Posted(s)' <=> Posted(s) \/ s = Source(q, "reversal")
  BY <1>1, PostPosts
<1>6. payout' \in [Quotes -> PayoutRow]
  <2>1. payout' = [payout EXCEPT ![q] =
          [payout[q] EXCEPT !.status = status, !.reversed = TRUE]]
    BY DEF ReversePayout, TypeOK
  <2>2. payout[q] \in PayoutRow
    BY DEF TypeOK
  <2>3. [payout[q] EXCEPT !.status = status, !.reversed = TRUE] \in PayoutRow
    BY <2>2 DEF PayoutRow, PayoutStatus
  <2> QED
    BY <2>1, <2>3 DEF TypeOK
<1>7. /\ payout'[q].status = status /\ payout'[q].reversed
      /\ payout'[q].hasRef = payout[q].hasRef
      /\ \A p \in Quotes \ {q} : payout'[p] = payout[p]
  BY DEF TypeOK, ReversePayout, PayoutRow
<1>8. txn' = [txn EXCEPT ![q] = [debit |-> status, reversal |-> status]]
  BY DEF TypeOK, ReversePayout, AllTransactions, TransactionRows
<1>9. /\ txn' \in [Quotes -> TransactionRows]
      /\ txn'[q].debit = status
      /\ \A p \in Quotes \ {q} : txn'[p] = txn[p]
  BY <1>8 DEF TypeOK, TransactionRows, TransactionStatus
<1>10. RowsMatchLedger'
  <2>1. ASSUME NEW p \in Quotes
        PROVE  /\ Exists(p)' <=> Posted(Source(p, "debit"))'
               /\ payout'[p].reversed <=> Posted(Source(p, "reversal"))'
               /\ payout'[p].status \in {"FAILED", "REFUNDED"} => payout'[p].reversed
    <3>1. /\ Posted(Source(p, "debit"))' <=> Posted(Source(p, "debit"))
          /\ Posted(Source(p, "reversal"))' <=> Posted(Source(p, "reversal")) \/ p = q
      BY <1>5, SourcesDiffer
    <3>2. CASE p = q
      BY <1>7, <3>1, <3>2 DEF RowsInv, RowsMatchLedger, Exists
    <3>3. CASE p # q
      BY <1>7, <3>1, <3>3 DEF RowsInv, RowsMatchLedger, Exists
    <3> QED
      BY <3>2, <3>3
  <2> QED
    BY <2>1 DEF RowsMatchLedger
<1>11. DebitTransactionFollows' /\ NothingBeforeReserve'
  BY <1>7, <1>9 DEF RowsInv, DebitTransactionFollows, NothingBeforeReserve, Exists
<1>12. FeeNeedsCompletion' /\ ProcessingFirst'
  BY DEF RowsInv, FeeNeedsCompletion, ProcessingFirst
<1> QED
  BY <1>3, <1>4, <1>6, <1>7, <1>9, <1>10, <1>11, <1>12 DEF RowsInv

(* A payout that has its reference can change without a confirm call that  *)
(* is still to record a reference noticing.                                *)
LEMMA CallsAfterSettlement ==
  ASSUME CallsOwnTheirPayout, UNCHANGED <<handler, provider>>, NEW q \in Quotes,
         payout[q].hasRef, Exists(q)', \A p \in Quotes \ {q} : payout'[p] = payout[p]
  PROVE  CallsOwnTheirPayout'
<1>1. \A h \in Handlers : Owns(h)' <=> Owns(h)
  BY DEF Owns
<1>2. ASSUME NEW h \in Handlers
      PROVE  CallInv(h)'
  <2>1. CASE handler[h].quote = q
    BY <2>1 DEF CallsOwnTheirPayout, CallInv, Owns
  <2>2. CASE handler[h].quote # q
    BY <2>2 DEF CallsOwnTheirPayout, CallInv, Owns, Exists
  <2> QED
    BY <2>1, <2>2
<1> QED
  BY <1>1, <1>2 DEF CallsOwnTheirPayout

LEMMA ReserveKeepsInv ==
  ASSUME PayoutsInv, NEW h \in Handlers, Reserve(h)
  PROVE  PayoutsInv'
<1>1. PICK q \in Quotes, k \in Keys : q = handler[h].quote /\ k = handler[h].key
  BY DEF Reserve, PayoutsInv, CallsOwnTheirPayout, CallInv
<1>2. /\ UNCHANGED <<rail, earned, announced, externalVars, settler>>
      /\ handler[h].pc = "reserve"
  BY DEF Reserve
<1>3. CASE Insertable(q, k)
  <2>1. /\ ~ Exists(q)
        /\ Post(WalletOf[q], "DEBIT", TotalDebit[q], Source(q, "debit"))
        /\ payout' = [payout EXCEPT ![q] =
             [status |-> "PENDING", key |-> k, hasRef |-> FALSE, reversed |-> FALSE]]
        /\ txn' = [txn EXCEPT ![q].debit = "PROCESSING"]
        /\ quote' = [quote EXCEPT ![q] = "confirmed"]
        /\ handler' = [handler EXCEPT ![h].pc = "submit"]
    BY <1>1, <1>3 DEF Reserve, Insertable, Goto
  <2>2. /\ BookType(Entries(Quotes, Sources))'
        /\ payout' \in [Quotes -> PayoutRow] /\ txn' \in [Quotes -> TransactionRows]
        /\ RowsInv'
    BY <1>2, <2>1, ReserveRows DEF PayoutsInv, externalVars
  <2>3. /\ handler' \in [Handlers -> Call]
        /\ \A g \in Handlers \ {h} : handler'[g] = handler[g]
        /\ handler'[h].pc = "submit"
        /\ handler'[h].quote = q /\ handler'[h].key = k
    BY <1>1, <2>1 DEF PayoutsInv, TypeOK, Call, HandlerSteps
  <2>4. quote' \in [Quotes -> {"absent", "open", "expired", "confirmed"}]
    BY <2>1 DEF PayoutsInv, TypeOK
  <2>5. TypeOK'
    BY <1>2, <2>2, <2>3, <2>4
       DEF PayoutsInv, TypeOK, BookType, Sources, externalVars
  <2>6. /\ \A p \in Quotes \ {q} : payout'[p] = payout[p]
        /\ payout'[q].status = "PENDING" /\ ~ payout'[q].hasRef
    BY <2>1 DEF PayoutsInv, TypeOK
  <2>7. \A g \in Handlers \ {h} : Owns(g) => handler[g].quote # q
    BY <2>1 DEF PayoutsInv, CallsOwnTheirPayout, CallInv
  <2>8. CallInv(h)'
    <3>1. provider'[q] = <<>>
      BY <1>2, <2>1 DEF PayoutsInv, RowsInv, NothingBeforeReserve, externalVars
    <3> QED
      BY <2>3, <2>6, <3>1 DEF CallInv, Exists, Owns
  <2>9. ASSUME NEW g \in Handlers \ {h}
        PROVE  CallInv(g)'
    <3>1. CASE Owns(g)
      BY <1>2, <2>3, <2>6, <2>7, <3>1
         DEF PayoutsInv, CallsOwnTheirPayout, CallInv, Exists, Owns, externalVars
    <3>2. CASE ~ Owns(g)
      BY <2>3, <3>2 DEF PayoutsInv, CallsOwnTheirPayout, CallInv, Owns
    <3> QED
      BY <3>1, <3>2
  <2>10. CallsOwnTheirPayout'
    <3>1. \A g \in Handlers \ {h} : Owns(g)' <=> Owns(g)
      BY <2>3 DEF Owns
    <3>2. \A g, f \in Handlers :
            Owns(g)' /\ Owns(f)' /\ handler'[g].quote = handler'[f].quote => g = f
      BY <2>3, <2>7, <3>1 DEF PayoutsInv, CallsOwnTheirPayout
    <3> QED
      BY <2>8, <2>9, <3>2 DEF CallsOwnTheirPayout
  <2>11. ClaimsReported'
    BY <1>2, <2>6, ClaimsFrame DEF PayoutsInv, externalVars
  <2> QED
    BY <2>2, <2>5, <2>10, <2>11 DEF PayoutsInv
<1>4. CASE ~ Insertable(q, k)
  <2>1. /\ UNCHANGED <<bookVars, payout, txn, quote>>
        /\ handler' = [handler EXCEPT ![h] = Idle]
    BY <1>1, <1>4 DEF Reserve, Leave
  <2>2. TypeOK'
    BY <1>2, <2>1 DEF PayoutsInv, TypeOK, bookVars, externalVars, Idle, Call,
                      HandlerSteps
  <2>3. CallsOwnTheirPayout'
    BY <1>2, <2>1 DEF PayoutsInv, TypeOK, CallsOwnTheirPayout, CallInv, Owns,
                      Exists, Idle, externalVars
  <2>4. RowsInv' /\ ClaimsReported'
    BY <1>2, <2>1, RowsFrame, ClaimsFrame DEF PayoutsInv, externalVars
  <2> QED
    BY <2>2, <2>3, <2>4 DEF PayoutsInv
<1> QED
  BY <1>3, <1>4

LEMMA ReverseSubmissionKeepsInv ==
  ASSUME PayoutsInv, NEW h \in Handlers, ReverseSubmission(h)
  PROVE  PayoutsInv'
<1>1. PICK q \in Quotes : q = handler[h].quote /\ Exists(q)
  BY DEF ReverseSubmission, PayoutsInv, CallsOwnTheirPayout, CallInv, Owns
<1>2. /\ UNCHANGED <<quote, rail, earned, announced, externalVars, settler>>
      /\ handler[h].pc = "reverse" /\ Owns(h)
  BY DEF ReverseSubmission, Owns
<1>3. CASE Reversible(q)
  <2>1. /\ ReversePayout(q, "FAILED")
        /\ handler' = [handler EXCEPT ![h].pc = "announceReversal"]
    BY <1>1, <1>3 DEF ReverseSubmission, Goto
  <2>2. /\ BookType(Entries(Quotes, Sources))'
        /\ payout' \in [Quotes -> PayoutRow] /\ txn' \in [Quotes -> TransactionRows]
        /\ \A p \in Quotes \ {q} : payout'[p] = payout[p]
        /\ payout'[q].status = "FAILED" /\ payout'[q].hasRef = payout[q].hasRef
        /\ RowsInv'
    BY <1>1, <1>2, <1>3, <2>1, ReversalRows DEF PayoutsInv, externalVars
  <2>3. /\ handler' \in [Handlers -> Call]
        /\ \A g \in Handlers \ {h} : handler'[g] = handler[g]
        /\ handler'[h].pc = "announceReversal"
        /\ handler'[h].quote = q /\ handler'[h].key = handler[h].key
    BY <1>1, <2>1 DEF PayoutsInv, TypeOK, Call, HandlerSteps
  <2>4. TypeOK'
    BY <1>2, <2>2, <2>3 DEF PayoutsInv, TypeOK, BookType, Sources, externalVars
  <2>5. \A g \in Handlers \ {h} : Owns(g) => handler[g].quote # q
    BY <1>1, <1>2 DEF PayoutsInv, CallsOwnTheirPayout
  <2>6. CallInv(h)'
    <3>1. handler[h].key \in Keys
      BY <1>2 DEF PayoutsInv, CallsOwnTheirPayout, CallInv
    <3> QED
      BY <2>2, <2>3, <3>1 DEF CallInv, Exists, Owns
  <2>7. ASSUME NEW g \in Handlers \ {h}
        PROVE  CallInv(g)'
    <3>1. CASE Owns(g)
      BY <1>2, <2>2, <2>3, <2>5, <3>1
         DEF PayoutsInv, CallsOwnTheirPayout, CallInv, Exists, Owns, externalVars
    <3>2. CASE ~ Owns(g)
      BY <2>3, <3>2 DEF PayoutsInv, CallsOwnTheirPayout, CallInv, Owns
    <3> QED
      BY <3>1, <3>2
  <2>8. CallsOwnTheirPayout'
    <3>1. \A g \in Handlers \ {h} : Owns(g)' <=> Owns(g)
      BY <2>3 DEF Owns
    <3>2. \A g, f \in Handlers :
            Owns(g)' /\ Owns(f)' /\ handler'[g].quote = handler'[f].quote => g = f
      BY <2>3, <2>5, <3>1 DEF PayoutsInv, CallsOwnTheirPayout
    <3> QED
      BY <2>6, <2>7, <3>2 DEF CallsOwnTheirPayout
  <2>9. ClaimsReported'
    BY <1>2, <2>2, ClaimsFrame DEF PayoutsInv, externalVars
  <2> QED
    BY <2>2, <2>4, <2>8, <2>9 DEF PayoutsInv
<1>4. CASE ~ Reversible(q)
  <2>1. /\ UNCHANGED <<bookVars, payout, txn>>
        /\ handler' = [handler EXCEPT ![h] = Idle]
    BY <1>1, <1>4 DEF ReverseSubmission, Leave
  <2>2. TypeOK'
    BY <1>2, <2>1 DEF PayoutsInv, TypeOK, bookVars, externalVars, Idle, Call,
                      HandlerSteps
  <2>3. CallsOwnTheirPayout'
    BY <1>2, <2>1 DEF PayoutsInv, TypeOK, CallsOwnTheirPayout, CallInv, Owns,
                      Exists, Idle, externalVars
  <2>4. RowsInv' /\ ClaimsReported'
    BY <1>2, <2>1, RowsFrame, ClaimsFrame DEF PayoutsInv, externalVars
  <2> QED
    BY <2>2, <2>3, <2>4 DEF PayoutsInv
<1> QED
  BY <1>3, <1>4

(* A settler that has applied its outcome goes on to announce it, or rests.*)
LEMMA SettlerLeavesApply ==
  ASSUME PayoutsInv, NEW s \in Settlers, settler[s].pc = "apply",
         Rest(s) \/ settler' = [settler EXCEPT ![s].pc = "announce"],
         UNCHANGED externalVars,
         \A q \in Quotes : payout'[q].hasRef => payout[q].hasRef
  PROVE  settler' \in [Settlers -> Settlement] /\ ClaimsReported'
<1>1. CASE Rest(s)
  <2>1. settler' \in [Settlers -> Settlement]
    BY <1>1 DEF PayoutsInv, TypeOK, Rest, Resting, Settlement, SettlerSteps, Outcomes
  <2>2. ClaimsReported'
    BY <1>1 DEF PayoutsInv, TypeOK, ClaimsReported, Reported, Rest, Resting,
                externalVars
  <2> QED
    BY <2>1, <2>2
<1>2. CASE settler' = [settler EXCEPT ![s].pc = "announce"]
  <2>1. settler' \in [Settlers -> Settlement]
    BY <1>2 DEF PayoutsInv, TypeOK, Settlement, SettlerSteps
  <2>2. /\ settler'[s].pc = "announce" /\ settler'[s].quote = settler[s].quote
        /\ settler'[s].claim = settler[s].claim /\ settler'[s].seen = settler[s].seen
        /\ \A t \in Settlers \ {s} : settler'[t] = settler[t]
    BY <1>2 DEF PayoutsInv, TypeOK, Settlement
  <2>3. ClaimsReported'
    BY <2>2 DEF PayoutsInv, ClaimsReported, Reported, externalVars
  <2> QED
    BY <2>1, <2>3
<1> QED
  BY <1>1, <1>2

LEMMA ApplyCompletionKeepsInv ==
  ASSUME PayoutsInv, NEW s \in Settlers, ApplyCompletion(s)
  PROVE  PayoutsInv'
<1>1. PICK q \in Quotes : /\ q = settler[s].quote /\ payout[q].hasRef
                          /\ Reported(q, "completed")
  BY DEF ApplyCompletion, ShowsCompletion, Found, PayoutsInv, ClaimsReported
<1>2. /\ UNCHANGED <<bookVars, quote, rail, announced, externalVars, handler>>
      /\ settler[s].pc = "apply"
  BY DEF ApplyCompletion
<1>3. Exists(q)
  BY <1>1 DEF PayoutsInv, RowsInv, NothingBeforeReserve
<1>4. CASE payout[q].status # "COMPLETED"
  <2>1. /\ payout' = [payout EXCEPT ![q].status = "COMPLETED"]
        /\ txn' = [txn EXCEPT ![q] = AllTransactions(txn[q], "COMPLETED")]
        /\ earned' \subseteq earned \cup {q}
        /\ settler' = [settler EXCEPT ![s].pc = "announce"]
    BY <1>1, <1>4 DEF ApplyCompletion, PayoutsInv, TypeOK
  <2>2. /\ payout'[q].status = "COMPLETED" /\ payout'[q].hasRef
        /\ payout'[q].reversed = payout[q].reversed
        /\ \A p \in Quotes \ {q} : payout'[p] = payout[p]
    BY <1>1, <2>1 DEF PayoutsInv, TypeOK
  <2>3. payout' \in [Quotes -> PayoutRow]
    BY <2>1 DEF PayoutsInv, TypeOK, PayoutRow, PayoutStatus
  <2>4. AllTransactions(txn[q], "COMPLETED") \in TransactionRows
    BY DEF PayoutsInv, TypeOK, AllTransactions, TransactionRows, TransactionStatus
  <2>5. /\ txn' \in [Quotes -> TransactionRows] /\ txn'[q].debit = "COMPLETED"
        /\ \A p \in Quotes \ {q} : txn'[p] = txn[p]
    BY <2>1, <2>4 DEF PayoutsInv, TypeOK, AllTransactions
  <2>6. settler' \in [Settlers -> Settlement] /\ ClaimsReported'
    BY <1>1, <1>2, <2>1, <2>2, SettlerLeavesApply
  <2>7. TypeOK'
    BY <1>2, <2>1, <2>3, <2>5, <2>6 DEF PayoutsInv, TypeOK, bookVars, externalVars
  <2>8. RowsInv'
    <3>0. LedgerExplainsBalance' /\ NothingPostedTwice'
      BY <1>2, BookFrame DEF PayoutsInv, RowsInv
    <3>1. RowsMatchLedger'
      BY <1>2, <1>3, <2>2, BookFrame DEF PayoutsInv, RowsInv, RowsMatchLedger, Exists
    <3>2. DebitTransactionFollows'
      BY <2>2, <2>5 DEF PayoutsInv, RowsInv, DebitTransactionFollows
    <3>3. FeeNeedsCompletion' /\ ProcessingFirst'
      BY <1>1, <1>2, <2>1 DEF PayoutsInv, RowsInv, FeeNeedsCompletion, Reported,
                              ProcessingFirst, externalVars
    <3>4. NothingBeforeReserve'
      BY <1>2, <2>2, <2>5 DEF PayoutsInv, RowsInv, NothingBeforeReserve, Exists,
                              externalVars
    <3> QED
      BY <3>0, <3>1, <3>2, <3>3, <3>4 DEF RowsInv
  <2>9. CallsOwnTheirPayout'
    <3>1. Exists(q)' /\ UNCHANGED <<handler, provider>>
      BY <1>2, <2>2 DEF Exists, externalVars
    <3> QED
      BY <1>1, <2>2, <3>1, CallsAfterSettlement DEF PayoutsInv
  <2> QED
    BY <2>6, <2>7, <2>8, <2>9 DEF PayoutsInv
<1>5. CASE payout[q].status = "COMPLETED"
  <2>1. UNCHANGED <<payout, txn, earned>> /\ Rest(s)
    BY <1>1, <1>5 DEF ApplyCompletion
  <2>2. settler' \in [Settlers -> Settlement] /\ ClaimsReported'
    BY <1>2, <2>1, SettlerLeavesApply
  <2>3. TypeOK'
    BY <1>2, <2>1, <2>2 DEF PayoutsInv, TypeOK, bookVars, externalVars
  <2>4. RowsInv' /\ CallsOwnTheirPayout'
    BY <1>2, <2>1, RowsFrame, CallsFrame DEF PayoutsInv, externalVars
  <2> QED
    BY <2>2, <2>3, <2>4 DEF PayoutsInv
<1> QED
  BY <1>4, <1>5

LEMMA ApplyFailureKeepsInv ==
  ASSUME PayoutsInv, NEW s \in Settlers, ApplyFailure(s)
  PROVE  PayoutsInv'
<1>1. PICK q \in Quotes : q = settler[s].quote /\ payout[q].hasRef
  BY DEF ApplyFailure, Found, PayoutsInv, ClaimsReported
<1>2. /\ UNCHANGED <<quote, rail, earned, announced, externalVars, handler>>
      /\ settler[s].pc = "apply"
  BY DEF ApplyFailure
<1>3. Exists(q)
  BY <1>1 DEF PayoutsInv, RowsInv, NothingBeforeReserve
<1>4. CASE Reversible(q)
  <2>1. PICK status \in {"FAILED", "REFUNDED"} : ReversePayout(q, status)
    BY <1>1, <1>4 DEF ApplyFailure, FailureStatus
  <2>2. settler' = [settler EXCEPT ![s].pc = "announce"]
    BY <1>1, <1>4 DEF ApplyFailure
  <2>3. /\ BookType(Entries(Quotes, Sources))'
        /\ payout' \in [Quotes -> PayoutRow] /\ txn' \in [Quotes -> TransactionRows]
        /\ \A p \in Quotes \ {q} : payout'[p] = payout[p]
        /\ payout'[q].status = status /\ payout'[q].hasRef = payout[q].hasRef
        /\ RowsInv'
    BY <1>2, <1>3, <1>4, <2>1, ReversalRows DEF PayoutsInv, externalVars
  <2>4. settler' \in [Settlers -> Settlement] /\ ClaimsReported'
    BY <1>2, <2>2, <2>3, SettlerLeavesApply
  <2>5. TypeOK'
    BY <1>2, <2>3, <2>4 DEF PayoutsInv, TypeOK, BookType, Sources, externalVars
  <2>6. CallsOwnTheirPayout'
    <3>1. Exists(q)' /\ UNCHANGED <<handler, provider>>
      BY <1>2, <2>3 DEF Exists, externalVars
    <3> QED
      BY <1>1, <2>3, <3>1, CallsAfterSettlement DEF PayoutsInv
  <2> QED
    BY <2>3, <2>4, <2>5, <2>6 DEF PayoutsInv
<1>5. CASE ~ Reversible(q)
  <2>1. UNCHANGED <<bookVars, payout, txn>> /\ Rest(s)
    BY <1>1, <1>5 DEF ApplyFailure
  <2>2. settler' \in [Settlers -> Settlement] /\ ClaimsReported'
    BY <1>2, <2>1, SettlerLeavesApply
  <2>3. TypeOK'
    BY <1>2, <2>1, <2>2 DEF PayoutsInv, TypeOK, bookVars, externalVars
  <2>4. RowsInv' /\ CallsOwnTheirPayout'
    BY <1>2, <2>1, RowsFrame, CallsFrame DEF PayoutsInv, externalVars
  <2> QED
    BY <2>2, <2>3, <2>4 DEF PayoutsInv
<1> QED
  BY <1>4, <1>5

-----------------------------------------------------------------------------
(* The invariant                                                           *)

LEMMA NextInv == PayoutsInv /\ [Next]_vars => PayoutsInv'
<1> SUFFICES ASSUME PayoutsInv, [Next]_vars
             PROVE  PayoutsInv'
  OBVIOUS
<1>1. CASE \E q \in Quotes : CreateQuote(q) \/ ExpireQuote(q)
  BY <1>1, QuoteSteps
<1>2. CASE \E q \in Quotes, status \in Outcomes : ProviderMoves(q, status)
  BY <1>2, ProviderMovesKeepsInv
<1>3. ASSUME NEW h \in Handlers, HandlerStep(h)
      PROVE  PayoutsInv'
  <2>1. CASE \/ \E q \in Quotes, k \in Keys : StartConfirm(h, q, k)
             \/ ReadQuote(h) \/ ReadWallet(h) \/ SubmissionFails(h)
             \/ HandlerCrash(h)
    BY <2>1, QuietHandlerSteps
  <2>2. CASE AnnounceProcessing(h) \/ AnnounceReversal(h)
    BY <2>2, HandlerAnnouncements
  <2>3. CASE Reserve(h)
    BY <2>3, ReserveKeepsInv
  <2>4. CASE ProviderAccepts(h)
    BY <2>4, ProviderAcceptsKeepsInv
  <2>5. CASE RecordSubmission(h)
    BY <2>5, RecordSubmissionKeepsInv
  <2>6. CASE ReverseSubmission(h)
    BY <2>6, ReverseSubmissionKeepsInv
  <2> QED
    BY <1>3, <2>1, <2>2, <2>3, <2>4, <2>5, <2>6 DEF HandlerStep
<1>4. ASSUME NEW s \in Settlers, SettlerStep(s)
      PROVE  PayoutsInv'
  <2>1. CASE \/ \E q \in Quotes, status \in Outcomes : AcceptWebhook(s, q, status)
             \/ \E q \in Quotes : StartReconcile(s, q)
             \/ AskProvider(s) \/ QueryProvider(s) \/ SettlementNotFound(s)
             \/ SettlementIgnored(s) \/ SettlerCrash(s)
    BY <2>1, QuietSettlerSteps
  <2>2. CASE AnnounceSettlement(s)
    BY <2>2, SettlerAnnouncement
  <2>3. CASE ApplyCompletion(s)
    BY <2>3, ApplyCompletionKeepsInv
  <2>4. CASE ApplyFailure(s)
    BY <2>4, ApplyFailureKeepsInv
  <2> QED
    BY <1>4, <2>1, <2>2, <2>3, <2>4 DEF SettlerStep
<1>5. CASE UNCHANGED vars
  <2>1. TypeOK'
    BY <1>5 DEF PayoutsInv, TypeOK, vars, bookVars, dbVars, externalVars
  <2>2. RowsInv' /\ CallsOwnTheirPayout' /\ ClaimsReported'
    BY <1>5, RowsFrame, CallsFrame, ClaimsFrame
       DEF PayoutsInv, vars, dbVars, externalVars
  <2> QED
    BY <2>1, <2>2 DEF PayoutsInv
<1> QED
  BY <1>1, <1>2, <1>3, <1>4, <1>5 DEF Next

(* In every state of the payouts their inductive invariant holds.          *)
THEOREM Invariance == Spec => []PayoutsInv
<1>1. Init => PayoutsInv
  BY InitInv
<1>2. PayoutsInv /\ [Next]_vars => PayoutsInv'
  BY NextInv
<1> QED
  BY <1>1, <1>2, PTL DEF Spec

-----------------------------------------------------------------------------
(* What follows from the invariant                                         *)

(* Every variable keeps its type.                                          *)
THEOREM TypeCorrect == Spec => []TypeOK
<1>1. PayoutsInv => TypeOK
  BY DEF PayoutsInv
<1> QED
  BY <1>1, Invariance, PTL

(* The ledger explains every wallet's balance at any time, however many    *)
(* payouts and reversals interleave on the wallet.                         *)
THEOREM BookExplained == Spec => []LedgerExplainsBalance
<1>1. PayoutsInv => LedgerExplainsBalance
  BY DEF PayoutsInv, RowsInv
<1> QED
  BY <1>1, Invariance, PTL

(* A payout is debited once and credited back once, whichever confirm      *)
(* calls, webhooks and reconciliation passes race for it.                  *)
THEOREM PostedOnce == Spec => []NothingPostedTwice
<1>1. PayoutsInv => NothingPostedTwice
  BY DEF PayoutsInv, RowsInv
<1> QED
  BY <1>1, Invariance, PTL

(* Payout rows and ledger agree on where the money is.                     *)
THEOREM RowsAgree == Spec => []RowsMatchLedger
<1>1. PayoutsInv => RowsMatchLedger
  BY DEF PayoutsInv, RowsInv
<1> QED
  BY <1>1, Invariance, PTL

(* The debit transaction says what its payout says.                        *)
THEOREM TransactionAgrees == Spec => []DebitTransactionFollows
<1>1. PayoutsInv => DebitTransactionFollows
  BY DEF PayoutsInv, RowsInv
<1> QED
  BY <1>1, Invariance, PTL

(* A fee is earned only on a payout the provider has completed.            *)
THEOREM FeesDeserved == Spec => []FeeNeedsCompletion
<1>1. PayoutsInv => FeeNeedsCompletion
  BY DEF PayoutsInv, RowsInv
<1> QED
  BY <1>1, Invariance, PTL

(* However many confirm calls race for a quote or share a key, its         *)
(* provider is given the payout at most once, and only once the wallet has *)
(* been debited.                                                           *)
THEOREM GivenOnce == Spec => []SubmittedOnce
<1>1. ASSUME PayoutsInv PROVE SubmittedOnce
  <2>1. ASSUME NEW q \in Quotes
        PROVE  /\ \A i, j \in DOMAIN provider[q] :
                    provider[q][i] = "processing" /\ provider[q][j] = "processing" => i = j
               /\ provider[q] # <<>> => Posted(Source(q, "debit"))
    <3>1. \A i \in DOMAIN provider[q] : provider[q][i] = "processing" => i = 1
      BY <1>1 DEF PayoutsInv, RowsInv, ProcessingFirst
    <3>2. provider[q] # <<>> => Posted(Source(q, "debit"))
      BY <1>1 DEF PayoutsInv, RowsInv, NothingBeforeReserve, RowsMatchLedger
    <3> QED
      BY <3>1, <3>2
  <2> QED
    BY <2>1 DEF SubmittedOnce
<1> QED
  BY <1>1, Invariance, PTL

-----------------------------------------------------------------------------
(* Steps                                                                   *)

(* The steps that write a payout or a balance: the money taken is the      *)
(* amount of a new payout, the money put back that of an existing one.     *)
Taken(q) ==
  /\ ~ Exists(q)
  /\ \E k \in Keys : payout' = [payout EXCEPT ![q] =
       [status |-> "PENDING", key |-> k, hasRef |-> FALSE, reversed |-> FALSE]]
  /\ balance' = [balance EXCEPT ![WalletOf[q]] = @ - TotalDebit[q]]

Submitted(q) ==
  /\ payout[q].status = "PENDING"
  /\ payout' = [payout EXCEPT ![q].status = "PROCESSING", ![q].hasRef = TRUE]
  /\ UNCHANGED balance

Completed(q) ==
  /\ Exists(q)
  /\ payout' = [payout EXCEPT ![q].status = "COMPLETED"]
  /\ UNCHANGED balance

Reason(q) ==
  \/ \E i \in DOMAIN provider[q] : provider[q][i] \in {"failed", "refunded"}
  \/ \E h \in Handlers : handler[h].quote = q /\ handler[h].pc = "reverse"

Returned(q) ==
  /\ Exists(q) /\ ~ payout[q].reversed /\ Reason(q)
  /\ \E status \in {"FAILED", "REFUNDED"} :
       payout' = [payout EXCEPT ![q].status = status, ![q].reversed = TRUE]
  /\ balance' = [balance EXCEPT ![WalletOf[q]] = @ + TotalDebit[q]]

LEMMA PayoutSteps ==
  ASSUME PayoutsInv, [Next]_vars
  PROVE  \/ UNCHANGED <<payout, balance>>
         \/ \E q \in Quotes : Taken(q) \/ Submitted(q) \/ Completed(q) \/ Returned(q)
<1>1. CASE \E q \in Quotes : CreateQuote(q) \/ ExpireQuote(q)
  BY <1>1 DEF CreateQuote, ExpireQuote, bookVars
<1>2. CASE \E q \in Quotes, status \in Outcomes : ProviderMoves(q, status)
  BY <1>2 DEF ProviderMoves, bookVars, dbVars
<1>3. ASSUME NEW h \in Handlers, HandlerStep(h)
      PROVE  \/ UNCHANGED <<payout, balance>>
             \/ \E q \in Quotes : Taken(q) \/ Submitted(q) \/ Returned(q)
  <2>1. CASE Reserve(h)
    <3>1. PICK q \in Quotes, k \in Keys : q = handler[h].quote /\ k = handler[h].key
      BY <2>1 DEF Reserve, PayoutsInv, CallsOwnTheirPayout, CallInv
    <3>2. CASE Insertable(q, k)
      <4>1. Taken(q)
        BY <2>1, <3>1, <3>2 DEF Reserve, Insertable, Taken, Post, Applied
      <4> QED
        BY <4>1
    <3>3. CASE ~ Insertable(q, k)
      BY <2>1, <3>1, <3>3 DEF Reserve, bookVars
    <3> QED
      BY <3>2, <3>3
  <2>2. CASE RecordSubmission(h)
    <3>1. PICK q \in Quotes : q = handler[h].quote /\ payout[q].status = "PENDING"
      BY <2>2 DEF RecordSubmission, PayoutsInv, CallsOwnTheirPayout, CallInv
    <3>2. Submitted(q)
      BY <2>2, <3>1 DEF RecordSubmission, Submitted, bookVars
    <3> QED
      BY <3>2
  <2>3. CASE ReverseSubmission(h)
    <3>1. PICK q \in Quotes : q = handler[h].quote /\ Exists(q)
      BY <2>3 DEF ReverseSubmission, PayoutsInv, CallsOwnTheirPayout, CallInv, Owns
    <3>2. CASE Reversible(q)
      <4>1. Returned(q)
        BY <2>3, <3>1, <3>2 DEF ReverseSubmission, Reversible, ReversePayout,
                                Post, Applied, Returned, Reason
      <4> QED
        BY <4>1
    <3>3. CASE ~ Reversible(q)
      BY <2>3, <3>1, <3>3 DEF ReverseSubmission, bookVars
    <3> QED
      BY <3>2, <3>3
  <2>4. CASE \/ \E q \in Quotes, k \in Keys : StartConfirm(h, q, k)
             \/ ReadQuote(h) \/ ReadWallet(h) \/ ProviderAccepts(h)
             \/ SubmissionFails(h) \/ HandlerCrash(h)
    BY <2>4 DEF StartConfirm, ReadQuote, ReadWallet, ProviderAccepts,
                SubmissionFails, HandlerCrash, bookVars, dbVars
  <2>5. CASE AnnounceProcessing(h) \/ AnnounceReversal(h)
    BY <2>5 DEF AnnounceProcessing, AnnounceReversal, bookVars
  <2> QED
    BY <1>3, <2>1, <2>2, <2>3, <2>4, <2>5 DEF HandlerStep
<1>4. ASSUME NEW s \in Settlers, SettlerStep(s)
      PROVE  \/ UNCHANGED <<payout, balance>>
             \/ \E q \in Quotes : Completed(q) \/ Returned(q)
  <2>1. CASE ApplyCompletion(s)
    <3>1. PICK q \in Quotes : q = settler[s].quote /\ Exists(q)
      BY <2>1 DEF ApplyCompletion, Found, PayoutsInv, ClaimsReported, RowsInv,
                  NothingBeforeReserve
    <3>2. Completed(q) \/ UNCHANGED <<payout, balance>>
      BY <2>1, <3>1 DEF ApplyCompletion, Completed, bookVars
    <3> QED
      BY <3>2
  <2>2. CASE ApplyFailure(s)
    <3>1. PICK q \in Quotes : q = settler[s].quote /\ Exists(q)
      BY <2>2 DEF ApplyFailure, Found, PayoutsInv, ClaimsReported, RowsInv,
                  NothingBeforeReserve
    <3>2. Reason(q)
      <4>1. Reported(q, settler[s].claim)
        BY <2>2, <3>1 DEF ApplyFailure, PayoutsInv, ClaimsReported
      <4>2. settler[s].seen # "unknown" => Reported(q, settler[s].seen)
        BY <3>1 DEF PayoutsInv, ClaimsReported
      <4> QED
        BY <2>2, <4>1, <4>2 DEF ApplyFailure, ShowsFailure, Reported, Reason
    <3>3. CASE Reversible(q)
      <4>1. PICK status \in {"FAILED", "REFUNDED"} : ReversePayout(q, status)
        BY <2>2, <3>1, <3>3 DEF ApplyFailure, FailureStatus
      <4>2. Returned(q)
        BY <3>1, <3>2, <3>3, <4>1 DEF Reversible, ReversePayout, Post, Applied, Returned
      <4> QED
        BY <4>2
    <3>4. CASE ~ Reversible(q)
      BY <2>2, <3>1, <3>4 DEF ApplyFailure, bookVars
    <3> QED
      BY <3>3, <3>4
  <2>3. CASE \/ \E q \in Quotes, status \in Outcomes : AcceptWebhook(s, q, status)
             \/ \E q \in Quotes : StartReconcile(s, q)
             \/ AskProvider(s) \/ QueryProvider(s) \/ SettlementNotFound(s)
             \/ SettlementIgnored(s) \/ SettlerCrash(s)
    BY <2>3 DEF AcceptWebhook, StartReconcile, AskProvider, QueryProvider,
                SettlementNotFound, SettlementIgnored, SettlerCrash, bookVars, dbVars
  <2>4. CASE AnnounceSettlement(s)
    BY <2>4 DEF AnnounceSettlement, bookVars
  <2> QED
    BY <1>4, <2>1, <2>2, <2>3, <2>4 DEF SettlerStep
<1>5. CASE UNCHANGED vars
  BY <1>5 DEF vars, bookVars, dbVars
<1> QED
  BY <1>1, <1>2, <1>3, <1>4, <1>5 DEF Next

(* What these steps do to the rows one by one.                             *)
LEMMA StepRows ==
  ASSUME TypeOK, NEW p \in Quotes
  PROVE  /\ Taken(p) \/ Submitted(p) \/ Completed(p) \/ Returned(p) =>
              \A q \in Quotes \ {p} : payout'[q] = payout[q]
         /\ Taken(p) => payout'[p].status = "PENDING" /\ ~ payout'[p].reversed
         /\ Submitted(p) => /\ payout'[p].status = "PROCESSING"
                            /\ payout'[p].reversed = payout[p].reversed
         /\ Completed(p) => /\ payout'[p].status = "COMPLETED"
                            /\ payout'[p].reversed = payout[p].reversed
         /\ Returned(p) => /\ payout'[p].status \in {"FAILED", "REFUNDED"}
                           /\ payout'[p].reversed
<1>1. payout \in [Quotes -> PayoutRow]
  BY DEF TypeOK
<1>2. ASSUME Taken(p) PROVE /\ \A q \in Quotes \ {p} : payout'[q] = payout[q]
                            /\ payout'[p].status = "PENDING" /\ ~ payout'[p].reversed
  BY <1>1, <1>2 DEF Taken
<1>3. ASSUME Submitted(p) PROVE /\ \A q \in Quotes \ {p} : payout'[q] = payout[q]
                                /\ payout'[p].status = "PROCESSING"
                                /\ payout'[p].reversed = payout[p].reversed
  BY <1>1, <1>3 DEF Submitted, PayoutRow
<1>4. ASSUME Completed(p) PROVE /\ \A q \in Quotes \ {p} : payout'[q] = payout[q]
                                /\ payout'[p].status = "COMPLETED"
                                /\ payout'[p].reversed = payout[p].reversed
  BY <1>1, <1>4 DEF Completed, PayoutRow
<1>5. ASSUME Returned(p) PROVE /\ \A q \in Quotes \ {p} : payout'[q] = payout[q]
                               /\ payout'[p].status \in {"FAILED", "REFUNDED"}
                               /\ payout'[p].reversed
  BY <1>1, <1>5 DEF Returned, PayoutRow
<1> QED
  BY <1>2, <1>3, <1>4, <1>5

(* A settled payout stays settled: the unguarded update of a confirm call  *)
(* never meets a payout someone else has settled.                          *)
THEOREM SettledStays == Spec => NeverUnsettled
<1>1. ASSUME PayoutsInv, [Next]_vars, NEW q \in Quotes, payout[q].status \in Terminal
      PROVE  payout'[q].status \in Terminal
  <2>1. CASE UNCHANGED <<payout, balance>>
    BY <1>1, <2>1
  <2>2. ASSUME NEW p \in Quotes, Taken(p) \/ Submitted(p) \/ Completed(p) \/ Returned(p)
        PROVE  payout'[q].status \in Terminal
    <3>1. Taken(p) \/ Submitted(p) => p # q
      BY <1>1 DEF Taken, Submitted, Exists, Terminal
    <3> QED
      BY <1>1, <2>2, <3>1, StepRows DEF PayoutsInv, Terminal
  <2> QED
    BY <1>1, <2>1, <2>2, PayoutSteps
<1>2. PayoutsInv /\ [Next]_vars =>
        [\A q \in Quotes :
           payout[q].status \in Terminal => payout'[q].status \in Terminal]_vars
  BY <1>1
<1> QED
  BY <1>2, Invariance, PTL DEF Spec, NeverUnsettled

(* Money is put back only after the provider has reported a failure or a   *)
(* refund, or by the confirm call that met an error.                       *)
THEOREM ReturnedForAReason == Spec => ReversedForAReason
<1>1. ASSUME PayoutsInv, [Next]_vars, NEW q \in Quotes,
             payout'[q].reversed, ~ payout[q].reversed
      PROVE  Reason(q)
  <2>1. CASE UNCHANGED <<payout, balance>>
    BY <1>1, <2>1
  <2>2. ASSUME NEW p \in Quotes, Taken(p) \/ Submitted(p) \/ Completed(p) \/ Returned(p)
        PROVE  Reason(q)
    <3>1. p = q /\ Returned(p)
      BY <1>1, <2>2, StepRows DEF PayoutsInv
    <3> QED
      BY <3>1 DEF Returned
  <2> QED
    BY <1>1, <2>1, <2>2, PayoutSteps
<1>2. PayoutsInv /\ [Next]_vars =>
        [\A q \in Quotes :
           payout'[q].reversed /\ ~ payout[q].reversed =>
             \/ \E i \in DOMAIN provider[q] : provider[q][i] \in {"failed", "refunded"}
             \/ \E h \in Handlers : handler[h].quote = q /\ handler[h].pc = "reverse"]_vars
  BY <1>1 DEF Reason
<1> QED
  BY <1>2, Invariance, PTL DEF Spec, ReversedForAReason

(* The payouts implement the escrow: a wallet's balance moves only when a  *)
(* payout takes its amount, once, or puts it back, once.                   *)
THEOREM ImplementsEscrow == Spec => EscrowKept
<1>1. Init => Escrowed!EscrowInit
  BY DEF Init, BookInit, NoPayout, Exists, Escrowed!EscrowInit
<1>2. ASSUME PayoutsInv, [Next]_vars
      PROVE  [Escrowed!EscrowNext]_(Escrowed!escrowVars)
  <2> USE DEF Escrowed!EscrowNext, Escrowed!escrowVars, Escrowed!Take, Escrowed!Return
  <2> USE <1>2 DEF PayoutsInv
  <2>1. CASE UNCHANGED <<payout, balance>>
    BY <2>1 DEF Exists
  <2>2. ASSUME NEW q \in Quotes, Taken(q)
        PROVE  Escrowed!Take(q)
    <3>1. /\ Exists(q)' /\ ~ payout'[q].reversed
          /\ \A p \in Quotes \ {q} : payout'[p] = payout[p]
      BY <2>2, StepRows DEF Taken, Exists
    <3>2. ~ payout[q].reversed
      BY <2>2 DEF Taken, RowsInv, NothingBeforeReserve
    <3>3. /\ {p \in Quotes : Exists(p)}' = {p \in Quotes : Exists(p)} \cup {q}
          /\ {p \in Quotes : payout'[p].reversed} = {p \in Quotes : payout[p].reversed}
      BY <3>1, <3>2 DEF Exists
    <3> QED
      BY <2>2, <3>3 DEF Taken
  <2>3. ASSUME NEW q \in Quotes, Submitted(q) \/ Completed(q)
        PROVE  UNCHANGED Escrowed!escrowVars
    <3>1. /\ Exists(q)' /\ Exists(q)
          /\ payout'[q].reversed = payout[q].reversed
          /\ \A p \in Quotes \ {q} : payout'[p] = payout[p]
      BY <2>3, StepRows DEF Submitted, Completed, Exists
    <3>2. /\ {p \in Quotes : Exists(p)}' = {p \in Quotes : Exists(p)}
          /\ {p \in Quotes : payout'[p].reversed} = {p \in Quotes : payout[p].reversed}
      BY <3>1 DEF Exists
    <3> QED
      BY <2>3, <3>2 DEF Submitted, Completed
  <2>4. ASSUME NEW q \in Quotes, Returned(q)
        PROVE  Escrowed!Return(q)
    <3>1. /\ Exists(q)' /\ Exists(q)
          /\ payout'[q].reversed /\ ~ payout[q].reversed
          /\ \A p \in Quotes \ {q} : payout'[p] = payout[p]
      BY <2>4, StepRows DEF Returned, Exists
    <3>2. /\ {p \in Quotes : Exists(p)}' = {p \in Quotes : Exists(p)}
          /\ {p \in Quotes : payout'[p].reversed} =
               {p \in Quotes : payout[p].reversed} \cup {q}
      BY <3>1 DEF Exists
    <3> QED
      BY <2>4, <3>1, <3>2 DEF Returned
  <2> QED
    BY <2>1, <2>2, <2>3, <2>4, PayoutSteps
<1>3. PayoutsInv /\ [Next]_vars => [Escrowed!EscrowNext]_(Escrowed!escrowVars)
  BY <1>2
<1> QED
  BY <1>1, <1>3, Invariance, PTL DEF Spec, EscrowKept, Escrowed!EscrowSpec

-----------------------------------------------------------------------------
(* Announcements                                                           *)

(* reversedAt is never taken back.                                         *)
LEMMA ReversedStays ==
  ASSUME PayoutsInv, [Next]_vars, NEW q \in Quotes, payout[q].reversed
  PROVE  payout'[q].reversed
<1>1. CASE UNCHANGED <<payout, balance>>
  BY <1>1
<1>2. ASSUME NEW p \in Quotes, Taken(p) \/ Submitted(p) \/ Completed(p) \/ Returned(p)
      PROVE  payout'[q].reversed
  <2>1. Taken(p) => p # q
    BY DEF Taken, PayoutsInv, RowsInv, NothingBeforeReserve
  <2> QED
    BY <1>2, <2>1, StepRows DEF PayoutsInv
<1> QED
  BY <1>1, <1>2, PayoutSteps

(* A step after which nobody new is about to tell of a reversal.           *)
LEMMA ToldFrame ==
  ASSUME PayoutsInv, ToldInv, [Next]_vars,
         \A q \in Quotes : \A h \in Handlers : CallTells(h, q)' => CallTells(h, q),
         \A q \in Quotes : \A s \in Settlers : SettlerTells(s, q)' => SettlerTells(s, q),
         UNCHANGED announced
  PROVE  ToldInv'
<1>1. \A q \in Quotes : ReversalTold(q)' <=> ReversalTold(q)
  BY DEF ReversalTold
<1> QED
  BY <1>1, ReversedStays DEF ToldInv

(* What a step that announces an event adds to the log of one payout.      *)
LEMMA Announced ==
  ASSUME PayoutsInv, NEW q \in Quotes, NEW event \in EventTypes, Announce(q, event)
  PROVE  /\ \A p \in Quotes \ {q} : announced'[p] = announced[p]
         /\ Len(announced[q]) \in Nat /\ DOMAIN announced[q] = 1..Len(announced[q])
         /\ DOMAIN announced'[q] = 1..(Len(announced[q]) + 1)
         /\ \A i \in DOMAIN announced[q] : announced'[q][i] = announced[q][i]
         /\ announced'[q][Len(announced[q]) + 1] = event
BY DEF PayoutsInv, TypeOK, Announce

(* A task that was about to tell of a reversal has told of it.             *)
LEMMA ToldNow ==
  ASSUME PayoutsInv, ToldInv, [Next]_vars, NEW q \in Quotes,
         NEW event \in Reversals, Announce(q, event),
         payout[q].reversed, ~ ReversalTold(q),
         \A h \in Handlers : ~ CallTells(h, q)',
         \A s \in Settlers : ~ SettlerTells(s, q)',
         \A p \in Quotes : \A h \in Handlers : CallTells(h, p)' => CallTells(h, p),
         \A p \in Quotes : \A s \in Settlers : SettlerTells(s, p)' => SettlerTells(s, p)
  PROVE  ToldInv'
<1>1. event \in EventTypes
  BY DEF Reversals, EventTypes
<1>2. /\ \A p \in Quotes \ {q} : announced'[p] = announced[p]
      /\ Len(announced[q]) \in Nat /\ DOMAIN announced[q] = 1..Len(announced[q])
      /\ DOMAIN announced'[q] = 1..(Len(announced[q]) + 1)
      /\ \A i \in DOMAIN announced[q] : announced'[q][i] = announced[q][i]
  BY <1>1, Announced
<1>3. \A i, j \in DOMAIN announced'[q] :
        announced'[q][i] \in Reversals /\ announced'[q][j] \in Reversals => i = j
  BY <1>2 DEF ReversalTold
<1>4. \A p \in Quotes \ {q} : ReversalTold(p)' <=> ReversalTold(p)
  BY <1>2 DEF ReversalTold
<1>5. payout'[q].reversed
  BY ReversedStays
<1> QED
  BY <1>2, <1>3, <1>4, <1>5, ReversedStays DEF ToldInv

(* An event that is no reversal.                                           *)
LEMMA ToldOther ==
  ASSUME PayoutsInv, ToldInv, [Next]_vars, NEW q \in Quotes,
         NEW event \in EventTypes \ Reversals, Announce(q, event),
         \A p \in Quotes : \A h \in Handlers : CallTells(h, p)' => CallTells(h, p),
         \A p \in Quotes : \A s \in Settlers : SettlerTells(s, p)' => SettlerTells(s, p)
  PROVE  ToldInv'
<1>1. /\ \A p \in Quotes \ {q} : announced'[p] = announced[p]
      /\ Len(announced[q]) \in Nat /\ DOMAIN announced[q] = 1..Len(announced[q])
      /\ DOMAIN announced'[q] = 1..(Len(announced[q]) + 1)
      /\ \A i \in DOMAIN announced[q] : announced'[q][i] = announced[q][i]
      /\ announced'[q][Len(announced[q]) + 1] = event
  BY Announced
<1>2. \A i \in DOMAIN announced'[q] : announced'[q][i] \in Reversals =>
        i \in DOMAIN announced[q] /\ announced'[q][i] = announced[q][i]
  BY <1>1
<1>3. \A p \in Quotes : ReversalTold(p)' => ReversalTold(p)
  BY <1>1, <1>2 DEF ReversalTold
<1>4. ASSUME NEW p \in Quotes
      PROVE  \A i, j \in DOMAIN announced'[p] :
               announced'[p][i] \in Reversals /\ announced'[p][j] \in Reversals => i = j
  <2>1. CASE p = q
    BY <1>2, <2>1 DEF ToldInv
  <2>2. CASE p # q
    BY <1>1, <2>2 DEF ToldInv
  <2> QED
    BY <2>1, <2>2
<1> QED
  BY <1>3, <1>4, ReversedStays DEF ToldInv

LEMMA ToldByCalls ==
  ASSUME PayoutsInv, ToldInv, NEW h \in Handlers, HandlerStep(h)
  PROVE  ToldInv'
<1>n. Next
  BY DEF Next
<1>t. handler \in [Handlers -> Call]
  BY DEF PayoutsInv, TypeOK
<1>s. UNCHANGED settler => \A q \in Quotes : \A s \in Settlers :
                             SettlerTells(s, q)' => SettlerTells(s, q)
  BY DEF SettlerTells, ShowsCompletion
<1>i. ASSUME Leave(h)
      PROVE  \A q \in Quotes : /\ ~ CallTells(h, q)'
                               /\ \A g \in Handlers : CallTells(g, q)' => CallTells(g, q)
  BY <1>t, <1>i DEF Leave, Idle, CallTells
<1>g. ASSUME NEW step \in HandlerSteps \ {"announceReversal"}, Goto(h, step)
      PROVE  \A q \in Quotes : \A g \in Handlers : CallTells(g, q)' => CallTells(g, q)
  BY <1>t, <1>g DEF Goto, CallTells, Call
<1>1. CASE \E q \in Quotes, k \in Keys : StartConfirm(h, q, k)
  <2>1. UNCHANGED <<settler, announced>>
    BY <1>1 DEF StartConfirm, dbVars
  <2>2. \A q \in Quotes : \A g \in Handlers : CallTells(g, q)' => CallTells(g, q)
    BY <1>t, <1>1 DEF StartConfirm, CallTells
  <2> QED
    BY <1>n, <1>s, <2>1, <2>2, ToldFrame
<1>2. CASE \/ ReadQuote(h) \/ ReadWallet(h) \/ Reserve(h) \/ ProviderAccepts(h)
           \/ SubmissionFails(h) \/ RecordSubmission(h) \/ HandlerCrash(h)
  <2>1. UNCHANGED <<settler, announced>>
    BY <1>2 DEF ReadQuote, ReadWallet, Reserve, ProviderAccepts,
                SubmissionFails, RecordSubmission, HandlerCrash, dbVars
  <2>2. Leave(h) \/ \E step \in HandlerSteps \ {"announceReversal"} : Goto(h, step)
    BY <1>2 DEF ReadQuote, ReadWallet, Reserve, ProviderAccepts,
                SubmissionFails, RecordSubmission, HandlerCrash, HandlerSteps
  <2> QED
    BY <1>n, <1>s, <1>i, <1>g, <2>1, <2>2, ToldFrame
<1>3. CASE AnnounceProcessing(h)
  <2>1. PICK q \in Quotes : q = handler[h].quote
    BY <1>3 DEF AnnounceProcessing, PayoutsInv, CallsOwnTheirPayout, CallInv
  <2>2. UNCHANGED settler /\ Announce(q, "payout.processing") /\ Leave(h)
    BY <1>3, <2>1 DEF AnnounceProcessing
  <2>3. "payout.processing" \in EventTypes \ Reversals
    BY DEF EventTypes, Reversals
  <2> QED
    BY <1>n, <1>s, <1>i, <2>2, <2>3, ToldOther
<1>4. CASE AnnounceReversal(h)
  <2>1. PICK q \in Quotes : q = handler[h].quote
    BY <1>4 DEF AnnounceReversal, PayoutsInv, CallsOwnTheirPayout, CallInv
  <2>2. UNCHANGED settler /\ Announce(q, "payout.failed") /\ Leave(h) /\ CallTells(h, q)
    BY <1>4, <2>1 DEF AnnounceReversal, CallTells
  <2>3. "payout.failed" \in Reversals
    BY DEF Reversals
  <2>4. /\ payout[q].reversed /\ ~ ReversalTold(q)
        /\ \A s \in Settlers : ~ SettlerTells(s, q)'
    BY <1>s, <2>2 DEF ToldInv
  <2>5. \A g \in Handlers : ~ CallTells(g, q)'
    <3>1. \A g \in Handlers : CallTells(g, q) => g = h
      BY <2>2 DEF PayoutsInv, CallsOwnTheirPayout, CallTells, Owns
    <3> QED
      BY <1>i, <2>2, <3>1
  <2> QED
    BY <1>n, <1>s, <1>i, <2>2, <2>3, <2>4, <2>5, ToldNow
<1>5. CASE ReverseSubmission(h)
  <2>1. PICK q \in Quotes : q = handler[h].quote /\ Exists(q)
    BY <1>5 DEF ReverseSubmission, PayoutsInv, CallsOwnTheirPayout, CallInv, Owns
  <2>2. UNCHANGED <<settler, announced>>
    BY <1>5 DEF ReverseSubmission
  <2>3. CASE ~ Reversible(q)
    BY <1>5, <1>n, <1>s, <1>i, <2>1, <2>2, <2>3, ToldFrame DEF ReverseSubmission
  <2>4. CASE Reversible(q)
    <3>1. /\ ~ payout[q].reversed
          /\ ReversePayout(q, "FAILED")
          /\ handler' = [handler EXCEPT ![h].pc = "announceReversal"]
      BY <1>5, <2>1, <2>4 DEF ReverseSubmission, Reversible, Goto
    <3>2. /\ \A p \in Quotes, g \in Handlers :
               CallTells(g, p)' => CallTells(g, p) \/ p = q
      BY <1>t, <2>1, <3>1 DEF CallTells, Call
    <3>3. payout'[q].reversed
      BY <3>1 DEF ReversePayout, PayoutsInv, TypeOK, PayoutRow
    <3>4. \A p \in Quotes : ReversalTold(p)' <=> ReversalTold(p)
      BY <2>2 DEF ReversalTold
    <3>5. /\ ~ ReversalTold(q)
          /\ \A s \in Settlers : ~ SettlerTells(s, q)'
      BY <1>s, <2>2, <3>1 DEF ToldInv
    <3> QED
      BY <1>n, <1>s, <2>2, <3>2, <3>3, <3>4, <3>5, ReversedStays DEF ToldInv
  <2> QED
    BY <2>3, <2>4
<1> QED
  BY <1>1, <1>2, <1>3, <1>4, <1>5 DEF HandlerStep

LEMMA ToldBySettlers ==
  ASSUME PayoutsInv, ToldInv, NEW s \in Settlers, SettlerStep(s)
  PROVE  ToldInv'
<1>n. Next
  BY DEF Next
<1>t. settler \in [Settlers -> Settlement]
  BY DEF PayoutsInv, TypeOK
<1>h. UNCHANGED handler => \A q \in Quotes : \A h \in Handlers :
                             CallTells(h, q)' => CallTells(h, q)
  BY DEF CallTells
<1>r. ASSUME Rest(s)
      PROVE  \A q \in Quotes :
               /\ ~ SettlerTells(s, q)'
               /\ \A t \in Settlers : SettlerTells(t, q)' => SettlerTells(t, q)
  BY <1>t, <1>r DEF Rest, Resting, SettlerTells, ShowsCompletion
<1>1. CASE \/ \E q \in Quotes, status \in Outcomes : AcceptWebhook(s, q, status)
           \/ \E q \in Quotes : StartReconcile(s, q)
           \/ AskProvider(s) \/ QueryProvider(s) \/ SettlementNotFound(s)
           \/ SettlementIgnored(s) \/ SettlerCrash(s)
  <2>1. UNCHANGED <<handler, announced>>
    BY <1>1 DEF AcceptWebhook, StartReconcile, AskProvider, QueryProvider,
                SettlementNotFound, SettlementIgnored, SettlerCrash, dbVars
  <2>2. CASE Rest(s)
    BY <1>n, <1>h, <1>r, <2>1, <2>2, ToldFrame
  <2>3. CASE ~ Rest(s)
    <3>1. /\ settler'[s].pc # "announce"
          /\ \A t \in Settlers \ {s} : settler'[t] = settler[t]
      <4>1. CASE \E q \in Quotes, status \in Outcomes : AcceptWebhook(s, q, status)
        BY <1>t, <4>1 DEF AcceptWebhook
      <4>2. CASE \E q \in Quotes : StartReconcile(s, q)
        BY <1>t, <4>2 DEF StartReconcile, Settlement
      <4>3. CASE AskProvider(s)
        <5>1. PICK claim : settler' = [settler EXCEPT ![s].pc = "query", ![s].claim = claim]
          BY <2>3, <4>3 DEF AskProvider
        <5> QED
          BY <1>t, <5>1 DEF Settlement
      <4>4. CASE QueryProvider(s)
        <5>1. \/ \E seen : settler' = [settler EXCEPT ![s].pc = "apply", ![s].seen = seen]
              \/ settler' = [settler EXCEPT ![s].pc = "apply"]
          BY <2>3, <4>4 DEF QueryProvider
        <5> QED
          BY <1>t, <5>1 DEF Settlement
      <4> QED
        BY <1>1, <2>3, <4>1, <4>2, <4>3, <4>4
           DEF SettlementNotFound, SettlementIgnored, SettlerCrash
    <3>2. \A q \in Quotes : \A t \in Settlers : SettlerTells(t, q)' => SettlerTells(t, q)
      BY <3>1 DEF SettlerTells, ShowsCompletion
    <3> QED
      BY <1>n, <1>h, <2>1, <3>2, ToldFrame
  <2> QED
    BY <2>2, <2>3
<1>2. CASE ApplyCompletion(s)
  <2>1. UNCHANGED <<handler, announced>> /\ ShowsCompletion(s)
    BY <1>2 DEF ApplyCompletion
  <2>2. CASE Rest(s)
    BY <1>n, <1>h, <1>r, <2>1, <2>2, ToldFrame
  <2>3. CASE ~ Rest(s)
    <3>1. settler' = [settler EXCEPT ![s].pc = "announce"]
      BY <1>2, <2>3 DEF ApplyCompletion
    <3>2. ShowsCompletion(s)' /\ \A t \in Settlers \ {s} : settler'[t] = settler[t]
      BY <1>t, <2>1, <3>1 DEF ShowsCompletion, Settlement
    <3>3. \A q \in Quotes : \A t \in Settlers : SettlerTells(t, q)' => SettlerTells(t, q)
      BY <3>2 DEF SettlerTells, ShowsCompletion
    <3> QED
      BY <1>n, <1>h, <2>1, <3>3, ToldFrame
  <2> QED
    BY <2>2, <2>3
<1>3. CASE ApplyFailure(s)
  <2>1. PICK q \in Quotes : q = settler[s].quote
    BY <1>3 DEF ApplyFailure, PayoutsInv, ClaimsReported
  <2>2. UNCHANGED <<handler, announced>>
    BY <1>3 DEF ApplyFailure
  <2>3. CASE ~ Reversible(q)
    BY <1>3, <1>n, <1>h, <1>r, <2>1, <2>2, <2>3, ToldFrame DEF ApplyFailure
  <2>4. CASE Reversible(q)
    <3>1. /\ ~ payout[q].reversed
          /\ settler' = [settler EXCEPT ![s].pc = "announce"]
      BY <1>3, <2>1, <2>4 DEF ApplyFailure, Reversible
    <3>2. /\ settler'[s].quote = q
          /\ \A t \in Settlers \ {s} : settler'[t] = settler[t]
      BY <1>t, <2>1, <3>1 DEF Settlement
    <3>3. \A p \in Quotes, t \in Settlers :
            SettlerTells(t, p)' => SettlerTells(t, p) \/ (p = q /\ t = s)
      BY <3>2 DEF SettlerTells, ShowsCompletion
    <3>4. payout'[q].reversed
      BY <1>3, <2>1, <2>4 DEF ApplyFailure, ReversePayout, PayoutsInv, TypeOK, PayoutRow
    <3>5. \A p \in Quotes : ReversalTold(p)' <=> ReversalTold(p)
      BY <2>2 DEF ReversalTold
    <3>6. /\ ~ ReversalTold(q)
          /\ \A t \in Settlers : ~ SettlerTells(t, q)
          /\ \A h \in Handlers : ~ CallTells(h, q)'
      BY <1>h, <2>2, <3>1 DEF ToldInv
    <3> QED
      BY <1>n, <1>h, <2>2, <3>3, <3>4, <3>5, <3>6, ReversedStays DEF ToldInv
  <2> QED
    BY <2>3, <2>4
<1>4. CASE AnnounceSettlement(s)
  <2>1. PICK q \in Quotes : q = settler[s].quote
    BY <1>4 DEF AnnounceSettlement, PayoutsInv, ClaimsReported
  <2>2. UNCHANGED handler /\ Rest(s)
    BY <1>4 DEF AnnounceSettlement
  <2>3. CASE ShowsCompletion(s)
    <3>1. Announce(q, "payout.completed")
      BY <1>4, <2>1, <2>3 DEF AnnounceSettlement
    <3>2. "payout.completed" \in EventTypes \ Reversals
      BY DEF EventTypes, Reversals
    <3> QED
      BY <1>n, <1>h, <1>r, <2>2, <3>1, <3>2, ToldOther
  <2>4. CASE ~ ShowsCompletion(s)
    <3>1. PICK event \in Reversals : Announce(q, event)
      BY <1>4, <2>1, <2>4 DEF AnnounceSettlement, Reversals
    <3>2. SettlerTells(s, q)
      BY <1>4, <2>1, <2>4 DEF AnnounceSettlement, SettlerTells
    <3>3. /\ payout[q].reversed /\ ~ ReversalTold(q)
          /\ \A h \in Handlers : ~ CallTells(h, q)'
          /\ \A t \in Settlers : ~ SettlerTells(t, q)'
      BY <1>h, <1>r, <2>2, <3>2 DEF ToldInv
    <3> QED
      BY <1>n, <1>h, <1>r, <2>2, <3>1, <3>3, ToldNow
  <2> QED
    BY <2>3, <2>4
<1> QED
  BY <1>1, <1>2, <1>3, <1>4 DEF SettlerStep

(* SangaPay hears of a payout's reversal at most once, whether a confirm   *)
(* call, a webhook or the reconciliation pass reverses it.                 *)
THEOREM ReversalToldOnce == Spec => []ReversalAnnouncedOnce
<1>1. Init => ToldInv
  BY DEF Init, Idle, Resting, ToldInv, ReversalTold, CallTells, SettlerTells
<1>2. ASSUME PayoutsInv, ToldInv, [Next]_vars
      PROVE  ToldInv'
  <2>1. CASE \/ \E q \in Quotes : CreateQuote(q) \/ ExpireQuote(q)
             \/ \E q \in Quotes, status \in Outcomes : ProviderMoves(q, status)
             \/ UNCHANGED vars
    <3>1. UNCHANGED <<handler, settler, announced>>
      BY <2>1 DEF CreateQuote, ExpireQuote, ProviderMoves, vars, dbVars
    <3>2. /\ \A q \in Quotes : \A h \in Handlers : CallTells(h, q)' => CallTells(h, q)
          /\ \A q \in Quotes : \A s \in Settlers :
               SettlerTells(s, q)' => SettlerTells(s, q)
      BY <3>1 DEF CallTells, SettlerTells, ShowsCompletion
    <3> QED
      BY <1>2, <3>1, <3>2, ToldFrame
  <2> QED
    BY <1>2, <2>1, ToldByCalls, ToldBySettlers DEF Next
<1>3. ASSUME ToldInv PROVE ReversalAnnouncedOnce
  BY <1>3 DEF ToldInv, ReversalAnnouncedOnce, Reversals
<1> QED
  BY <1>1, <1>2, <1>3, Invariance, PTL DEF Spec

-----------------------------------------------------------------------------
(* Overdrafts                                                              *)

(* A step that takes no money and sends no call on to its debit.           *)
LEMMA CoveredFrame ==
  ASSUME PayoutsInv, DebitsCovered, NeverOverdrawn,
         balance' \in [Wallets -> Int],
         \A w \in Wallets : balance'[w] >= balance[w],
         \A h \in Handlers : handler'[h].pc = "reserve" =>
           handler[h].pc = "reserve" /\ handler'[h].quote = handler[h].quote
  PROVE  DebitsCovered' /\ NeverOverdrawn'
<1>1. balance \in [Wallets -> Int]
  BY DEF PayoutsInv, TypeOK
<1>2. \A w \in Wallets : balance'[w] >= 0
  BY <1>1 DEF NeverOverdrawn
<1>3. ASSUME NEW h \in Handlers, handler'[h].pc = "reserve"
      PROVE  balance'[WalletOf[handler'[h].quote]] >= TotalDebit[handler'[h].quote]
  <2>1. PICK q \in Quotes : q = handler[h].quote /\ handler'[h].quote = q
    BY <1>3 DEF PayoutsInv, CallsOwnTheirPayout, CallInv
  <2>2. WalletOf[q] \in Wallets /\ TotalDebit[q] \in Nat
    BY PayoutAssumption
  <2> QED
    BY <1>1, <1>3, <2>1, <2>2 DEF DebitsCovered
<1> QED
  BY <1>2, <1>3 DEF DebitsCovered, NeverOverdrawn

(* The balance a reservation leaves is what was covered less the debit,    *)
(* and nobody else was about to debit this wallet.                         *)
LEMMA ReserveCovered ==
  ASSUME PayoutsInv, ChecksApart, DebitsCovered, NeverOverdrawn,
         NEW h \in Handlers, Reserve(h)
  PROVE  DebitsCovered' /\ NeverOverdrawn'
<1>t. handler \in [Handlers -> Call] /\ balance \in [Wallets -> Int]
  BY DEF PayoutsInv, TypeOK, Call
<1>1. PICK q \in Quotes : q = handler[h].quote /\ handler[h].pc = "reserve"
  BY DEF Reserve, PayoutsInv, CallsOwnTheirPayout, CallInv
<1>2. WalletOf \in [Quotes -> Wallets] /\ TotalDebit \in [Quotes -> Nat]
  BY PayoutAssumption
<1>3. CASE Leave(h) /\ UNCHANGED bookVars
  <2>1. \A g \in Handlers : handler'[g].pc = "reserve" => handler'[g] = handler[g]
    BY <1>t, <1>3 DEF Leave, Idle
  <2>2. UNCHANGED balance
    BY <1>3 DEF bookVars
  <2>3. balance' \in [Wallets -> Int] /\ \A w \in Wallets : balance'[w] >= balance[w]
    BY <1>t, <2>2
  <2> QED
    BY <2>1, <2>3, CoveredFrame
<1>4. CASE /\ Post(WalletOf[q], "DEBIT", TotalDebit[q], Source(q, "debit"))
           /\ Goto(h, "submit")
  <2>1. /\ handler'[h].pc = "submit"
        /\ \A g \in Handlers \ {h} : handler'[g] = handler[g]
    BY <1>t, <1>4 DEF Goto, Call
  <2>2. /\ balance'[WalletOf[q]] = balance[WalletOf[q]] - TotalDebit[q]
        /\ \A w \in Wallets \ {WalletOf[q]} : balance'[w] = balance[w]
    BY <1>t, <1>2, <1>4 DEF Post, Applied
  <2>3. balance[WalletOf[q]] >= TotalDebit[q]
    BY <1>1 DEF DebitsCovered
  <2>4. NeverOverdrawn'
    BY <1>t, <1>2, <2>2, <2>3 DEF NeverOverdrawn
  <2>5. ASSUME NEW g \in Handlers, handler'[g].pc = "reserve"
        PROVE  balance'[WalletOf[handler'[g].quote]] >= TotalDebit[handler'[g].quote]
    <3>1. g # h /\ handler'[g] = handler[g]
      BY <2>1, <2>5
    <3>2. PICK p \in Quotes : p = handler[g].quote
      BY <2>5, <3>1 DEF PayoutsInv, CallsOwnTheirPayout, CallInv
    <3>3. WalletOf[p] # WalletOf[q]
      BY <1>1, <2>5, <3>1, <3>2 DEF ChecksApart
    <3>4. balance'[WalletOf[p]] = balance[WalletOf[p]]
      BY <1>2, <2>2, <3>3
    <3> QED
      BY <2>5, <3>1, <3>2, <3>4 DEF DebitsCovered
  <2> QED
    BY <2>4, <2>5 DEF DebitsCovered
<1> QED
  BY <1>1, <1>3, <1>4 DEF Reserve

(* No other step takes money from a wallet, and only the check of the      *)
(* balance leads to a debit.                                               *)
LEMMA OverdraftStep ==
  ASSUME PayoutsInv, ChecksApart, DebitsCovered, NeverOverdrawn, [Next]_vars
  PROVE  DebitsCovered' /\ NeverOverdrawn'
<1>t. handler \in [Handlers -> Call] /\ balance \in [Wallets -> Int]
  BY DEF PayoutsInv, TypeOK, Call
<1>a. WalletOf \in [Quotes -> Wallets] /\ TotalDebit \in [Quotes -> Nat]
  BY PayoutAssumption
<1>1. ASSUME NEW h \in Handlers, Reserve(h)
      PROVE  DebitsCovered' /\ NeverOverdrawn'
  BY <1>1, ReserveCovered
<1>2. ASSUME NEW h \in Handlers, ReadWallet(h)
      PROVE  DebitsCovered' /\ NeverOverdrawn'
  <2>1. UNCHANGED balance
    BY <1>2 DEF ReadWallet, bookVars
  <2>2. PICK q \in Quotes : q = handler[h].quote
    BY <1>2 DEF ReadWallet, PayoutsInv, CallsOwnTheirPayout, CallInv
  <2>3. /\ \A g \in Handlers \ {h} : handler'[g] = handler[g]
        /\ handler'[h].pc = "reserve" =>
             handler'[h].quote = q /\ balance[WalletOf[q]] >= TotalDebit[q]
    BY <1>2, <1>t, <2>2 DEF ReadWallet, Goto, Leave, Idle, Call
  <2>4. NeverOverdrawn'
    BY <2>1 DEF NeverOverdrawn
  <2>5. DebitsCovered'
    BY <2>1, <2>2, <2>3 DEF DebitsCovered
  <2> QED
    BY <2>4, <2>5
<1>3. ASSUME UNCHANGED balance,
             \A h \in Handlers : handler'[h].pc = "reserve" => handler'[h] = handler[h]
      PROVE  DebitsCovered' /\ NeverOverdrawn'
  <2>1. balance' \in [Wallets -> Int] /\ \A w \in Wallets : balance'[w] >= balance[w]
    BY <1>t, <1>3
  <2> QED
    BY <1>3, <2>1, CoveredFrame
<1>4. ASSUME NEW q \in Quotes,
             \/ UNCHANGED balance
             \/ balance' = [balance EXCEPT ![WalletOf[q]] = @ + TotalDebit[q]],
             \A h \in Handlers : handler'[h].pc = "reserve" => handler'[h] = handler[h]
      PROVE  DebitsCovered' /\ NeverOverdrawn'
  <2>1. balance' \in [Wallets -> Int] /\ \A w \in Wallets : balance'[w] >= balance[w]
    BY <1>t, <1>a, <1>4
  <2> QED
    BY <1>4, <2>1, CoveredFrame
<1>5. ASSUME NEW h \in Handlers, HandlerStep(h), ~ Reserve(h), ~ ReadWallet(h)
      PROVE  DebitsCovered' /\ NeverOverdrawn'
  <2>1. \A g \in Handlers : handler'[g].pc = "reserve" => handler'[g] = handler[g]
    BY <1>5, <1>t
       DEF HandlerStep, StartConfirm, ReadQuote, ProviderAccepts, SubmissionFails,
           RecordSubmission, AnnounceProcessing, ReverseSubmission, AnnounceReversal,
           HandlerCrash, Goto, Leave, Idle, Call
  <2>2. CASE ReverseSubmission(h)
    <3>1. PICK q \in Quotes : q = handler[h].quote
      BY <2>2 DEF ReverseSubmission, PayoutsInv, CallsOwnTheirPayout, CallInv
    <3>2. \/ UNCHANGED balance
          \/ balance' = [balance EXCEPT ![WalletOf[q]] = @ + TotalDebit[q]]
      BY <2>2, <3>1 DEF ReverseSubmission, ReversePayout, Post, Applied, bookVars
    <3> QED
      BY <1>4, <2>1, <3>2
  <2>3. CASE ~ ReverseSubmission(h)
    <3>1. UNCHANGED balance
      BY <1>5, <2>3
         DEF HandlerStep, StartConfirm, ReadQuote, ProviderAccepts, SubmissionFails,
             RecordSubmission, AnnounceProcessing, AnnounceReversal, HandlerCrash, bookVars
    <3> QED
      BY <1>3, <2>1, <3>1
  <2> QED
    BY <2>2, <2>3
<1>6. ASSUME NEW s \in Settlers, SettlerStep(s)
      PROVE  DebitsCovered' /\ NeverOverdrawn'
  <2>1. UNCHANGED handler
    BY <1>6 DEF SettlerStep, AcceptWebhook, StartReconcile, AskProvider, QueryProvider,
                SettlementNotFound, ApplyCompletion, ApplyFailure, SettlementIgnored,
                AnnounceSettlement, SettlerCrash
  <2>2. CASE ApplyFailure(s)
    <3>1. PICK q \in Quotes : q = settler[s].quote
      BY <2>2 DEF ApplyFailure, PayoutsInv, ClaimsReported
    <3>2. \/ UNCHANGED balance
          \/ balance' = [balance EXCEPT ![WalletOf[q]] = @ + TotalDebit[q]]
      BY <2>2, <3>1 DEF ApplyFailure, ReversePayout, Post, Applied, bookVars
    <3> QED
      BY <1>4, <2>1, <3>2
  <2>3. CASE ~ ApplyFailure(s)
    <3>1. UNCHANGED balance
      BY <1>6, <2>3
         DEF SettlerStep, AcceptWebhook, StartReconcile, AskProvider, QueryProvider,
             SettlementNotFound, ApplyCompletion, SettlementIgnored, AnnounceSettlement,
             SettlerCrash, bookVars
    <3> QED
      BY <1>3, <2>1, <3>1
  <2> QED
    BY <2>2, <2>3
<1>7. CASE \/ \E q \in Quotes : CreateQuote(q) \/ ExpireQuote(q)
           \/ \E q \in Quotes, status \in Outcomes : ProviderMoves(q, status)
           \/ UNCHANGED vars
  <2>1. UNCHANGED balance /\ UNCHANGED handler
    BY <1>7 DEF CreateQuote, ExpireQuote, ProviderMoves, vars, bookVars
  <2> QED
    BY <1>3, <2>1
<1> QED
  BY <1>1, <1>2, <1>5, <1>6, <1>7 DEF Next

(* The overdraft of NeverOverdrawn has one cause: two confirm calls that   *)
(* are both between the check of a wallet's balance and its debit.  While  *)
(* there are none, no wallet that opens at zero or above goes below it,    *)
(* whatever settlements, reversals and crashes come in between.            *)
THEOREM OverdraftNeedsRace ==
  ASSUME \A w \in Wallets : Opening[w] >= 0
  PROVE  Spec /\ []ChecksApart => []NeverOverdrawn
<1>1. Init => DebitsCovered /\ NeverOverdrawn
  BY DEF Init, BookInit, DebitsCovered, NeverOverdrawn, Idle
<1>2. PayoutsInv /\ ChecksApart /\ DebitsCovered /\ NeverOverdrawn /\ [Next]_vars
        => DebitsCovered' /\ NeverOverdrawn'
  BY OverdraftStep
<1> QED
  BY <1>1, <1>2, Invariance, PTL DEF Spec

=============================================================================
