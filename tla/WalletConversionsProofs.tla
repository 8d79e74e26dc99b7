---------------------- MODULE WalletConversionsProofs -----------------------
(***************************************************************************)
(* The properties of WalletConversions for any number of wallets, quotes   *)
(* and concurrent calls.                                                   *)
(***************************************************************************)
EXTENDS WalletConversionsInvariant, WalletBookProofs

Call == [pc : Steps, quote : Quotes \cup {None}, key : Keys \cup {None}]

Row == [status : ConversionStatus, key : Keys \cup {None},
        hasRef : BOOLEAN, reversed : BOOLEAN]

Purposes == {"debit", "funding", "reversal"}

(* Only task t moves.                                                      *)
TaskMoves(t) ==
  /\ task' \in [Tasks -> Call]
  /\ \A u \in Tasks \ {t} : task'[u] = task[u]

LEMMA GotoMoves ==
  ASSUME TypeOK, NEW t \in Tasks, NEW step \in Steps, Goto(t, step)
  PROVE  /\ TaskMoves(t)
         /\ task'[t].pc = step
         /\ task'[t].quote = task[t].quote
         /\ task'[t].key = task[t].key
<1>1. task \in [Tasks -> Call]
  BY DEF TypeOK, Call
<1>2. task' = [task EXCEPT ![t].pc = step]
  BY DEF Goto
<1>3. task' \in [Tasks -> Call]
  BY <1>1, <1>2 DEF Call
<1> QED
  BY <1>1, <1>2, <1>3 DEF TaskMoves

LEMMA LeaveMoves ==
  ASSUME TypeOK, NEW t \in Tasks, Leave(t)
  PROVE  TaskMoves(t) /\ task'[t].pc = "idle" /\ TaskInv(t)'
<1>1. task \in [Tasks -> Call]
  BY DEF TypeOK, Call
<1>2. Idle \in Call /\ Idle.pc = "idle"
  BY DEF Idle, Call, Steps
<1>3. task' = [task EXCEPT ![t] = Idle]
  BY DEF Leave
<1>4. TaskMoves(t) /\ task'[t].pc = "idle"
  BY <1>1, <1>2, <1>3 DEF TaskMoves
<1> QED
  BY <1>4 DEF TaskInv, Submitting

LEMMA BeginMoves ==
  ASSUME TypeOK, NEW t \in Tasks, NEW step \in Steps, NEW q \in Quotes,
         Begin(t, step, q)
  PROVE  TaskMoves(t) /\ task'[t].pc = step /\ task'[t].quote = q
<1>1. task \in [Tasks -> Call]
  BY DEF TypeOK, Call
<1>2. task' = [task EXCEPT ![t].pc = step, ![t].quote = q]
  BY DEF Begin
<1>3. task' \in [Tasks -> Call]
  BY <1>1, <1>2 DEF Call
<1>4. task'[t].pc = step /\ task'[t].quote = q
  BY <1>1, <1>2 DEF Call
<1> QED
  BY <1>1, <1>2, <1>3, <1>4 DEF TaskMoves

(* The provider's word on a conversion it has been given.                  *)
LEMMA CurrentReported ==
  ASSUME TypeOK, NEW q \in Quotes, provider[q] # <<>>
  PROVE  Current(q) \in ProviderStatus /\ Reported(q, Current(q))
<1>1. provider[q] \in Seq(ProviderStatus)
  BY DEF TypeOK
<1>2. Len(provider[q]) \in DOMAIN provider[q]
  BY <1>1
<1> QED
  BY <1>1, <1>2 DEF Current, Reported

(* A step that leaves the rows and the provider as they are keeps what the *)
(* invariant says of them.                                                 *)
LEMMA RowsFrame ==
  ASSUME RowsInv, UNCHANGED <<bookVars, leg, conversion, txn, earned, provider>>,
         webhooks' \subseteq webhooks
  PROVE  RowsInv'
<1>1. LedgerExplainsBalance' /\ \A s : Posted(s)' <=> Posted(s)
  BY BookFrame DEF RowsInv
<1>2. RowsMatchLedger'
  BY <1>1 DEF RowsInv, RowsMatchLedger, Exists
<1>3. FundedAfterCompletion'
  BY <1>1 DEF RowsInv, FundedAfterCompletion
<1>4. NothingBeforeReserve' /\ ProcessingFirst' /\ WebhooksReported'
  BY DEF RowsInv, NothingBeforeReserve, ProcessingFirst, WebhooksReported,
         Reported, Exists
<1> QED
  BY <1>1, <1>2, <1>3, <1>4 DEF RowsInv

LEMMA InitInv == Init => ConversionsInv
<1> SUFFICES ASSUME Init PROVE ConversionsInv
  OBVIOUS
<1>3. LedgerExplainsBalance
  <2>1. balance = Opening /\ ledger = [w \in Wallets |-> <<>>]
    BY DEF Init, BookInit
  <2>2. \A w \in Wallets : Len(ledger[w]) = 0
    BY <2>1
  <2>3. \A w \in Wallets : balance[w] = BalanceAt(w, Len(ledger[w]))
    BY <2>1, <2>2 DEF BalanceAt
  <2>4. ASSUME NEW w \in Wallets, NEW i \in 1..Len(ledger[w])
        PROVE  FALSE
    BY <2>2
  <2> QED
    BY <2>3, <2>4 DEF LedgerExplainsBalance
<1> USE ConversionAssumption, WalletAssumption DEF Init, BookInit
<1>1. TypeOK
  BY DEF TypeOK, Idle, NoConversion, Entries, ConversionStatus, ProviderStatus, Steps
<1>2. \A s : ~ Posted(s)
  BY DEF Posted
<1>4. RowsMatchLedger /\ FundedAfterCompletion
  BY <1>2 DEF RowsMatchLedger, FundedAfterCompletion, Exists, NoConversion
<1>5. NothingBeforeReserve /\ ProcessingFirst /\ WebhooksReported
  BY DEF NothingBeforeReserve, ProcessingFirst, WebhooksReported, Exists, NoConversion
<1>6. UnreferencedIsUnsettled
  BY <1>2 DEF UnreferencedIsUnsettled, Idle
<1>7. TasksInv
  BY DEF TasksInv, TaskInv, SubmittedAlone, Submitting, Handles, Idle
<1> QED
  BY <1>1, <1>3, <1>4, <1>5, <1>6, <1>7 DEF ConversionsInv, RowsInv

-----------------------------------------------------------------------------
(* Steps that touch no row                                                 *)

(* A task moves and begins to submit nothing.  What it handles it handled  *)
(* before, or can only be a EUR leg whose reference is recorded; and it    *)
(* settles or asks about no EUR leg without one.                           *)
LEMMA QuietStep ==
  ASSUME ConversionsInv,
         UNCHANGED <<bookVars, leg, conversion, txn, earned, provider>>,
         webhooks' \subseteq webhooks,
         quote' \in [Quotes -> {"open", "expired", "confirmed"}],
         announced' \in [Quotes -> Seq(EventTypes)],
         NEW t \in Tasks, TaskMoves(t), TaskInv(t)', ~ Submitting(t)',
         Handles(t)' =>
           \/ Handles(t) /\ task'[t].quote = task[t].quote
           \/ leg[task'[t].quote] = "EUR" /\ conversion[task'[t].quote].hasRef,
         /\ task'[t].pc \in {"settle", "settleWrite", "ask"}
         /\ leg[task'[t].quote] = "EUR"
         => conversion[task'[t].quote].hasRef
  PROVE  ConversionsInv'
<1>1. TypeOK'
  BY DEF ConversionsInv, TypeOK, TaskMoves, Call, bookVars
<1>2. RowsInv'
  BY RowsFrame DEF ConversionsInv
<1>3. \A u \in Tasks \ {t} : task'[u] = task[u]
  BY DEF TaskMoves
<1>4. UnreferencedIsUnsettled'
  <2>1. \A s : Posted(s)' <=> Posted(s)
    BY BookFrame
  <2> QED
    BY <1>3, <2>1 DEF ConversionsInv, UnreferencedIsUnsettled
<1>5. ASSUME NEW u \in Tasks
      PROVE  TaskInv(u)'
  <2>1. CASE u = t
    BY <2>1
  <2>2. CASE u # t
    <3>1. TaskInv(u) /\ task'[u] = task[u]
      BY <1>3, <2>2 DEF ConversionsInv, TasksInv
    <3> QED
      BY <3>1 DEF TaskInv, Submitting, Exists, Reported
  <2> QED
    BY <2>1, <2>2
<1>6. SubmittedAlone'
  <2>1. \A s \in Tasks : Submitting(s)' => s # t /\ Submitting(s)
    BY <1>3 DEF Submitting
  <2>2. \A s \in Tasks : Submitting(s) /\ leg[task[s].quote] = "EUR" =>
          ~ conversion[task[s].quote].hasRef
    BY DEF ConversionsInv, TasksInv, TaskInv
  <2>3. ASSUME NEW s \in Tasks, NEW u \in Tasks, Submitting(s)', Handles(u)',
               task'[s].quote = task'[u].quote
        PROVE  s = u
    <3>1. s # t /\ Submitting(s) /\ task'[s] = task[s]
      BY <1>3, <2>1, <2>3
    <3>2. CASE u # t
      BY <1>3, <2>3, <3>1, <3>2 DEF ConversionsInv, TasksInv, SubmittedAlone, Handles
    <3>3. CASE u = t
      BY <2>2, <2>3, <3>1, <3>3 DEF ConversionsInv, TasksInv, SubmittedAlone
    <3> QED
      BY <3>2, <3>3
  <2> QED
    BY <2>3 DEF SubmittedAlone
<1> QED
  BY <1>1, <1>2, <1>4, <1>5, <1>6 DEF ConversionsInv, TasksInv

(* A task that ends, or a webhook nobody serves.                           *)
LEMMA EndStep ==
  ASSUME ConversionsInv, NEW t \in Tasks, Leave(t),
         UNCHANGED <<bookVars, leg, conversion, txn, earned, provider>>,
         webhooks' \subseteq webhooks,
         quote' \in [Quotes -> {"open", "expired", "confirmed"}],
         announced' \in [Quotes -> Seq(EventTypes)]
  PROVE  ConversionsInv'
<1>1. TaskMoves(t) /\ task'[t].pc = "idle" /\ TaskInv(t)'
  BY LeaveMoves DEF ConversionsInv
<1>2. ~ Submitting(t)' /\ ~ Handles(t)'
  BY <1>1 DEF Submitting, Handles
<1> QED
  BY <1>1, <1>2, QuietStep

LEMMA IdleSteps ==
  ASSUME ConversionsInv,
         \/ \E q \in Quotes : ExpireQuote(q)
         \/ \E t \in Tasks, q \in Quotes, status \in Outcomes :
              WebhookNotFound(t, q, status)
         \/ UNCHANGED vars
  PROVE  ConversionsInv'
<1>1. /\ UNCHANGED <<bookVars, leg, conversion, txn, earned, announced, provider, task>>
      /\ webhooks' \subseteq webhooks
      /\ quote' \in [Quotes -> {"open", "expired", "confirmed"}]
  BY DEF ExpireQuote, WebhookNotFound, vars, dbVars, externalVars, ConversionsInv, TypeOK
<1>2. TypeOK'
  BY <1>1 DEF ConversionsInv, TypeOK, bookVars
<1>3. RowsInv'
  BY <1>1, RowsFrame DEF ConversionsInv
<1>4. UnreferencedIsUnsettled'
  BY <1>1, BookFrame DEF ConversionsInv, UnreferencedIsUnsettled
<1>5. TasksInv'
  BY <1>1 DEF ConversionsInv, TasksInv, TaskInv, SubmittedAlone, Submitting, Handles,
              Exists, Reported
<1> QED
  BY <1>2, <1>3, <1>4, <1>5 DEF ConversionsInv

(* Steps of a confirm call before its transaction, its errors, and what a  *)
(* settlement or a reversal reads.                                         *)
LEMMA CallSteps ==
  ASSUME ConversionsInv, NEW t \in Tasks,
         \/ \E q \in Quotes, k \in Keys : StartConfirm(t, q, k)
         \/ ReadQuote(t) \/ ReadWallet(t) \/ SubmissionFails(t)
         \/ AnswerCompleted(t) \/ ReadForSettle(t) \/ ReadForReverse(t)
         \/ Crash(t)
  PROVE  ConversionsInv'
<1>t. /\ TypeOK /\ TaskInv(t) /\ task \in [Tasks -> Call]
      /\ quote \in [Quotes -> {"open", "expired", "confirmed"}]
      /\ announced \in [Quotes -> Seq(EventTypes)]
  BY DEF ConversionsInv, TasksInv, TypeOK, Call
<1>u. UNCHANGED <<bookVars, quote, leg, conversion, txn, earned, announced,
                  provider, webhooks>>
  BY DEF StartConfirm, ReadQuote, ReadWallet, SubmissionFails, AnswerCompleted,
         ReadForSettle, ReadForReverse, Crash, dbVars, externalVars
<1>1. CASE Leave(t)
  BY <1>1, <1>t, <1>u, EndStep
<1>2. CASE \E q \in Quotes, k \in Keys : StartConfirm(t, q, k)
  <2>1. PICK q \in Quotes, k \in Keys : StartConfirm(t, q, k)
    BY <1>2
  <2> DEFINE new == [pc |-> "readQuote", quote |-> q, key |-> k]
  <2>2. new \in Call /\ new.pc = "readQuote" /\ new.quote = q /\ new.key = k
    BY DEF Call, Steps
  <2>3. task' = [task EXCEPT ![t] = new]
    BY <2>1 DEF StartConfirm
  <2> HIDE DEF new
  <2>4. /\ TaskMoves(t) /\ task'[t].pc = "readQuote"
        /\ task'[t].quote = q /\ task'[t].key = k
    BY <2>2, <2>3, <1>t DEF TaskMoves
  <2>5. TaskInv(t)' /\ ~ Submitting(t)' /\ ~ Handles(t)'
    BY <2>4 DEF TaskInv, Submitting, Handles
  <2> QED
    BY <2>4, <2>5, <1>t, <1>u, QuietStep
<1>3. ASSUME NEW step \in {"readWallet", "reserve"}, Goto(t, step),
             task[t].pc \in {"readQuote", "readWallet"}
      PROVE  ConversionsInv'
  <2>1. /\ TaskMoves(t) /\ task'[t].pc = step
        /\ task'[t].quote = task[t].quote /\ task'[t].key = task[t].key
    BY <1>3, <1>t, GotoMoves DEF Steps
  <2>2. TaskInv(t)' /\ ~ Submitting(t)' /\ ~ Handles(t)'
    BY <1>3, <2>1, <1>t DEF TaskInv, Submitting, Handles
  <2> QED
    BY <2>1, <2>2, <1>t, <1>u, QuietStep
<1>4. ASSUME NEW step \in {"reverse", "reverseWrite"}, Goto(t, step),
             task[t].pc \in {"submit", "answer", "dispatch", "reverse"}
      PROVE  ConversionsInv'
  <2>1. /\ TaskMoves(t) /\ task'[t].pc = step
        /\ task'[t].quote = task[t].quote /\ task'[t].key = task[t].key
    BY <1>4, <1>t, GotoMoves DEF Steps
  <2>2. TaskInv(t)' /\ ~ Submitting(t)' /\ Handles(t)
    BY <1>4, <2>1, <1>t, <1>u DEF TaskInv, Submitting, Handles, Exists
  <2> QED
    BY <1>4, <2>1, <2>2, <1>t, <1>u, QuietStep
<1>5. CASE AnswerCompleted(t)
  <2>1. PICK q \in Quotes : /\ q = task[t].quote /\ provider[q] # <<>>
                            /\ leg[q] = "USDC" /\ Current(q) = "completed"
                            /\ Goto(t, "settle") /\ Exists(q)
    BY <1>5, <1>t DEF AnswerCompleted, TaskInv
  <2>2. Reported(q, "completed")
    BY <2>1, <1>t, CurrentReported
  <2>3. /\ TaskMoves(t) /\ task'[t].pc = "settle" /\ task'[t].quote = q
    BY <2>1, <1>t, GotoMoves DEF Steps
  <2>4. TaskInv(t)' /\ ~ Submitting(t)' /\ ~ Handles(t)'
    BY <2>1, <2>2, <2>3, <1>u DEF TaskInv, Submitting, Handles, Reported, Exists
  <2> QED
    BY <2>1, <2>3, <2>4, <1>t, <1>u, QuietStep
<1>6. CASE task[t].pc = "settle" /\ Goto(t, "settleWrite")
  <2>1. /\ TaskMoves(t) /\ task'[t].pc = "settleWrite"
        /\ task'[t].quote = task[t].quote
    BY <1>6, <1>t, GotoMoves DEF Steps
  <2>2. TaskInv(t)' /\ ~ Submitting(t)' /\ ~ Handles(t)'
    BY <1>6, <2>1, <1>t, <1>u DEF TaskInv, Submitting, Handles, Reported, Exists
  <2>3. leg[task[t].quote] = "EUR" => conversion[task[t].quote].hasRef
    BY <1>6, <1>t DEF ConversionsInv, UnreferencedIsUnsettled, TaskInv
  <2> QED
    BY <2>1, <2>2, <2>3, <1>t, <1>u, QuietStep
<1> QED
  BY <1>1, <1>2, <1>3, <1>4, <1>5, <1>6
     DEF ReadQuote, ReadWallet, SubmissionFails, ReadForSettle, ReadForReverse, Crash

(* A task of a webhook or of the reconciliation pass begins, and the pass  *)
(* asks.                                                                   *)
LEMMA SettlingSteps ==
  ASSUME ConversionsInv, NEW t \in Tasks,
         \/ \E q \in Quotes, status \in Outcomes : AcceptWebhook(t, q, status)
         \/ \E q \in Quotes : StartReconcile(t, q)
         \/ AskProvider(t)
  PROVE  ConversionsInv'
<1>t. /\ TypeOK /\ TaskInv(t) /\ RowsInv
      /\ quote \in [Quotes -> {"open", "expired", "confirmed"}]
      /\ announced \in [Quotes -> Seq(EventTypes)]
      /\ leg \in [Quotes -> {"EUR", "USDC"}]
  BY DEF ConversionsInv, TasksInv, TypeOK
<1>u. /\ UNCHANGED <<bookVars, quote, leg, conversion, txn, earned, announced, provider>>
      /\ webhooks' \subseteq webhooks
  BY DEF AcceptWebhook, StartReconcile, AskProvider, dbVars, externalVars
<1>1. CASE Leave(t)
  BY <1>1, <1>t, <1>u, EndStep
<1>2. ASSUME NEW q \in Quotes, NEW step \in {"settle", "reverse", "ask"},
             TaskMoves(t), task'[t].pc = step, task'[t].quote = q,
             Exists(q), leg[q] = "EUR" => conversion[q].hasRef,
             step = "settle" => Reported(q, "completed"),
             step # "settle" => leg[q] = "EUR" /\ provider[q] # <<>>
      PROVE  ConversionsInv'
  <2>1. TaskInv(t)' /\ ~ Submitting(t)'
    BY <1>2, <1>u DEF TaskInv, Submitting, Reported, Exists
  <2>2. Handles(t)' => leg[q] = "EUR" /\ conversion[q].hasRef
    BY <1>2 DEF Handles
  <2> QED
    BY <1>2, <2>1, <2>2, <1>t, <1>u, QuietStep
<1>3. ASSUME NEW q \in Quotes, NEW status \in Outcomes, AcceptWebhook(t, q, status)
      PROVE  ConversionsInv'
  <2>1. /\ Findable(q) /\ <<q, status>> \in webhooks
        /\ Begin(t, HandlerOf(status), q)
    BY <1>3 DEF AcceptWebhook
  <2>2. /\ Exists(q)
        /\ leg[q] = "EUR" => conversion[q].hasRef
        /\ provider[q] # <<>>
        /\ status = "completed" => Reported(q, "completed")
        /\ status = "failed" => leg[q] = "EUR"
    BY <2>1, <1>t DEF Findable, RowsInv, NothingBeforeReserve, WebhooksReported
  <2>3. PICK step \in {"settle", "reverse"} :
          /\ step = HandlerOf(status)
          /\ step = "settle" <=> status = "completed"
    BY DEF HandlerOf
  <2>4. TaskMoves(t) /\ task'[t].pc = step /\ task'[t].quote = q
    BY <2>1, <2>3, <1>t, BeginMoves DEF Steps
  <2> QED
    BY <1>2, <2>2, <2>3, <2>4 DEF Outcomes
<1>4. ASSUME NEW q \in Quotes, StartReconcile(t, q)
      PROVE  ConversionsInv'
  <2>1. /\ Begin(t, "ask", q) /\ leg[q] = "EUR"
        /\ conversion[q].hasRef /\ Exists(q)
    BY <1>4 DEF StartReconcile, Exists
  <2>2. TaskMoves(t) /\ task'[t].pc = "ask" /\ task'[t].quote = q
    BY <2>1, <1>t, BeginMoves DEF Steps
  <2>3. provider[q] # <<>>
    BY <2>1, <1>t DEF RowsInv, NothingBeforeReserve
  <2> QED
    BY <1>2, <2>1, <2>2, <2>3
<1>5. CASE AskProvider(t)
  <2>1. PICK q \in Quotes : /\ q = task[t].quote /\ provider[q] # <<>>
                            /\ leg[q] = "EUR" /\ Exists(q)
                            /\ task[t].pc = "ask"
    BY <1>5, <1>t DEF AskProvider, TaskInv
  <2>2. CASE Leave(t)
    BY <1>1, <2>2
  <2>3. CASE Current(q) \in Outcomes /\ Goto(t, HandlerOf(Current(q)))
    <3>1. PICK step \in {"settle", "reverse"} :
            /\ step = HandlerOf(Current(q))
            /\ step = "settle" <=> Current(q) = "completed"
      BY DEF HandlerOf
    <3>2. TaskMoves(t) /\ task'[t].pc = step /\ task'[t].quote = q
      BY <2>1, <2>3, <3>1, <1>t, GotoMoves DEF Steps
    <3>3. conversion[q].hasRef
      BY <2>1 DEF ConversionsInv, UnreferencedIsUnsettled
    <3>4. step = "settle" => Reported(q, "completed")
      BY <2>1, <3>1, <1>t, CurrentReported
    <3> QED
      BY <1>2, <2>1, <3>1, <3>2, <3>3, <3>4
  <2> QED
    BY <1>5, <2>1, <2>2, <2>3 DEF AskProvider
<1> QED
  BY <1>3, <1>4, <1>5

(* SangaPay is told.                                                       *)
LEMMA AnnouncingSteps ==
  ASSUME ConversionsInv, NEW t \in Tasks,
         DispatchProcessing(t) \/ AnnounceCompleted(t) \/ AnnounceFailed(t)
  PROVE  ConversionsInv'
<1>1. PICK q \in Quotes : q = task[t].quote
  BY DEF DispatchProcessing, AnnounceCompleted, AnnounceFailed,
         ConversionsInv, TasksInv, TaskInv
<1>2. PICK event \in EventTypes : Announce(q, event) /\ Leave(t)
  BY <1>1 DEF DispatchProcessing, AnnounceCompleted, AnnounceFailed, EventTypes
<1>3. announced' \in [Quotes -> Seq(EventTypes)]
  BY <1>2 DEF Announce, ConversionsInv, TypeOK
<1>4. /\ UNCHANGED <<bookVars, leg, conversion, txn, earned, provider>>
      /\ webhooks' \subseteq webhooks
      /\ quote' \in [Quotes -> {"open", "expired", "confirmed"}]
  BY DEF DispatchProcessing, AnnounceCompleted, AnnounceFailed, externalVars,
         ConversionsInv, TypeOK
<1> QED
  BY <1>2, <1>3, <1>4, EndStep

-----------------------------------------------------------------------------
(* Steps of the provider and of the rows                                   *)

(* What the provider has once reported stays reported.                     *)
HistoryKept ==
  \A q \in Quotes :
    /\ provider[q] # <<>> => provider'[q] # <<>>
    /\ \A status : Reported(q, status) => Reported(q, status)'

(* A row is never removed, and a reference never forgotten.                *)
RowsKept ==
  \A q \in Quotes :
    /\ Exists(q) => Exists(q)'
    /\ conversion[q].hasRef => conversion'[q].hasRef

(* The other calls keep what they know if the step of t leaves them the    *)
(* conversion they submit.                                                 *)
LEMMA TasksKeep ==
  ASSUME TypeOK, TasksInv, UNCHANGED leg, HistoryKept, RowsKept,
         NEW t \in Tasks, TaskMoves(t), TaskInv(t)',
         \A u \in Tasks \ {t} :
           /\ task[u].pc = "submit" => provider'[task[u].quote] = provider[task[u].quote]
           /\ Submitting(u) =>
                /\ ~ conversion'[task[u].quote].reversed
                /\ leg[task[u].quote] = "EUR" => ~ conversion'[task[u].quote].hasRef
           /\ task[u].quote = task'[t].quote =>
                /\ ~ (Submitting(t)' /\ Handles(u))
                /\ ~ (Submitting(u) /\ Handles(t)')
  PROVE  TasksInv'
<1>1. \A u \in Tasks \ {t} : task'[u] = task[u] /\ TaskInv(u)
  BY DEF TaskMoves, TasksInv
<1>2. ASSUME NEW u \in Tasks
      PROVE  TaskInv(u)'
  <2>1. CASE u = t
    BY <2>1
  <2>2. CASE u # t
    BY <1>1, <2>2 DEF TaskInv, Submitting, HistoryKept, RowsKept
  <2> QED
    BY <2>1, <2>2
<1>3. ASSUME NEW s \in Tasks, NEW u \in Tasks, Submitting(s)', Handles(u)',
             task'[s].quote = task'[u].quote
      PROVE  s = u
  <2>1. CASE s # t /\ u # t
    BY <1>1, <1>3, <2>1 DEF TasksInv, SubmittedAlone, Submitting, Handles
  <2>2. CASE s = t /\ u # t
    BY <1>1, <1>3, <2>2 DEF Handles
  <2>3. CASE s # t /\ u = t
    BY <1>1, <1>3, <2>3 DEF Submitting
  <2> QED
    BY <2>1, <2>2, <2>3
<1> QED
  BY <1>2, <1>3 DEF TasksInv, SubmittedAlone

LEMMA UnsettledKeeps ==
  ASSUME UnreferencedIsUnsettled, UNCHANGED leg, RowsKept,
         NEW t \in Tasks, TaskMoves(t),
         task'[t].pc \notin {"settle", "settleWrite", "ask"},
         \A q \in Quotes : leg[q] = "EUR" /\ ~ conversion'[q].hasRef =>
           (Posted(Source(q, "funding"))' => Posted(Source(q, "funding")))
  PROVE  UnreferencedIsUnsettled'
BY DEF UnreferencedIsUnsettled, RowsKept, TaskMoves

(* The provider's history of one conversion gets longer.                   *)
LEMMA HistoryGrows ==
  ASSUME TypeOK, NEW q \in Quotes, NEW status \in ProviderStatus,
         provider' = [provider EXCEPT ![q] = Append(@, status)]
  PROVE  /\ provider' \in [Quotes -> Seq(ProviderStatus)]
         /\ HistoryKept
         /\ \A p \in Quotes \ {q} : provider'[p] = provider[p]
         /\ provider'[q] # <<>> /\ Reported(q, status)'
         /\ (provider[q] = <<>> \/ status # "processing") /\ ProcessingFirst
              => ProcessingFirst'
<1>1. /\ provider \in [Quotes -> Seq(ProviderStatus)]
      /\ provider' \in [Quotes -> Seq(ProviderStatus)]
  BY DEF TypeOK
<1>2. /\ \A p \in Quotes \ {q} : provider'[p] = provider[p]
      /\ Len(provider[q]) \in Nat
      /\ DOMAIN provider[q] = 1..Len(provider[q])
      /\ DOMAIN provider'[q] = 1..(Len(provider[q]) + 1)
      /\ provider'[q][Len(provider[q]) + 1] = status
      /\ \A i \in DOMAIN provider[q] : provider'[q][i] = provider[q][i]
      /\ provider'[q] # <<>>
      /\ provider[q] = <<>> => Len(provider[q]) = 0
  BY <1>1
<1>3. Reported(q, status)'
  <2>1. Len(provider[q]) + 1 \in DOMAIN provider'[q]
    BY <1>2
  <2> QED
    BY <1>2, <2>1 DEF Reported
<1>4. HistoryKept
  BY <1>2 DEF HistoryKept, Reported
<1>5. ASSUME ProcessingFirst, provider[q] = <<>> \/ status # "processing"
      PROVE  ProcessingFirst'
  <2>1. ASSUME NEW i \in DOMAIN provider'[q], provider'[q][i] = "processing"
        PROVE  i = 1
    BY <1>2, <1>5, <2>1 DEF ProcessingFirst
  <2> QED
    BY <1>2, <1>5, <2>1 DEF ProcessingFirst
<1> QED
  BY <1>1, <1>2, <1>3, <1>4, <1>5

(* The provider's history is not what the rows are compared with, but for  *)
(* the completion behind a credit.                                         *)
LEMMA HistoryFrame ==
  ASSUME RowsInv, UNCHANGED <<bookVars, leg, conversion, txn, earned>>, HistoryKept,
         \A q \in Quotes : ~ Exists(q) => provider'[q] = provider[q],
         ProcessingFirst', WebhooksReported'
  PROVE  RowsInv'
<1>1. LedgerExplainsBalance' /\ \A s : Posted(s)' <=> Posted(s)
  BY BookFrame DEF RowsInv
<1>2. RowsMatchLedger'
  BY <1>1 DEF RowsInv, RowsMatchLedger, Exists
<1>3. FundedAfterCompletion'
  BY <1>1 DEF RowsInv, FundedAfterCompletion, HistoryKept, Reported
<1>4. NothingBeforeReserve'
  BY DEF RowsInv, NothingBeforeReserve, HistoryKept, Exists
<1> QED
  BY <1>1, <1>2, <1>3, <1>4 DEF RowsInv

(* The provider is given a conversion that exists, by the one call that    *)
(* submits it, and had not been given it before.                           *)
LEMMA ProviderAcceptsKeepsInv ==
  ASSUME ConversionsInv, NEW t \in Tasks, ProviderAccepts(t)
  PROVE  ConversionsInv'
<1>t. TypeOK /\ RowsInv /\ TasksInv /\ TaskInv(t) /\ UnreferencedIsUnsettled
  BY DEF ConversionsInv, TasksInv
<1>1. PICK q \in Quotes : /\ q = task[t].quote /\ Exists(q) /\ provider[q] = <<>>
                          /\ task[t].pc = "submit"
  BY <1>t DEF ProviderAccepts, TaskInv
<1>2. /\ UNCHANGED <<bookVars, dbVars, webhooks>>
      /\ provider' = [provider EXCEPT ![q] = Append(@, "processing")]
      /\ Goto(t, "answer")
  BY <1>1 DEF ProviderAccepts
<1>3. /\ provider' \in [Quotes -> Seq(ProviderStatus)]
      /\ HistoryKept /\ ProcessingFirst'
      /\ \A p \in Quotes \ {q} : provider'[p] = provider[p]
      /\ provider'[q] # <<>>
  <2>1. "processing" \in ProviderStatus
    BY DEF ProviderStatus
  <2> QED
    BY <1>t, <1>1, <1>2, <2>1, HistoryGrows DEF RowsInv
<1>4. /\ TaskMoves(t) /\ task'[t].pc = "answer"
      /\ task'[t].quote = q /\ task'[t].key = task[t].key
  BY <1>t, <1>1, <1>2, GotoMoves DEF Steps
<1>5. TypeOK'
  BY <1>t, <1>2, <1>3, <1>4 DEF TypeOK, TaskMoves, Call, bookVars, dbVars
<1>6. RowsInv'
  <2>1. WebhooksReported'
    BY <1>t, <1>2, <1>3 DEF RowsInv, WebhooksReported, HistoryKept, dbVars
  <2> QED
    BY <1>t, <1>1, <1>2, <1>3, <2>1, HistoryFrame DEF dbVars
<1>7. RowsKept
  BY <1>2 DEF RowsKept, Exists, dbVars
<1>8. UnreferencedIsUnsettled'
  BY <1>t, <1>2, <1>4, <1>7, UnsettledKeeps, BookFrame DEF dbVars
<1>9. TasksInv'
  <2>1. TaskInv(t)'
    BY <1>t, <1>1, <1>2, <1>3, <1>4 DEF TaskInv, Submitting, Exists, dbVars
  <2>2. Submitting(t) /\ Handles(t)
    BY <1>1 DEF Submitting, Handles
  <2>3. \A u \in Tasks \ {t} :
          /\ Submitting(u) \/ Handles(u) => task[u].quote # q
          /\ task[u].pc = "submit" => Submitting(u) /\ task[u].quote \in Quotes
          /\ Submitting(u) =>
               /\ ~ conversion'[task[u].quote].reversed
               /\ leg[task[u].quote] = "EUR" => ~ conversion'[task[u].quote].hasRef
    <3>1. \A u \in Tasks : Submitting(u) => Handles(u)
      BY DEF Submitting, Handles
    <3> QED
      BY <1>t, <1>1, <1>2, <2>2, <3>1
         DEF TasksInv, TaskInv, SubmittedAlone, Submitting, dbVars
  <2> QED
    BY <1>t, <1>2, <1>3, <1>4, <1>7, <2>1, <2>3, TasksKeep DEF dbVars
<1> QED
  BY <1>5, <1>6, <1>8, <1>9 DEF ConversionsInv

LEMMA ProviderMovesKeepsInv ==
  ASSUME ConversionsInv, NEW q \in Quotes, NEW status \in Outcomes,
         ProviderMoves(q, status)
  PROVE  ConversionsInv'
<1>t. TypeOK /\ RowsInv /\ TasksInv /\ UnreferencedIsUnsettled
  BY DEF ConversionsInv
<1>1. /\ UNCHANGED <<bookVars, dbVars, task>>
      /\ provider' = [provider EXCEPT ![q] = Append(@, status)]
      /\ provider[q] # <<>>
      /\ webhooks' = IF leg[q] = "USDC" /\ status = "failed"
                       THEN webhooks ELSE webhooks \cup {<<q, status>>}
  BY <1>t DEF ProviderMoves, TypeOK
<1>2. /\ provider' \in [Quotes -> Seq(ProviderStatus)]
      /\ HistoryKept /\ ProcessingFirst'
      /\ \A p \in Quotes \ {q} : provider'[p] = provider[p]
      /\ provider'[q] # <<>> /\ Reported(q, status)'
  <2>1. status \in ProviderStatus /\ status # "processing"
    BY DEF ProviderStatus, Outcomes
  <2> QED
    BY <1>t, <1>1, <2>1, HistoryGrows DEF RowsInv
<1>3. TypeOK'
  BY <1>t, <1>1, <1>2 DEF TypeOK, bookVars, dbVars
<1>4. RowsInv'
  <2>1. Exists(q)
    BY <1>t, <1>1 DEF RowsInv, NothingBeforeReserve
  <2>2. WebhooksReported'
    <3>1. leg \in [Quotes -> {"EUR", "USDC"}] /\ UNCHANGED leg
      BY <1>t, <1>1 DEF TypeOK, dbVars
    <3>2. \A p \in Quotes, other \in Outcomes :
            <<p, other>> \in webhooks' =>
              \/ <<p, other>> \in webhooks
              \/ p = q /\ other = status /\ (status = "failed" => leg[q] = "EUR")
      BY <1>1, <3>1
    <3> QED
      BY <1>t, <1>2, <3>1, <3>2 DEF RowsInv, WebhooksReported, HistoryKept, Outcomes
  <2> QED
    BY <1>t, <1>1, <1>2, <2>1, <2>2, HistoryFrame DEF dbVars
<1>5. UnreferencedIsUnsettled'
  BY <1>t, <1>1, BookFrame DEF UnreferencedIsUnsettled, dbVars
<1>6. TasksInv'
  <2>1. ASSUME NEW t \in Tasks
        PROVE  TaskInv(t)'
    <3>1. TaskInv(t)
      BY <1>t DEF TasksInv
    <3> QED
      BY <1>1, <1>2, <3>1 DEF TaskInv, Submitting, HistoryKept, Exists, dbVars
  <2> QED
    BY <1>t, <1>1, <2>1 DEF TasksInv, SubmittedAlone, Submitting, Handles
<1> QED
  BY <1>3, <1>4, <1>5, <1>6 DEF ConversionsInv

-----------------------------------------------------------------------------
(* Steps that write the rows                                               *)

(* What a posting for a conversion does to the book.                       *)
LEMMA PostsFor ==
  ASSUME TypeOK, LedgerExplainsBalance, NEW q \in Quotes, NEW purpose \in Purposes,
         NEW w \in Wallets, NEW type \in EntryTypes, NEW amount \in Nat,
         Post(w, type, amount, Source(q, purpose))
  PROVE  /\ balance' \in [Wallets -> Int]
         /\ ledger' \in [Wallets -> Seq(Entries(Quotes, Purposes))]
         /\ LedgerExplainsBalance'
         /\ \A p \in Quotes, v \in Purposes :
              Posted(Source(p, v))' <=>
                Posted(Source(p, v)) \/ (p = q /\ v = purpose)
<1>1. BookType(Entries(Quotes, Purposes))
  BY DEF TypeOK, BookType, Purposes
<1>2. BookType(Entries(Quotes, Purposes))'
  BY <1>1, PostTypes
<1>3. LedgerExplainsBalance'
  BY <1>1, PostExplains
<1>4. \A s : Posted(s)' <=> Posted(s) \/ s = Source(q, purpose)
  BY <1>1, PostPosts
<1>5. \A p \in Quotes, v \in Purposes :
        Source(p, v) = Source(q, purpose) <=> p = q /\ v = purpose
  BY DEF Source
<1> QED
  BY <1>2, <1>3, <1>4, <1>5 DEF BookType

(* A step that writes the row of q leaves the rows of the others alone.    *)
RowWritten(q) ==
  /\ conversion' \in [Quotes -> Row]
  /\ \A p \in Quotes \ {q} : conversion'[p] = conversion[p]

LEMMA RecordSubmissionKeepsInv ==
  ASSUME ConversionsInv, NEW t \in Tasks, RecordSubmission(t)
  PROVE  ConversionsInv'
<1>t. TypeOK /\ RowsInv /\ TasksInv /\ TaskInv(t) /\ UnreferencedIsUnsettled
  BY DEF ConversionsInv, TasksInv
<1>1. PICK q \in Quotes : q = task[t].quote /\ task[t].pc = "answer"
  BY <1>t DEF RecordSubmission, TaskInv
<1>2. /\ UNCHANGED <<bookVars, quote, leg, txn, earned, announced, externalVars>>
      /\ conversion' = [conversion EXCEPT ![q].status = "PROCESSING", ![q].hasRef = TRUE]
      /\ Goto(t, "dispatch")
  BY <1>1 DEF RecordSubmission
<1>3. /\ Exists(q) /\ provider[q] # <<>> /\ ~ conversion[q].reversed
      /\ leg[q] = "EUR" => ~ Posted(Source(q, "funding"))
      /\ Submitting(t) /\ Handles(t)
  BY <1>t, <1>1 DEF TaskInv, Submitting, Handles, UnreferencedIsUnsettled
<1>4. /\ RowWritten(q) /\ conversion'[q].status = "PROCESSING"
      /\ conversion'[q].hasRef /\ conversion'[q].reversed = conversion[q].reversed
  <2>1. conversion \in [Quotes -> Row]
    BY <1>t DEF TypeOK, Row
  <2>2. [conversion[q] EXCEPT !.status = "PROCESSING", !.hasRef = TRUE] \in Row
    BY <2>1 DEF Row, ConversionStatus
  <2> QED
    BY <1>2, <2>1, <2>2 DEF RowWritten, Row
<1>5. /\ TaskMoves(t) /\ task'[t].pc = "dispatch" /\ task'[t].quote = q
  BY <1>t, <1>1, <1>2, GotoMoves DEF Steps
<1>6. TypeOK'
  BY <1>t, <1>2, <1>4, <1>5 DEF TypeOK, TaskMoves, RowWritten, Row, Call, bookVars, externalVars
<1>7. RowsKept
  BY <1>4 DEF RowsKept, RowWritten, Exists
<1>8. RowsInv'
  <2>1. LedgerExplainsBalance' /\ \A s : Posted(s)' <=> Posted(s)
    BY <1>t, <1>2, BookFrame DEF RowsInv
  <2>2. RowsMatchLedger'
    <3>1. leg \in [Quotes -> {"EUR", "USDC"}]
      BY <1>t DEF TypeOK
    <3> QED
      BY <1>t, <1>2, <1>3, <1>4, <2>1, <3>1 DEF RowsInv, RowsMatchLedger, RowWritten, Exists
  <2>3. FundedAfterCompletion'
    BY <1>t, <1>2, <2>1 DEF RowsInv, FundedAfterCompletion, externalVars
  <2>4. NothingBeforeReserve' /\ ProcessingFirst' /\ WebhooksReported'
    BY <1>t, <1>2, <1>3, <1>4
       DEF RowsInv, NothingBeforeReserve, ProcessingFirst, WebhooksReported, Reported,
           RowWritten, Exists, externalVars
  <2> QED
    BY <2>1, <2>2, <2>3, <2>4 DEF RowsInv
<1>9. UnreferencedIsUnsettled'
  BY <1>t, <1>2, <1>5, <1>7, BookFrame, UnsettledKeeps
<1>10. TasksInv'
  <2>1. TaskInv(t)'
    BY <1>2, <1>3, <1>5, <1>7 DEF TaskInv, Submitting, RowsKept
  <2>2. HistoryKept /\ UNCHANGED provider
    BY <1>2 DEF HistoryKept, Reported, externalVars
  <2>3. \A u \in Tasks \ {t} : Submitting(u) =>
          task[u].quote \in Quotes \ {q} /\ TaskInv(u)
    BY <1>t, <1>1, <1>3 DEF TasksInv, SubmittedAlone, TaskInv, Submitting
  <2>4. ~ Submitting(t)'
    BY <1>5 DEF Submitting
  <2>5. \A u \in Tasks \ {t} : Submitting(u) =>
          /\ ~ conversion'[task[u].quote].reversed
          /\ leg[task[u].quote] = "EUR" => ~ conversion'[task[u].quote].hasRef
    BY <1>4, <2>3 DEF RowWritten, TaskInv
  <2> QED
    BY <1>t, <1>2, <1>5, <1>7, <2>1, <2>2, <2>3, <2>4, <2>5, TasksKeep
<1> QED
  BY <1>6, <1>8, <1>9, <1>10 DEF ConversionsInv

(* A settlement finds the completion reported and, of a EUR leg, the       *)
(* reference recorded: no call can be submitting that leg any more.        *)
LEMMA SettleKeepsInv ==
  ASSUME ConversionsInv, NEW t \in Tasks, Settle(t)
  PROVE  ConversionsInv'
<1>t. TypeOK /\ RowsInv /\ TasksInv /\ TaskInv(t) /\ UnreferencedIsUnsettled
  BY DEF ConversionsInv, TasksInv
<1>1. PICK q \in Quotes : q = task[t].quote /\ task[t].pc = "settleWrite"
  BY <1>t DEF Settle, TaskInv
<1>2. /\ Post(FundedWallet[q], "CREDIT", Destination[q], Source(q, "funding"))
      /\ conversion' = [conversion EXCEPT ![q].status = "COMPLETED", ![q].hasRef = TRUE]
      /\ txn' = [txn EXCEPT ![q] = "COMPLETED"]
      /\ earned' = earned \cup ({q} \cap FeeBearing)
      /\ Goto(t, "announceCompleted")
      /\ UNCHANGED <<quote, leg, announced, externalVars>>
  BY <1>1 DEF Settle
<1>3. /\ Exists(q) /\ Reported(q, "completed") /\ provider[q] # <<>>
      /\ leg[q] = "EUR" => conversion[q].hasRef
  BY <1>t, <1>1 DEF TaskInv, UnreferencedIsUnsettled, Reported
<1>4. /\ RowWritten(q) /\ conversion'[q].status = "COMPLETED"
      /\ conversion'[q].hasRef /\ conversion'[q].reversed = conversion[q].reversed
  <2>1. conversion \in [Quotes -> Row]
    BY <1>t DEF TypeOK, Row
  <2>2. [conversion[q] EXCEPT !.status = "COMPLETED", !.hasRef = TRUE] \in Row
    BY <2>1 DEF Row, ConversionStatus
  <2> QED
    BY <1>2, <2>1, <2>2 DEF RowWritten, Row
<1>5. /\ TaskMoves(t) /\ task'[t].pc = "announceCompleted" /\ task'[t].quote = q
  BY <1>t, <1>1, <1>2, GotoMoves DEF Steps
<1>b. /\ balance' \in [Wallets -> Int]
      /\ ledger' \in [Wallets -> Seq(Entries(Quotes, Purposes))]
      /\ LedgerExplainsBalance'
      /\ \A p \in Quotes, v \in Purposes :
           Posted(Source(p, v))' <=> Posted(Source(p, v)) \/ (p = q /\ v = "funding")
  <2>1. /\ FundedWallet[q] \in Wallets /\ Destination[q] \in Nat
        /\ "funding" \in Purposes /\ "CREDIT" \in EntryTypes
    BY ConversionAssumption DEF Purposes, EntryTypes
  <2> QED
    BY <1>t, <1>2, <2>1, PostsFor DEF RowsInv
<1>6. TypeOK'
  BY <1>t, <1>2, <1>4, <1>5, <1>b
     DEF TypeOK, TaskMoves, RowWritten, Row, Call, Purposes, externalVars
<1>7. RowsKept
  BY <1>4 DEF RowsKept, RowWritten, Exists
<1>8. RowsInv'
  <2>2. RowsMatchLedger'
    <3>1. txn \in [Quotes -> {"NONE", "PROCESSING", "COMPLETED"}]
      BY <1>t DEF TypeOK
    <3> QED
      BY <1>t, <1>2, <1>3, <1>4, <1>b, <3>1
         DEF RowsInv, RowsMatchLedger, RowWritten, Exists, Purposes
  <2>3. FundedAfterCompletion'
    BY <1>t, <1>2, <1>3, <1>b
       DEF RowsInv, FundedAfterCompletion, Reported, Purposes, externalVars
  <2>4. NothingBeforeReserve' /\ ProcessingFirst' /\ WebhooksReported'
    BY <1>t, <1>2, <1>3, <1>4
       DEF RowsInv, NothingBeforeReserve, ProcessingFirst, WebhooksReported, Reported,
           RowWritten, Exists, externalVars
  <2> QED
    BY <1>b, <2>2, <2>3, <2>4 DEF RowsInv
<1>9. UnreferencedIsUnsettled'
  <2>1. \A p \in Quotes : leg[p] = "EUR" /\ ~ conversion'[p].hasRef =>
          (Posted(Source(p, "funding"))' => Posted(Source(p, "funding")))
    BY <1>4, <1>b DEF Purposes
  <2> QED
    BY <1>t, <1>2, <1>5, <1>7, <2>1, UnsettledKeeps
<1>10. TasksInv'
  <2>1. TaskInv(t)'
    BY <1>2, <1>3, <1>5, <1>7 DEF TaskInv, Submitting, RowsKept
  <2>2. HistoryKept /\ UNCHANGED provider
    BY <1>2 DEF HistoryKept, Reported, externalVars
  <2>3. \A u \in Tasks \ {t} : Submitting(u) => task[u].quote \in Quotes /\ TaskInv(u)
    BY <1>t DEF TasksInv, TaskInv, Submitting
  <2>4. ~ Submitting(t)' /\ ~ Handles(t)'
    BY <1>5 DEF Submitting, Handles
  <2>5. \A u \in Tasks \ {t} : Submitting(u) =>
          /\ ~ conversion'[task[u].quote].reversed
          /\ leg[task[u].quote] = "EUR" => ~ conversion'[task[u].quote].hasRef
    BY <1>3, <1>4, <2>3 DEF RowWritten, TaskInv
  <2> QED
    BY <1>t, <1>2, <1>5, <1>7, <2>1, <2>2, <2>4, <2>5, TasksKeep
<1> QED
  BY <1>6, <1>8, <1>9, <1>10 DEF ConversionsInv

(* A reversal is of a conversion that no call is submitting: the call that *)
(* did so gave up before it began to reverse.                              *)
LEMMA ReverseKeepsInv ==
  ASSUME ConversionsInv, NEW t \in Tasks, Reverse(t)
  PROVE  ConversionsInv'
<1>t. TypeOK /\ RowsInv /\ TasksInv /\ TaskInv(t) /\ UnreferencedIsUnsettled
  BY DEF ConversionsInv, TasksInv
<1>1. PICK q \in Quotes : q = task[t].quote /\ task[t].pc = "reverseWrite"
  BY <1>t DEF Reverse, TaskInv
<1>u. UNCHANGED <<quote, leg, txn, earned, announced, externalVars>>
  BY DEF Reverse
<1>l. CASE Leave(t) /\ UNCHANGED <<bookVars, conversion>>
  BY <1>l, <1>t, <1>u, EndStep DEF TypeOK, externalVars
<1>2. CASE /\ Post(SourceOf[q], "CREDIT", TotalDebit[q], Source(q, "reversal"))
           /\ conversion' = [conversion EXCEPT ![q].status = "FAILED",
                                               ![q].reversed = TRUE]
           /\ Goto(t, "announceFailed")
  <2>1. Exists(q) /\ Handles(t)
    BY <1>t, <1>1 DEF TaskInv, Handles
  <2>2. /\ RowWritten(q) /\ conversion'[q].status = "FAILED"
        /\ conversion'[q].reversed /\ conversion'[q].hasRef = conversion[q].hasRef
    <3>1. conversion \in [Quotes -> Row]
      BY <1>t DEF TypeOK, Row
    <3>2. [conversion[q] EXCEPT !.status = "FAILED", !.reversed = TRUE] \in Row
      BY <3>1 DEF Row, ConversionStatus
    <3> QED
      BY <1>2, <3>1, <3>2 DEF RowWritten, Row
  <2>3. /\ TaskMoves(t) /\ task'[t].pc = "announceFailed" /\ task'[t].quote = q
    BY <1>t, <1>1, <1>2, GotoMoves DEF Steps
  <2>b. /\ balance' \in [Wallets -> Int]
        /\ ledger' \in [Wallets -> Seq(Entries(Quotes, Purposes))]
        /\ LedgerExplainsBalance'
        /\ \A p \in Quotes, v \in Purposes :
             Posted(Source(p, v))' <=> Posted(Source(p, v)) \/ (p = q /\ v = "reversal")
    <3>1. /\ SourceOf[q] \in Wallets /\ TotalDebit[q] \in Nat
          /\ "reversal" \in Purposes /\ "CREDIT" \in EntryTypes
      BY ConversionAssumption DEF Purposes, EntryTypes
    <3> QED
      BY <1>t, <1>2, <3>1, PostsFor DEF RowsInv
  <2>4. TypeOK'
    BY <1>t, <1>u, <2>2, <2>3, <2>b
       DEF TypeOK, TaskMoves, RowWritten, Row, Call, Purposes, externalVars
  <2>5. RowsKept
    BY <2>2 DEF RowsKept, RowWritten, Exists
  <2>6. RowsInv'
    <3>2. RowsMatchLedger'
      BY <1>t, <1>u, <2>1, <2>2, <2>b
         DEF RowsInv, RowsMatchLedger, RowWritten, Exists, Purposes
    <3>3. FundedAfterCompletion'
      BY <1>t, <1>u, <2>b DEF RowsInv, FundedAfterCompletion, Purposes, externalVars
    <3>4. NothingBeforeReserve' /\ ProcessingFirst' /\ WebhooksReported'
      BY <1>t, <1>u, <2>1, <2>2
         DEF RowsInv, NothingBeforeReserve, ProcessingFirst, WebhooksReported, Reported,
             RowWritten, Exists, externalVars
    <3> QED
      BY <2>b, <3>2, <3>3, <3>4 DEF RowsInv
  <2>7. UnreferencedIsUnsettled'
    <3>1. \A p \in Quotes : Posted(Source(p, "funding"))' => Posted(Source(p, "funding"))
      BY <2>b DEF Purposes
    <3> QED
      BY <1>t, <1>u, <2>3, <2>5, <3>1, UnsettledKeeps
  <2>8. TasksInv'
    <3>1. TaskInv(t)'
      BY <2>1, <2>3, <2>5 DEF TaskInv, Submitting, RowsKept
    <3>2. HistoryKept /\ UNCHANGED provider
      BY <1>u DEF HistoryKept, Reported, externalVars
    <3>3. \A u \in Tasks \ {t} : Submitting(u) =>
            task[u].quote \in Quotes \ {q} /\ TaskInv(u)
      BY <1>t, <1>1, <2>1 DEF TasksInv, SubmittedAlone, TaskInv, Submitting
    <3>4. ~ Submitting(t)' /\ ~ Handles(t)'
      BY <2>3 DEF Submitting, Handles
    <3>5. \A u \in Tasks \ {t} : Submitting(u) =>
            /\ ~ conversion'[task[u].quote].reversed
            /\ leg[task[u].quote] = "EUR" => ~ conversion'[task[u].quote].hasRef
      BY <2>2, <3>3 DEF RowWritten, TaskInv
    <3> QED
      BY <1>t, <1>u, <2>3, <2>5, <3>1, <3>2, <3>4, <3>5, TasksKeep
  <2> QED
    BY <2>4, <2>6, <2>7, <2>8 DEF ConversionsInv
<1> QED
  BY <1>1, <1>2, <1>l DEF Reverse

(* A reservation makes the one conversion of its quote, of which there has *)
(* been no trace, and begins to submit it.                                 *)
LEMMA ReserveKeepsInv ==
  ASSUME ConversionsInv, NEW t \in Tasks, Reserve(t)
  PROVE  ConversionsInv'
<1>t. TypeOK /\ RowsInv /\ TasksInv /\ TaskInv(t) /\ UnreferencedIsUnsettled
  BY DEF ConversionsInv, TasksInv
<1>1. PICK q \in Quotes, k \in Keys :
        q = task[t].quote /\ k = task[t].key /\ task[t].pc = "reserve"
  BY <1>t DEF Reserve, TaskInv
<1>u. UNCHANGED <<leg, earned, announced, externalVars>>
  BY DEF Reserve
<1>l. CASE Leave(t) /\ UNCHANGED <<bookVars, conversion, txn, quote>>
  BY <1>l, <1>t, <1>u, EndStep DEF TypeOK, externalVars
<1> DEFINE new == [status |-> "PROCESSING", key |-> k, hasRef |-> FALSE,
                   reversed |-> FALSE]
<1>n. /\ new \in Row /\ new.status = "PROCESSING"
      /\ ~ new.hasRef /\ ~ new.reversed
  BY DEF Row, ConversionStatus
<1>2. CASE /\ Insertable(q, k)
           /\ Post(SourceOf[q], "DEBIT", TotalDebit[q], Source(q, "debit"))
           /\ conversion' = [conversion EXCEPT ![q] = new]
           /\ txn' = [txn EXCEPT ![q] = "PROCESSING"]
           /\ quote' = [quote EXCEPT ![q] = "confirmed"]
           /\ Goto(t, "submit")
  <2> HIDE DEF new
  <2>1. /\ ~ Exists(q) /\ provider[q] = <<>> /\ txn[q] = "NONE"
        /\ ~ conversion[q].hasRef /\ ~ conversion[q].reversed
    BY <1>t, <1>2 DEF Insertable, RowsInv, NothingBeforeReserve
  <2>2. /\ RowWritten(q) /\ conversion'[q].status = "PROCESSING"
        /\ ~ conversion'[q].reversed /\ ~ conversion'[q].hasRef
    <3>1. conversion \in [Quotes -> Row]
      BY <1>t DEF TypeOK, Row
    <3> QED
      BY <1>2, <1>n, <3>1 DEF RowWritten
  <2>3. /\ TaskMoves(t) /\ task'[t].pc = "submit" /\ task'[t].quote = q
    BY <1>t, <1>1, <1>2, GotoMoves DEF Steps
  <2>b. /\ balance' \in [Wallets -> Int]
        /\ ledger' \in [Wallets -> Seq(Entries(Quotes, Purposes))]
        /\ LedgerExplainsBalance'
        /\ \A p \in Quotes, v \in Purposes :
             Posted(Source(p, v))' <=> Posted(Source(p, v)) \/ (p = q /\ v = "debit")
    <3>1. /\ SourceOf[q] \in Wallets /\ TotalDebit[q] \in Nat
          /\ "debit" \in Purposes /\ "DEBIT" \in EntryTypes
      BY ConversionAssumption DEF Purposes, EntryTypes
    <3> QED
      BY <1>t, <1>2, <3>1, PostsFor DEF RowsInv
  <2>4. TypeOK'
    BY <1>t, <1>2, <1>u, <2>2, <2>3, <2>b
       DEF TypeOK, TaskMoves, RowWritten, Row, Call, Purposes, externalVars
  <2>5. RowsKept
    BY <2>1, <2>2 DEF RowsKept, RowWritten, Exists
  <2>6. RowsInv'
    <3>1. txn \in [Quotes -> {"NONE", "PROCESSING", "COMPLETED"}]
      BY <1>t DEF TypeOK
    <3>2. RowsMatchLedger'
      <4>1. ~ Posted(Source(q, "funding")) /\ ~ Posted(Source(q, "reversal"))
        BY <1>t, <2>1 DEF RowsInv, RowsMatchLedger
      <4> QED
        BY <1>t, <1>2, <1>u, <2>1, <2>2, <2>b, <3>1, <4>1
           DEF RowsInv, RowsMatchLedger, RowWritten, Exists, Purposes
    <3>3. FundedAfterCompletion'
      BY <1>t, <1>u, <2>b DEF RowsInv, FundedAfterCompletion, Purposes, externalVars
    <3>4. NothingBeforeReserve' /\ ProcessingFirst' /\ WebhooksReported'
      BY <1>t, <1>2, <1>u, <2>1, <2>2, <3>1
         DEF RowsInv, NothingBeforeReserve, ProcessingFirst, WebhooksReported, Reported,
             RowWritten, Exists, externalVars
    <3> QED
      BY <2>b, <3>2, <3>3, <3>4 DEF RowsInv
  <2>7. UnreferencedIsUnsettled'
    <3>1. \A p \in Quotes : Posted(Source(p, "funding"))' => Posted(Source(p, "funding"))
      BY <2>b DEF Purposes
    <3> QED
      BY <1>t, <1>u, <2>3, <2>5, <3>1, UnsettledKeeps
  <2>8. TasksInv'
    <3>1. TaskInv(t)'
      BY <1>u, <2>1, <2>2, <2>3 DEF TaskInv, Submitting, Exists, externalVars
    <3>2. HistoryKept /\ UNCHANGED provider
      BY <1>u DEF HistoryKept, Reported, externalVars
    <3>3. \A u \in Tasks \ {t} : Submitting(u) \/ Handles(u) =>
            task[u].quote \in Quotes \ {q} /\ TaskInv(u)
      BY <1>t, <2>1 DEF TasksInv, TaskInv, Submitting, Handles
    <3>5. \A u \in Tasks \ {t} : Submitting(u) =>
            /\ ~ conversion'[task[u].quote].reversed
            /\ leg[task[u].quote] = "EUR" => ~ conversion'[task[u].quote].hasRef
      BY <2>2, <3>3 DEF RowWritten, TaskInv
    <3> QED
      BY <1>t, <1>u, <2>3, <2>5, <3>1, <3>2, <3>3, <3>5, TasksKeep
  <2> QED
    BY <2>4, <2>6, <2>7, <2>8 DEF ConversionsInv
<1> QED
  BY <1>1, <1>2, <1>l DEF Reserve

-----------------------------------------------------------------------------
(* The theorems                                                            *)

LEMMA NextInv == ConversionsInv /\ [Next]_vars => ConversionsInv'
<1> SUFFICES ASSUME ConversionsInv, [Next]_vars PROVE ConversionsInv'
  OBVIOUS
<1>1. CASE (\E q \in Quotes : ExpireQuote(q)) \/ UNCHANGED vars
  BY <1>1, IdleSteps
<1>2. CASE \E q \in Quotes, status \in Outcomes : ProviderMoves(q, status)
  BY <1>2, ProviderMovesKeepsInv
<1>3. ASSUME NEW t \in Tasks, Step(t)
      PROVE  ConversionsInv'
  <2>1. CASE \/ \E q \in Quotes, k \in Keys : StartConfirm(t, q, k)
             \/ ReadQuote(t) \/ ReadWallet(t) \/ SubmissionFails(t)
             \/ AnswerCompleted(t) \/ ReadForSettle(t) \/ ReadForReverse(t)
             \/ Crash(t)
    BY <2>1, CallSteps
  <2>2. CASE \/ \E q \in Quotes, status \in Outcomes : AcceptWebhook(t, q, status)
             \/ \E q \in Quotes : StartReconcile(t, q)
             \/ AskProvider(t)
    BY <2>2, SettlingSteps
  <2>3. CASE \E q \in Quotes, status \in Outcomes : WebhookNotFound(t, q, status)
    BY <2>3, IdleSteps
  <2>4. CASE DispatchProcessing(t) \/ AnnounceCompleted(t) \/ AnnounceFailed(t)
    BY <2>4, AnnouncingSteps
  <2>5. CASE ProviderAccepts(t)
    BY <2>5, ProviderAcceptsKeepsInv
  <2>6. CASE Reserve(t) \/ RecordSubmission(t)
    BY <2>6, ReserveKeepsInv, RecordSubmissionKeepsInv
  <2>7. CASE Settle(t) \/ Reverse(t)
    BY <2>7, SettleKeepsInv, ReverseKeepsInv
  <2> QED
    BY <1>3, <2>1, <2>2, <2>3, <2>4, <2>5, <2>6, <2>7 DEF Step
<1> QED
  BY <1>1, <1>2, <1>3 DEF Next

(* In every reachable state the rows, the ledger, the provider's histories *)
(* and what the concurrent calls know between their steps fit together.    *)
THEOREM Invariance == Spec => []ConversionsInv
  BY InitInv, NextInv, PTL DEF Spec

(* The rows and the calls keep their shapes.                               *)
THEOREM TypeCorrect == Spec => []TypeOK
<1>1. ConversionsInv => TypeOK
  BY DEF ConversionsInv
<1> QED
  BY <1>1, Invariance, PTL

(* However reservations, credits and reversals interleave on the wallets,  *)
(* each ledger entry's balanceAfter is the one before it plus or minus its *)
(* amount, and the last one is the balance.                                *)
THEOREM BookExplained == Spec => []LedgerExplainsBalance
<1>1. ConversionsInv => LedgerExplainsBalance
  BY DEF ConversionsInv, RowsInv
<1> QED
  BY <1>1, Invariance, PTL

(* However many confirm calls race on a quote, with one Idempotency-Key or *)
(* several, the provider is given the conversion at most once, and only    *)
(* with its debit in the ledger.                                           *)
THEOREM HandedOverOnce == Spec => []SubmittedOnce
<1>1. ASSUME ConversionsInv, NEW q \in Quotes
      PROVE  /\ \A i, j \in DOMAIN provider[q] :
                  provider[q][i] = "processing" /\ provider[q][j] = "processing" => i = j
             /\ provider[q] # <<>> => Posted(Source(q, "debit"))
  <2>1. \A i \in DOMAIN provider[q] : provider[q][i] = "processing" => i = 1
    BY <1>1 DEF ConversionsInv, RowsInv, ProcessingFirst
  <2>2. provider[q] # <<>> => Exists(q)
    BY <1>1 DEF ConversionsInv, RowsInv, NothingBeforeReserve
  <2>3. Exists(q) => Posted(Source(q, "debit"))
    BY <1>1 DEF ConversionsInv, RowsInv, RowsMatchLedger
  <2> QED
    BY <2>1, <2>2, <2>3
<1>2. ConversionsInv => SubmittedOnce
  BY <1>1 DEF SubmittedOnce
<1> QED
  BY <1>2, Invariance, PTL

(* No destination wallet is credited before the provider has reported      *)
(* completion, through the answer, a webhook or the reconciliation pass.   *)
THEOREM FundedForCompletion == Spec => []FundedAfterCompletion
<1>1. ConversionsInv => FundedAfterCompletion
  BY DEF ConversionsInv, RowsInv
<1> QED
  BY <1>1, Invariance, PTL

(* The conversion, its transaction and its fee agree with the ledger on    *)
(* where the money is, although settlements and reversals act on what they *)
(* read before and the late answer overwrites the status.                  *)
THEOREM RowsTellTheLedger == Spec => []RowsMatchLedger
<1>1. ConversionsInv => RowsMatchLedger
  BY DEF ConversionsInv, RowsInv
<1> QED
  BY <1>1, Invariance, PTL

-----------------------------------------------------------------------------
(* The escrow of the source wallets                                        *)

(* The balances and rows a reservation, a settlement or a late answer, and *)
(* a reversal leave behind, as the escrow sees them.                       *)
Reserved(q) ==
  /\ ~ Exists(q) /\ Exists(q)'
  /\ conversion'[q].reversed = conversion[q].reversed
  /\ \A p \in Quotes \ {q} : conversion'[p] = conversion[p]
  /\ balance' = [balance EXCEPT ![SourceOf[q]] = @ - TotalDebit[q]]

Overwritten(q) ==
  /\ Exists(q) /\ Exists(q)'
  /\ conversion'[q].reversed = conversion[q].reversed
  /\ \A p \in Quotes \ {q} : conversion'[p] = conversion[p]
  /\ \A w \in SourceWallets : balance'[w] = balance[w]

GivenBack(q) ==
  /\ Exists(q) /\ Exists(q)'
  /\ ~ conversion[q].reversed /\ conversion'[q].reversed
  /\ \A p \in Quotes \ {q} : conversion'[p] = conversion[p]
  /\ balance' = [balance EXCEPT ![SourceOf[q]] = @ + TotalDebit[q]]

(* Every step is one of these three, or none of the escrow's business.     *)
LEMMA ConversionSteps ==
  ASSUME ConversionsInv, [Next]_vars
  PROVE  \/ UNCHANGED <<conversion, balance>>
         \/ \E q \in Quotes : Reserved(q) \/ Overwritten(q) \/ GivenBack(q)
<1>t. /\ conversion \in [Quotes -> Row] /\ balance \in [Wallets -> Int]
      /\ \A t \in Tasks : TaskInv(t)
  BY DEF ConversionsInv, TypeOK, Row, TasksInv
<1>1. CASE \/ \E q \in Quotes : ExpireQuote(q)
           \/ \E q \in Quotes, status \in Outcomes : ProviderMoves(q, status)
           \/ UNCHANGED vars
  BY <1>1 DEF ExpireQuote, ProviderMoves, vars, bookVars, dbVars
<1>2. ASSUME NEW t \in Tasks, Step(t)
      PROVE  \/ UNCHANGED <<conversion, balance>>
             \/ \E q \in Quotes : Reserved(q) \/ Overwritten(q) \/ GivenBack(q)
  <2>1. CASE Reserve(t)
    <3>1. PICK q \in Quotes : q = task[t].quote /\ task[t].pc = "reserve"
      BY <1>t, <2>1 DEF Reserve, TaskInv
    <3>2. CASE ~ Insertable(q, task[t].key)
      BY <2>1, <3>1, <3>2 DEF Reserve, bookVars
    <3>3. CASE Insertable(q, task[t].key)
      <4> DEFINE new == [status |-> "PROCESSING", key |-> task[t].key,
                         hasRef |-> FALSE, reversed |-> FALSE]
      <4>1. new.status = "PROCESSING" /\ new.reversed = FALSE
        OBVIOUS
      <4>2. /\ conversion' = [conversion EXCEPT ![q] = new]
            /\ Post(SourceOf[q], "DEBIT", TotalDebit[q], Source(q, "debit"))
        BY <2>1, <3>1, <3>3 DEF Reserve
      <4> HIDE DEF new
      <4>3. ~ Exists(q) /\ conversion[q].reversed = FALSE
        BY <3>1, <3>3, <1>t
           DEF Insertable, ConversionsInv, RowsInv, NothingBeforeReserve, Row
      <4>4. /\ Exists(q)' /\ conversion'[q].reversed = conversion[q].reversed
            /\ \A p \in Quotes \ {q} : conversion'[p] = conversion[p]
        BY <1>t, <3>1, <4>1, <4>2, <4>3 DEF Exists
      <4>5. balance' = [balance EXCEPT ![SourceOf[q]] = @ - TotalDebit[q]]
        BY <4>2 DEF Post, Applied
      <4> QED
        BY <3>1, <4>3, <4>4, <4>5 DEF Reserved
    <3> QED
      BY <3>2, <3>3
  <2>2. CASE RecordSubmission(t)
    <3>1. PICK q \in Quotes : q = task[t].quote /\ Exists(q)
      BY <1>t, <2>2 DEF RecordSubmission, TaskInv
    <3>2. /\ conversion' = [conversion EXCEPT ![q].status = "PROCESSING", ![q].hasRef = TRUE]
          /\ balance' = balance
      BY <2>2, <3>1 DEF RecordSubmission, bookVars
    <3> QED
      BY <1>t, <3>1, <3>2 DEF Overwritten, Exists, Row
  <2>3. CASE Settle(t)
    <3>1. PICK q \in Quotes : q = task[t].quote /\ Exists(q)
      BY <1>t, <2>3 DEF Settle, TaskInv
    <3>2. /\ conversion' = [conversion EXCEPT ![q].status = "COMPLETED", ![q].hasRef = TRUE]
          /\ balance' = [balance EXCEPT ![FundedWallet[q]] = Applied(@, "CREDIT", Destination[q])]
      BY <2>3, <3>1 DEF Settle, Post
    <3>3. \A w \in SourceWallets : balance'[w] = balance[w]
      BY <1>t, <3>1, <3>2, ConversionAssumption DEF SourceWallets
    <3> QED
      BY <1>t, <3>1, <3>2, <3>3 DEF Overwritten, Exists, Row
  <2>4. CASE Reverse(t)
    <3>1. PICK q \in Quotes : q = task[t].quote /\ Exists(q)
      BY <1>t, <2>4 DEF Reverse, TaskInv
    <3>2. CASE UNCHANGED <<bookVars, conversion>>
      BY <3>2 DEF bookVars
    <3>3. CASE /\ ReversalInsertable(q)
               /\ Post(SourceOf[q], "CREDIT", TotalDebit[q], Source(q, "reversal"))
               /\ conversion' = [conversion EXCEPT ![q].status = "FAILED",
                                                   ![q].reversed = TRUE]
      <4>1. balance' = [balance EXCEPT ![SourceOf[q]] = @ + TotalDebit[q]]
        BY <3>3 DEF Post, Applied
      <4> QED
        BY <1>t, <3>1, <3>3, <4>1 DEF GivenBack, Exists, Row, ReversalInsertable
    <3> QED
      BY <2>4, <3>1, <3>2, <3>3 DEF Reverse
  <2>5. CASE /\ ~ Reserve(t) /\ ~ RecordSubmission(t)
             /\ ~ Settle(t) /\ ~ Reverse(t)
    BY <1>2, <2>5
       DEF Step, StartConfirm, ReadQuote, ReadWallet, ProviderAccepts, SubmissionFails,
           AnswerCompleted, DispatchProcessing, ReadForSettle, AnnounceCompleted,
           ReadForReverse, AnnounceFailed, AcceptWebhook, WebhookNotFound,
           StartReconcile, AskProvider, Crash, bookVars, dbVars
  <2> QED
    BY <2>1, <2>2, <2>3, <2>4, <2>5
<1> QED
  BY <1>1, <1>2 DEF Next

(* The conversions implement the escrow on their source wallets: a balance *)
(* moves only when a conversion takes its debit, once, or gives it back,   *)
(* once, however its settlements and reversals race.                       *)
THEOREM ImplementsSourceEscrow == Spec => SourceEscrowKept
<1>1. Init => SourceEscrow!EscrowInit
  BY DEF Init, BookInit, NoConversion, Exists, SourceEscrow!EscrowInit
<1>2. ASSUME ConversionsInv, [Next]_vars
      PROVE  [SourceEscrow!EscrowNext]_(SourceEscrow!escrowVars)
  <2> USE DEF SourceEscrow!EscrowNext, SourceEscrow!escrowVars, SourceEscrow!Take,
              SourceEscrow!Return
  <2>w. /\ balance \in [Wallets -> Int] /\ SourceWallets \subseteq Wallets
        /\ \A q \in Quotes : SourceOf[q] \in SourceWallets
    BY <1>2, ConversionAssumption DEF ConversionsInv, TypeOK, SourceWallets
  <2>1. CASE UNCHANGED <<conversion, balance>>
    BY <2>1 DEF Exists
  <2>2. ASSUME NEW q \in Quotes, Reserved(q)
        PROVE  SourceEscrow!Take(q)
    <3>1. /\ {p \in Quotes : Exists(p)}' = {p \in Quotes : Exists(p)} \cup {q}
          /\ {p \in Quotes : conversion'[p].reversed} =
               {p \in Quotes : conversion[p].reversed}
      BY <2>2 DEF Reserved, Exists
    <3>2. [w \in SourceWallets |-> balance'[w]] =
            [[w \in SourceWallets |-> balance[w]]
               EXCEPT ![SourceOf[q]] = @ - TotalDebit[q]]
      BY <2>2, <2>w DEF Reserved
    <3> QED
      BY <2>2, <3>1, <3>2 DEF Reserved
  <2>3. ASSUME NEW q \in Quotes, Overwritten(q)
        PROVE  UNCHANGED SourceEscrow!escrowVars
    <3>1. /\ {p \in Quotes : Exists(p)}' = {p \in Quotes : Exists(p)}
          /\ {p \in Quotes : conversion'[p].reversed} =
               {p \in Quotes : conversion[p].reversed}
      BY <2>3 DEF Overwritten, Exists
    <3>2. [w \in SourceWallets |-> balance'[w]] = [w \in SourceWallets |-> balance[w]]
      BY <2>3 DEF Overwritten
    <3> QED
      BY <3>1, <3>2
  <2>4. ASSUME NEW q \in Quotes, GivenBack(q)
        PROVE  SourceEscrow!Return(q)
    <3>1. /\ {p \in Quotes : Exists(p)}' = {p \in Quotes : Exists(p)}
          /\ {p \in Quotes : conversion'[p].reversed} =
               {p \in Quotes : conversion[p].reversed} \cup {q}
      BY <2>4 DEF GivenBack, Exists
    <3>2. [w \in SourceWallets |-> balance'[w]] =
            [[w \in SourceWallets |-> balance[w]]
               EXCEPT ![SourceOf[q]] = @ + TotalDebit[q]]
      BY <2>4, <2>w DEF GivenBack
    <3> QED
      BY <2>4, <3>1, <3>2 DEF GivenBack
  <2> QED
    BY <1>2, <2>1, <2>2, <2>3, <2>4, ConversionSteps
<1>3. ConversionsInv /\ [Next]_vars =>
        [SourceEscrow!EscrowNext]_(SourceEscrow!escrowVars)
  BY <1>2
<1> QED
  BY <1>1, <1>3, Invariance, PTL DEF Spec, SourceEscrowKept, SourceEscrow!EscrowSpec

-----------------------------------------------------------------------------
(* Double credits                                                          *)

(* A posting keeps the credits single unless it repeats one.               *)
LEMMA PostKeepsFundedOnce ==
  ASSUME TypeOK, FundedOnce, NEW p \in Quotes, NEW purpose \in Purposes,
         NEW w \in Wallets, NEW type, NEW amount,
         Post(w, type, amount, Source(p, purpose)),
         purpose = "funding" => ~ Posted(Source(p, "funding"))
  PROVE  FundedOnce'
<1>1. BookType(Entries(Quotes, Purposes))
  BY DEF TypeOK, BookType, Purposes
<1>2. Appended(w, type, amount, Source(p, purpose))
  BY <1>1, PostAppends
<1>3. ASSUME NEW q \in Quotes,
             NEW i \in DOMAIN ledger'[FundedWallet[q]],
             NEW j \in DOMAIN ledger'[FundedWallet[q]],
             ledger'[FundedWallet[q]][i].source = Source(q, "funding"),
             ledger'[FundedWallet[q]][j].source = Source(q, "funding")
      PROVE  i = j
  <2> DEFINE v == FundedWallet[q]
  <2>1. v \in Wallets
    BY ConversionAssumption
  <2>2. CASE v # w
    BY <1>2, <1>3, <2>1, <2>2 DEF Appended, FundedOnce
  <2>3. CASE v = w
    <3>1. /\ Len(ledger[w]) \in Nat /\ DOMAIN ledger[w] = 1..Len(ledger[w])
          /\ DOMAIN ledger'[w] = 1..(Len(ledger[w]) + 1)
          /\ \A k \in DOMAIN ledger[w] : ledger'[w][k] = ledger[w][k]
          /\ ledger'[w][Len(ledger[w]) + 1].source = Source(p, purpose)
      BY <1>2 DEF Appended
    <3>2. ASSUME NEW k \in DOMAIN ledger[w], ledger[w][k].source = Source(q, "funding")
          PROVE  Source(p, purpose) # Source(q, "funding")
      <4>1. Posted(Source(q, "funding"))
        BY <3>2 DEF Posted
      <4> QED
        BY <4>1 DEF Source
    <3>3. i \in DOMAIN ledger[w] \/ i = Len(ledger[w]) + 1
      BY <2>3, <3>1
    <3>4. j \in DOMAIN ledger[w] \/ j = Len(ledger[w]) + 1
      BY <2>3, <3>1
    <3>5. CASE i \in DOMAIN ledger[w] /\ j \in DOMAIN ledger[w]
      BY <1>3, <2>3, <3>1, <3>5 DEF FundedOnce
    <3> QED
      BY <1>3, <2>3, <3>1, <3>2, <3>3, <3>4, <3>5
  <2> QED
    BY <2>2, <2>3
<1> QED
  BY <1>3 DEF FundedOnce

(* A step that enters no credit and sends no settlement on to its write.   *)
LEMMA SettlesFrame ==
  ASSUME ConversionsInv, SettlesOnce,
         \A q \in Quotes : Posted(Source(q, "funding"))' => Posted(Source(q, "funding")),
         \A t \in Tasks : task'[t].pc = "settleWrite" =>
           task[t].pc = "settleWrite" /\ task'[t].quote = task[t].quote
  PROVE  SettlesOnce'
BY DEF SettlesOnce, ConversionsInv, TasksInv, TaskInv

LEMMA SettlesStep ==
  ASSUME ConversionsInv, SettlesApart, SettlesOnce, FundedOnce, [Next]_vars
  PROVE  SettlesOnce' /\ FundedOnce'
<1>t. /\ TypeOK /\ LedgerExplainsBalance /\ task \in [Tasks -> Call]
      /\ \A t \in Tasks : TaskInv(t)
  BY DEF ConversionsInv, RowsInv, TasksInv, TypeOK, Call
<1>a. /\ SourceOf \in [Quotes -> Wallets] /\ FundedWallet \in [Quotes -> Wallets]
      /\ TotalDebit \in [Quotes -> Nat] /\ Destination \in [Quotes -> Nat]
      /\ {"debit", "funding", "reversal"} = Purposes
      /\ {"DEBIT", "CREDIT"} = EntryTypes
  BY ConversionAssumption DEF Purposes, EntryTypes
<1>1. ASSUME UNCHANGED bookVars,
             \A t \in Tasks : task'[t].pc = "settleWrite" =>
               task[t].pc = "settleWrite" /\ task'[t].quote = task[t].quote
      PROVE  SettlesOnce' /\ FundedOnce'
  <2>1. \A s : Posted(s)' <=> Posted(s)
    BY <1>1, BookFrame
  <2>2. FundedOnce'
    BY <1>1 DEF FundedOnce, bookVars
  <2> QED
    BY <1>1, <2>1, <2>2, SettlesFrame
<1>2. ASSUME NEW q \in Quotes, NEW w \in Wallets, NEW type \in EntryTypes,
             NEW amount \in Nat, NEW purpose \in {"debit", "reversal"},
             Post(w, type, amount, Source(q, purpose)),
             \A t \in Tasks : task'[t].pc = "settleWrite" =>
               task[t].pc = "settleWrite" /\ task'[t].quote = task[t].quote
      PROVE  SettlesOnce' /\ FundedOnce'
  <2>1. purpose \in Purposes /\ purpose # "funding" /\ "funding" \in Purposes
    BY DEF Purposes
  <2>2. \A p \in Quotes : Posted(Source(p, "funding"))' => Posted(Source(p, "funding"))
    BY <1>2, <1>t, <2>1, PostsFor
  <2>3. FundedOnce'
    BY <1>2, <1>t, <2>1, PostKeepsFundedOnce
  <2> QED
    BY <1>2, <2>2, <2>3, SettlesFrame
<1>3. ASSUME NEW t \in Tasks, Settle(t)
      PROVE  SettlesOnce' /\ FundedOnce'
  <2>1. PICK q \in Quotes : q = task[t].quote /\ task[t].pc = "settleWrite"
    BY <1>3, <1>t DEF Settle, TaskInv
  <2>2. /\ Post(FundedWallet[q], "CREDIT", Destination[q], Source(q, "funding"))
        /\ Goto(t, "announceCompleted")
    BY <1>3, <2>1 DEF Settle
  <2>3. ~ Posted(Source(q, "funding"))
    BY <2>1 DEF SettlesOnce
  <2>4. /\ FundedWallet[q] \in Wallets /\ Destination[q] \in Nat
        /\ "funding" \in Purposes /\ "CREDIT" \in EntryTypes
    BY <1>a
  <2>5. FundedOnce'
    BY <1>t, <2>2, <2>3, <2>4, PostKeepsFundedOnce
  <2>6. \A p \in Quotes : Posted(Source(p, "funding"))' =>
          Posted(Source(p, "funding")) \/ p = q
    BY <1>t, <2>2, <2>4, PostsFor
  <2>7. /\ \A u \in Tasks \ {t} : task'[u] = task[u]
        /\ task'[t].pc = "announceCompleted"
    BY <1>t, <2>2, GotoMoves DEF Steps, TaskMoves
  <2>8. ASSUME NEW u \in Tasks, task'[u].pc = "settleWrite"
        PROVE  ~ Posted(Source(task[u].quote, "funding"))'
    <3>1. u # t /\ task'[u] = task[u]
      BY <2>7, <2>8
    <3>2. PICK p \in Quotes : p = task[u].quote
      BY <1>t, <2>8, <3>1 DEF TaskInv
    <3>3. p # q
      BY <2>1, <2>8, <3>1, <3>2 DEF SettlesApart
    <3> QED
      BY <2>6, <2>8, <3>1, <3>2, <3>3 DEF SettlesOnce
  <2> QED
    BY <2>5, <2>8 DEF SettlesOnce
<1>4. ASSUME NEW t \in Tasks, ReadForSettle(t)
      PROVE  SettlesOnce' /\ FundedOnce'
  <2>1. PICK q \in Quotes : q = task[t].quote /\ task[t].pc = "settle"
    BY <1>4, <1>t DEF ReadForSettle, TaskInv
  <2>2. UNCHANGED bookVars
    BY <1>4 DEF ReadForSettle
  <2>3. \A s : Posted(s)' <=> Posted(s)
    BY <2>2, BookFrame
  <2>4. FundedOnce'
    BY <2>2 DEF FundedOnce, bookVars
  <2>5. CASE Leave(t)
    <3>1. \A u \in Tasks : task'[u].pc = "settleWrite" => task'[u] = task[u]
      BY <1>t, <2>5 DEF Leave, Idle
    <3> QED
      BY <1>1, <2>2, <3>1
  <2>6. CASE conversion[q].status # "COMPLETED" /\ Goto(t, "settleWrite")
    <3>1. /\ \A u \in Tasks \ {t} : task'[u] = task[u]
          /\ task'[t].quote = q
      BY <1>t, <2>1, <2>6, GotoMoves DEF Steps, TaskMoves
    <3>2. ~ Posted(Source(q, "funding"))
      BY <2>6 DEF SettlesApart
    <3> QED
      BY <2>3, <2>4, <3>1, <3>2 DEF SettlesOnce
  <2> QED
    BY <1>4, <2>1, <2>5, <2>6 DEF ReadForSettle
<1>5. ASSUME NEW t \in Tasks, Step(t), ~ Settle(t), ~ ReadForSettle(t)
      PROVE  SettlesOnce' /\ FundedOnce'
  <2>1. \A u \in Tasks : task'[u].pc = "settleWrite" =>
          task[u].pc = "settleWrite" /\ task'[u].quote = task[u].quote
    <3>1. \/ Leave(t)
          \/ UNCHANGED task
          \/ \E step \in Steps \ {"settleWrite"} : Goto(t, step)
          \/ \E q \in Quotes, step \in Steps \ {"settleWrite"} : Begin(t, step, q)
          \/ \E q \in Quotes, k \in Keys : StartConfirm(t, q, k)
      BY <1>5 DEF Step, ReadQuote, ReadWallet, Reserve, ProviderAccepts, SubmissionFails,
                  AnswerCompleted, RecordSubmission, DispatchProcessing,
                  AnnounceCompleted, ReadForReverse, Reverse, AnnounceFailed,
                  AcceptWebhook, WebhookNotFound, StartReconcile, AskProvider, Crash,
                  HandlerOf, Steps
    <3>2. CASE Leave(t)
      BY <1>t, <3>2 DEF Leave, Idle
    <3>3. ASSUME NEW step \in Steps \ {"settleWrite"},
                 Goto(t, step) \/ \E q \in Quotes : Begin(t, step, q)
          PROVE  \A u \in Tasks : task'[u].pc = "settleWrite" => task'[u] = task[u]
      BY <1>t, <3>3, GotoMoves, BeginMoves DEF TaskMoves
    <3>4. ASSUME NEW q \in Quotes, NEW k \in Keys, StartConfirm(t, q, k)
          PROVE  \A u \in Tasks : task'[u].pc = "settleWrite" => task'[u] = task[u]
      <4> DEFINE new == [pc |-> "readQuote", quote |-> q, key |-> k]
      <4>1. new.pc = "readQuote"
        OBVIOUS
      <4>2. task' = [task EXCEPT ![t] = new]
        BY <3>4 DEF StartConfirm
      <4> HIDE DEF new
      <4> QED
        BY <1>t, <4>1, <4>2
    <3> QED
      BY <3>1, <3>2, <3>3, <3>4
  <2>2. CASE UNCHANGED bookVars
    BY <1>1, <2>1, <2>2
  <2>3. CASE Reserve(t) /\ bookVars' # bookVars
    <3>1. PICK q \in Quotes : q = task[t].quote
      BY <1>t, <2>3 DEF Reserve, TaskInv
    <3>2. Post(SourceOf[q], "DEBIT", TotalDebit[q], Source(q, "debit"))
      BY <2>3, <3>1 DEF Reserve
    <3>3. SourceOf[q] \in Wallets /\ TotalDebit[q] \in Nat /\ "DEBIT" \in EntryTypes
      BY <1>a
    <3> QED
      BY <1>2, <2>1, <3>2, <3>3
  <2>4. CASE Reverse(t) /\ bookVars' # bookVars
    <3>1. PICK q \in Quotes : q = task[t].quote
      BY <1>t, <2>4 DEF Reverse, TaskInv
    <3>2. Post(SourceOf[q], "CREDIT", TotalDebit[q], Source(q, "reversal"))
      BY <2>4, <3>1 DEF Reverse
    <3>3. SourceOf[q] \in Wallets /\ TotalDebit[q] \in Nat /\ "CREDIT" \in EntryTypes
      BY <1>a
    <3> QED
      BY <1>2, <2>1, <3>2, <3>3
  <2> QED
    BY <1>5, <2>2, <2>3, <2>4
       DEF Step, StartConfirm, ReadQuote, ReadWallet, ProviderAccepts, SubmissionFails,
           AnswerCompleted, RecordSubmission, DispatchProcessing, AnnounceCompleted,
           ReadForReverse, AnnounceFailed, AcceptWebhook, WebhookNotFound,
           StartReconcile, AskProvider, Crash
<1>6. CASE \/ \E q \in Quotes : ExpireQuote(q)
           \/ \E q \in Quotes, status \in Outcomes : ProviderMoves(q, status)
           \/ UNCHANGED vars
  <2>1. UNCHANGED bookVars /\ UNCHANGED task
    BY <1>6 DEF ExpireQuote, ProviderMoves, vars
  <2> QED
    BY <1>1, <2>1
<1> QED
  BY <1>3, <1>4, <1>5, <1>6 DEF Next

(* The double credit of FundedOnce has these causes alone: settlements of  *)
(* a conversion that overlap, and a reversal or a late answer that         *)
(* overwrites its COMPLETED.  While there are none, it is credited once.   *)
THEOREM DoubleCreditNeedsRace == Spec /\ []SettlesApart => []FundedOnce
<1>1. Init => SettlesOnce /\ FundedOnce
  <2>1. ASSUME Init, NEW w \in Wallets, NEW i \in DOMAIN ledger[w]
        PROVE  FALSE
    BY <2>1 DEF Init, BookInit
  <2> QED
    BY <2>1, ConversionAssumption DEF Init, SettlesOnce, FundedOnce, Idle
<1>2. ConversionsInv /\ SettlesApart /\ SettlesOnce /\ FundedOnce /\ [Next]_vars
        => SettlesOnce' /\ FundedOnce'
  BY SettlesStep
<1> QED
  BY <1>1, <1>2, Invariance, PTL DEF Spec

=============================================================================
