--------------------------- MODULE DepositsProofs ---------------------------
(***************************************************************************)
(* The properties of Deposits for any number of wallets, deposits and      *)
(* concurrent calls.                                                       *)
(***************************************************************************)
EXTENDS DepositsInvariant, WalletBookProofs

Call == [pc : Steps, deposit : Deposits \cup {None},
         event : Events \cup {None}, seen : ProviderStatus]

DepositEvents == {"deposit.completed", "deposit.failed"}

(* Only task t moves, and serves the event it served, a new one or none.   *)
TaskMoves(t) ==
  /\ task' \in [Tasks -> Call]
  /\ \A u \in Tasks \ {t} : task'[u] = task[u]
  /\ \/ task'[t].event = None
     \/ task'[t].event = task[t].event /\ task'[t].deposit = task[t].deposit
     \/ log[task'[t].deposit][task'[t].event] = "NONE"

(* A log row is never removed.                                             *)
LogKept ==
  \A d \in Deposits, e \in Events : log[d][e] # "NONE" => log'[d][e] # "NONE"

(* What the provider has once reported stays reported.                     *)
HistoryKept ==
  \A d \in Deposits :
    /\ provider[d] # <<>> => provider'[d] # <<>>
    /\ Reported(d, "completed") => Reported(d, "completed")'

LEMMA GotoMoves ==
  ASSUME TypeOK, NEW t \in Tasks, NEW step \in Steps, Goto(t, step)
  PROVE  /\ TaskMoves(t)
         /\ task'[t].pc = step
         /\ task'[t].deposit = task[t].deposit
         /\ task'[t].event = task[t].event
<1>1. task \in [Tasks -> Call]
  BY DEF TypeOK, Call
<1>2. task' = [task EXCEPT ![t].pc = step]
  BY DEF Goto
<1>3. task' \in [Tasks -> Call]
  BY <1>1, <1>2 DEF Call
<1> QED
  BY <1>1, <1>2, <1>3 DEF TaskMoves

LEMMA LeaveMoves ==
  ASSUME TypeOK, NEW t \in Tasks, Leave(t)
  PROVE  TaskMoves(t) /\ task'[t] = Idle
<1>1. task \in [Tasks -> Call]
  BY DEF TypeOK, Call
<1>2. Idle \in Call /\ Idle.event = None
  BY DEF Idle, Call, Steps, ProviderStatus
<1>3. task' = [task EXCEPT ![t] = Idle]
  BY DEF Leave
<1> QED
  BY <1>1, <1>2, <1>3 DEF TaskMoves

LEMMA BeginMoves ==
  ASSUME TypeOK, NEW t \in Tasks, NEW step \in Steps, NEW d \in Deposits,
         NEW e \in Events \cup {None}, Begin(t, step, d, e),
         e = None \/ log[d][e] = "NONE"
  PROVE  /\ TaskMoves(t)
         /\ task'[t].pc = step /\ task'[t].deposit = d /\ task'[t].event = e
<1> DEFINE new == [pc |-> step, deposit |-> d, event |-> e, seen |-> "pending"]
<1>1. task \in [Tasks -> Call]
  BY DEF TypeOK, Call
<1>2. /\ new \in Call
      /\ new.pc = step /\ new.deposit = d /\ new.event = e
  BY DEF Call, ProviderStatus
<1>3. task' = [task EXCEPT ![t] = new]
  BY DEF Begin
<1> HIDE DEF new
<1> QED
  BY <1>1, <1>2, <1>3 DEF TaskMoves

(* A task that has left knows nothing.                                     *)
LEMMA IdleTask ==
  ASSUME NEW t \in Tasks, task'[t] = Idle
  PROVE  TaskInv(t)' /\ \A d \in Deposits : ~ AtAnnounceCompleted(t, d)'
BY DEF Idle, TaskInv, AtAnnounceCompleted

(* What the other tasks know stays true, and their events stay theirs.     *)
LEMMA TasksKeep ==
  ASSUME TypeOK, TasksInv, LogKept, HistoryKept,
         NEW t \in Tasks, TaskMoves(t), TaskInv(t)'
  PROVE  TasksInv'
<1>1. ASSUME NEW u \in Tasks
      PROVE  TaskInv(u)'
  <2>1. CASE u = t
    BY <2>1
  <2>2. CASE u # t
    <3>1. task'[u] = task[u] /\ TaskInv(u) /\ task[u].event \in Events \cup {None}
      BY <2>2 DEF TaskMoves, TasksInv, TypeOK
    <3> QED
      BY <3>1 DEF TaskInv, LogKept, HistoryKept
  <2> QED
    BY <2>1, <2>2
<1>2. OneTaskPerEvent'
  <2>1. \A u \in Tasks \ {t} :
          /\ task'[u] = task[u]
          /\ task[u].event # None => log[task[u].deposit][task[u].event] # "NONE"
    BY DEF TaskMoves, TasksInv, TaskInv
  <2> QED
    BY <2>1 DEF TaskMoves, TasksInv, OneTaskPerEvent
<1> QED
  BY <1>1, <1>2 DEF TasksInv

(* Nobody comes to announce what has been told.                            *)
LEMMA ToldKeep ==
  ASSUME TypeOK, ToldInv, LogKept, UNCHANGED announced, funded \subseteq funded',
         NEW t \in Tasks, TaskMoves(t),
         \A d \in Deposits : AtAnnounceCompleted(t, d)' => AtAnnounceCompleted(t, d)
  PROVE  ToldInv'
<1>1. AnnouncedOnce'
  BY DEF ToldInv, AnnouncedOnce
<1>2. \A d \in Deposits, u \in Tasks :
        AtAnnounceCompleted(u, d)' => AtAnnounceCompleted(u, d)
  BY DEF TaskMoves, AtAnnounceCompleted
<1>3. \A d \in Deposits, event \in DepositEvents : Told(d, event)' <=> Told(d, event)
  BY DEF Told
<1>4. ASSUME NEW d \in Deposits, Told(d, "deposit.failed"), NEW u \in Tasks
      PROVE  ~ (task'[u].deposit = d /\ task'[u].event = "PAYIN_FAILED")
  <2>1. log[d]["PAYIN_FAILED"] # "NONE"
        /\ ~ (task[u].deposit = d /\ task[u].event = "PAYIN_FAILED")
    BY <1>4 DEF ToldInv
  <2>2. CASE u # t
    BY <2>1, <2>2 DEF TaskMoves
  <2>3. CASE u = t
    BY <2>1, <2>3, DepositAssumption DEF TaskMoves
  <2> QED
    BY <2>2, <2>3
<1> QED
  BY <1>1, <1>2, <1>3, <1>4 DEF ToldInv, LogKept, DepositEvents, Events

LEMMA RowsFrame ==
  ASSUME RowsAgree, UNCHANGED <<bookVars, deposit, funded, earned, provider, sent>>
  PROVE  RowsAgree'
BY BookFrame DEF RowsAgree, Reported

(* The provider's word on a payin it has opened.                           *)
LEMMA CurrentReported ==
  ASSUME TypeOK, NEW d \in Deposits, provider[d] # <<>>
  PROVE  Current(d) \in ProviderStatus /\ Reported(d, Current(d))
<1>1. provider[d] \in Seq(ProviderStatus)
  BY DEF TypeOK
<1>2. Len(provider[d]) \in DOMAIN provider[d]
  BY <1>1
<1> QED
  BY <1>1, <1>2 DEF Current, Reported

LEMMA InitInv == Init => DepositsInv
<1> SUFFICES ASSUME Init PROVE DepositsInv
  OBVIOUS
<1> USE DepositAssumption, WalletAssumption DEF Init, BookInit
<1>1. TypeOK
  BY DEF TypeOK, Idle, Entries, DepositStatus, LogStatus, ProviderStatus, Steps,
         Places
<1>2. \A s : ~ Posted(s)
  BY DEF Posted
<1>3. LedgerExplainsBalance /\ NothingPostedTwice
  BY DEF LedgerExplainsBalance, BalanceAt, NothingPostedTwice
<1>4. RowsAgree
  BY <1>2 DEF RowsAgree
<1>5. ProcessedMeansApplied
  BY DEF ProcessedMeansApplied, Events
<1>6. TasksInv
  BY DEF TasksInv, TaskInv, OneTaskPerEvent, Idle
<1>7. ToldInv
  BY DEF ToldInv, AnnouncedOnce, Told, AtAnnounceCompleted, Idle
<1> QED
  BY <1>1, <1>3, <1>4, <1>5, <1>6, <1>7 DEF DepositsInv

-----------------------------------------------------------------------------
(* Steps that touch no row                                                 *)

LEMMA QuietStep ==
  ASSUME DepositsInv, UNCHANGED <<bookVars, dbVars, externalVars>>,
         NEW t \in Tasks, TaskMoves(t), TaskInv(t)',
         \A d \in Deposits : AtAnnounceCompleted(t, d)' => AtAnnounceCompleted(t, d)
  PROVE  DepositsInv'
<1>1. TypeOK'
  BY DEF DepositsInv, TypeOK, TaskMoves, Call, bookVars, dbVars, externalVars
<1>2. LogKept /\ HistoryKept
  BY DEF LogKept, HistoryKept, Reported, dbVars, externalVars
<1>3. TasksInv'
  BY <1>2, TasksKeep DEF DepositsInv
<1>4. ToldInv'
  BY <1>2, ToldKeep DEF DepositsInv, dbVars
<1>5. LedgerExplainsBalance' /\ NothingPostedTwice' /\ RowsAgree'
  BY BookFrame, RowsFrame DEF DepositsInv, dbVars, externalVars
<1>6. ProcessedMeansApplied'
  BY BookFrame DEF DepositsInv, ProcessedMeansApplied, dbVars
<1> QED
  BY <1>1, <1>3, <1>4, <1>5, <1>6 DEF DepositsInv

LEMMA QuietSteps ==
  ASSUME DepositsInv, NEW t \in Tasks,
         \/ \E d \in Deposits : StartCreate(t, d) \/ StartReconcile(t, d)
         \/ AskProvider(t) \/ AskProviderFails(t)
         \/ DispatchFails(t) \/ VerifyPayin(t) \/ Crash(t)
  PROVE  DepositsInv'
<1>t. TypeOK /\ TaskInv(t) /\ task \in [Tasks -> Call]
  BY DEF DepositsInv, TasksInv, TypeOK, Call
<1>u. UNCHANGED <<bookVars, dbVars, externalVars>>
  BY DEF StartCreate, StartReconcile, AskProvider, AskProviderFails,
         DispatchFails, VerifyPayin, Crash
<1>r. \A d, status : Reported(d, status)' <=> Reported(d, status)
  BY <1>u DEF Reported, externalVars
<1> DEFINE Quiet == /\ TaskMoves(t) /\ TaskInv(t)'
                    /\ \A d \in Deposits : ~ AtAnnounceCompleted(t, d)'
<1>1. ASSUME Leave(t)
      PROVE  Quiet
  BY <1>1, <1>t, LeaveMoves, IdleTask
<1>2. ASSUME NEW d \in Deposits, StartCreate(t, d) \/ StartReconcile(t, d)
      PROVE  Quiet
  <2>1. PICK step \in {"checkout", "ask"} :
          /\ Begin(t, step, d, None)
          /\ step = "ask" => deposit[d] = "PENDING"
    BY <1>2 DEF StartCreate, StartReconcile
  <2>2. /\ TaskMoves(t) /\ task'[t].pc = step
        /\ task'[t].deposit = d /\ task'[t].event = None
    BY <2>1, <1>t, BeginMoves DEF Steps
  <2>3. step = "ask" => provider'[d] # <<>>
    BY <2>1, <1>u DEF DepositsInv, RowsAgree, externalVars
  <2> QED
    BY <2>2, <2>3 DEF TaskInv, AtAnnounceCompleted
<1>3. ASSUME AskProvider(t)
      PROVE  Quiet
  <2>1. PICK d \in Deposits : /\ d = task[t].deposit /\ provider[d] # <<>>
                              /\ task[t].pc = "ask"
    BY <1>3, <1>t DEF AskProvider, TaskInv
  <2>2. Current(d) \in ProviderStatus /\ Reported(d, Current(d))
    BY <2>1, <1>t, CurrentReported
  <2>3. CASE Paid(Current(d)) /\ Goto(t, "readCredit")
    <3>1. Reported(d, "completed")'
      BY <2>2, <2>3, <1>r DEF Paid
    <3>2. /\ TaskMoves(t) /\ task'[t].pc = "readCredit"
          /\ task'[t].deposit = d /\ task'[t].event = task[t].event
      BY <2>1, <2>3, <1>t, GotoMoves DEF Steps
    <3> QED
      BY <2>1, <3>1, <3>2, <1>t, <1>u DEF TaskInv, AtAnnounceCompleted, dbVars
  <2>4. CASE task' = [task EXCEPT ![t].pc = "markFailed", ![t].seen = Current(d)]
    <3>1. task' \in [Tasks -> Call]
      BY <2>2, <2>4, <1>t DEF Call, Steps
    <3>2. /\ task'[t].pc = "markFailed" /\ task'[t].deposit = d
          /\ task'[t].event = task[t].event
      BY <2>1, <2>4, <1>t DEF Call
    <3>3. TaskMoves(t)
      BY <2>1, <2>4, <3>1, <3>2, <1>t DEF TaskMoves
    <3> QED
      BY <2>1, <3>2, <3>3, <1>t, <1>u
         DEF TaskInv, AtAnnounceCompleted, dbVars, externalVars
  <2> QED
    BY <1>3, <2>1, <2>3, <2>4 DEF AskProvider
<1>4. ASSUME Goto(t, "failLog"), task[t].pc # "idle"
      PROVE  Quiet
  BY <1>4, <1>t, <1>u, GotoMoves DEF TaskInv, AtAnnounceCompleted, Steps, dbVars
<1>5. ASSUME VerifyPayin(t), Goto(t, "readCredit"), Paid(Current(task[t].deposit))
      PROVE  Quiet
  <2>1. PICK d \in Deposits : /\ d = task[t].deposit /\ provider[d] # <<>>
                              /\ task[t].pc = "verify"
    BY <1>5, <1>t DEF VerifyPayin, TaskInv
  <2>2. Reported(d, "completed")'
    BY <2>1, <1>5, <1>t, <1>r, CurrentReported DEF Paid
  <2>3. /\ TaskMoves(t) /\ task'[t].pc = "readCredit"
        /\ task'[t].deposit = d /\ task'[t].event = task[t].event
    BY <2>1, <1>5, <1>t, GotoMoves DEF Steps
  <2> QED
    BY <2>1, <2>2, <2>3, <1>t, <1>u DEF TaskInv, AtAnnounceCompleted, dbVars
<1>6. Quiet
  BY <1>1, <1>2, <1>3, <1>4, <1>5 DEF AskProviderFails, DispatchFails, VerifyPayin, Crash
<1> QED
  BY <1>6, <1>u, QuietStep

-----------------------------------------------------------------------------
(* Steps of the log                                                        *)

(* What marking the event of a task does: its row, if any, changes.        *)
LEMMA LoggedMarks ==
  ASSUME TypeOK, NEW t \in Tasks, TaskInv(t), NEW status \in LogStatus \ {"NONE"},
         log' = Logged(t, status)
  PROVE  /\ log' \in [Deposits -> [Events -> LogStatus]]
         /\ LogKept
         /\ \A d \in Deposits, e \in Events :
              \/ log'[d][e] = log[d][e]
              \/ log'[d][e] = status /\ d = task[t].deposit /\ e = task[t].event
<1>1. CASE task[t].event = None
  BY <1>1 DEF Logged, TypeOK, LogKept
<1>2. CASE task[t].event # None
  <2>1. task[t].deposit \in Deposits /\ task[t].event \in Events
    BY <1>2 DEF TaskInv, TypeOK
  <2>2. log' = [log EXCEPT ![task[t].deposit][task[t].event] = status]
    BY <1>2 DEF Logged
  <2>3. log \in [Deposits -> [Events -> LogStatus]]
    BY DEF TypeOK
  <2>4. log' \in [Deposits -> [Events -> LogStatus]]
    BY <2>1, <2>2, <2>3
  <2>5. \A d \in Deposits, e \in Events :
          log'[d][e] = IF d = task[t].deposit /\ e = task[t].event
                         THEN status ELSE log[d][e]
    BY <2>1, <2>2, <2>3
  <2> QED
    BY <2>4, <2>5 DEF LogKept
<1> QED
  BY <1>1, <1>2

(* A step that only marks the event of its task, and ends the task.        *)
LEMMA MarkStep ==
  ASSUME DepositsInv, NEW t \in Tasks, Leave(t),
         UNCHANGED <<bookVars, deposit, funded, earned, announced, externalVars>>,
         NEW status \in LogStatus \ {"NONE"}, log' = Logged(t, status),
         status = "PROCESSED" =>
           \/ task[t].event = None
           \/ /\ deposit[task[t].deposit] \in Terminal
              /\ \/ task[t].event = "PAYIN_FAILED"
                 \/ Posted(Source(task[t].deposit, "funding"))
  PROVE  DepositsInv'
<1>t. TypeOK /\ TaskInv(t)
  BY DEF DepositsInv, TasksInv
<1>m. /\ TaskMoves(t) /\ TaskInv(t)'
      /\ \A d \in Deposits : ~ AtAnnounceCompleted(t, d)'
  BY <1>t, LeaveMoves, IdleTask
<1>l. /\ log' \in [Deposits -> [Events -> LogStatus]] /\ LogKept
      /\ \A d \in Deposits, e \in Events :
           \/ log'[d][e] = log[d][e]
           \/ log'[d][e] = status /\ d = task[t].deposit /\ e = task[t].event
  BY <1>t, LoggedMarks
<1>h. HistoryKept
  BY DEF HistoryKept, Reported, externalVars
<1>1. TypeOK'
  BY <1>t, <1>m, <1>l DEF TypeOK, TaskMoves, Call, bookVars, externalVars
<1>2. TasksInv'
  BY <1>l, <1>h, <1>m, TasksKeep DEF DepositsInv
<1>3. ToldInv'
  BY <1>l, <1>m, ToldKeep DEF DepositsInv
<1>4. LedgerExplainsBalance' /\ NothingPostedTwice' /\ RowsAgree'
  BY BookFrame, RowsFrame DEF DepositsInv, externalVars
<1>5. ProcessedMeansApplied'
  <2>1. \A d \in Deposits : \A e \in Events :
          /\ log'[d][e] = "PROCESSED" /\ log[d][e] # "PROCESSED"
          => /\ status = "PROCESSED" /\ d = task[t].deposit /\ e = task[t].event
             /\ task[t].event # None
    BY <1>l, DepositAssumption DEF Events
  <2>2. \A d \in Deposits :
          /\ deposit'[d] = deposit[d]
          /\ Posted(Source(d, "funding"))' <=> Posted(Source(d, "funding"))
    BY BookFrame
  <2> QED
    BY <2>1, <2>2 DEF DepositsInv, ProcessedMeansApplied, Events
<1> QED
  BY <1>1, <1>2, <1>3, <1>4, <1>5 DEF DepositsInv

LEMMA MarkSteps ==
  ASSUME DepositsInv, NEW t \in Tasks,
         ReadForCredit(t) \/ ReadForFailure(t) \/ MarkWebhookFailed(t)
  PROVE  DepositsInv'
<1>t. TypeOK /\ TaskInv(t) /\ task \in [Tasks -> Call]
  BY DEF DepositsInv, TasksInv, TypeOK, Call
<1>u. UNCHANGED <<bookVars, deposit, funded, earned, announced, externalVars>>
  BY DEF ReadForCredit, ReadForFailure, MarkWebhookFailed
<1>1. CASE MarkWebhookFailed(t)
  BY <1>1, <1>u, MarkStep DEF MarkWebhookFailed, LogStatus
<1>2. CASE /\ log' = Logged(t, "PROCESSED") /\ Leave(t)
           /\ ReadForCredit(t) \/ ReadForFailure(t)
           /\ task[t].pc \in {"readCredit", "readFailure"}
           /\ deposit[task[t].deposit] = "COMPLETED"
  <2>1. /\ deposit[task[t].deposit] \in Terminal
        /\ Posted(Source(task[t].deposit, "funding"))
    BY <1>2, <1>t DEF DepositsInv, RowsAgree, TaskInv, Terminal
  <2> QED
    BY <1>2, <1>u, <2>1, MarkStep DEF LogStatus
<1>3. CASE /\ log' = Logged(t, "PROCESSED") /\ Leave(t)
           /\ task[t].pc = "readFailure"
           /\ deposit[task[t].deposit] = "FAILED"
  <2>1. /\ deposit[task[t].deposit] \in Terminal
        /\ task[t].event = "PAYIN_FAILED"
    BY <1>3, <1>t DEF TaskInv, Terminal
  <2> QED
    BY <1>3, <1>u, <2>1, MarkStep DEF LogStatus
<1>4. CASE /\ UNCHANGED log
           /\ \/ /\ task[t].pc = "readCredit"
                 /\ Goto(t, "credit") \/ Goto(t, "failLog")
              \/ /\ task[t].pc = "readFailure"
                 /\ Goto(t, "failLog") \/ Goto(t, "writeFailure")
  <2>1. PICK step \in {"credit", "failLog", "writeFailure"} :
          /\ Goto(t, step)
          /\ step = "credit" => task[t].pc = "readCredit"
          /\ step = "writeFailure" => task[t].pc = "readFailure"
          /\ task[t].pc # "idle"
    BY <1>4
  <2>2. /\ TaskMoves(t) /\ task'[t].pc = step
        /\ task'[t].deposit = task[t].deposit /\ task'[t].event = task[t].event
    BY <2>1, <1>t, GotoMoves DEF Steps
  <2>3. TaskInv(t)' /\ \A d \in Deposits : ~ AtAnnounceCompleted(t, d)'
    <3>1. \A d, status : Reported(d, status)' <=> Reported(d, status)
      BY <1>u DEF Reported, externalVars
    <3> QED
      BY <1>4, <1>u, <2>1, <2>2, <3>1, <1>t
         DEF TaskInv, AtAnnounceCompleted, externalVars
  <2> QED
    BY <1>4, <1>u, <2>2, <2>3, QuietStep DEF dbVars
<1> QED
  BY <1>1, <1>2, <1>3, <1>4 DEF ReadForCredit, ReadForFailure

(* An event is let in once, and comes with a payin.                        *)
LEMMA AcceptWebhookKeepsInv ==
  ASSUME DepositsInv, NEW t \in Tasks, NEW d \in Deposits, NEW e \in Events,
         AcceptWebhook(t, d, e)
  PROVE  DepositsInv'
<1>t. TypeOK /\ task \in [Tasks -> Call]
  BY DEF DepositsInv, TypeOK, Call
<1>1. /\ UNCHANGED <<bookVars, deposit, funded, earned, announced, externalVars>>
      /\ log[d][e] = "NONE" /\ log' = [log EXCEPT ![d][e] = "PROCESSING"]
      /\ provider[d] # <<>>
  BY DEF AcceptWebhook, FirstDelivery, DepositsInv, RowsAgree
<1>2. /\ log' \in [Deposits -> [Events -> LogStatus]]
      /\ \A c \in Deposits, f \in Events :
           log'[c][f] = IF c = d /\ f = e THEN "PROCESSING" ELSE log[c][f]
  BY <1>1, <1>t DEF TypeOK, LogStatus
<1>3. LogKept /\ HistoryKept
  BY <1>1, <1>2 DEF LogKept, HistoryKept, Reported, externalVars
<1>4. /\ TaskMoves(t)
      /\ task'[t].pc = HandlerOf(e) /\ task'[t].deposit = d /\ task'[t].event = e
  BY <1>1, <1>t, BeginMoves DEF AcceptWebhook, HandlerOf, Steps
<1>5. TaskInv(t)' /\ \A c \in Deposits : ~ AtAnnounceCompleted(t, c)'
  BY <1>1, <1>2, <1>4 DEF TaskInv, AtAnnounceCompleted, HandlerOf, Events, externalVars
<1>6. TypeOK'
  BY <1>t, <1>1, <1>2, <1>4 DEF TypeOK, TaskMoves, Call, bookVars, externalVars
<1>7. TasksInv' /\ ToldInv'
  BY <1>1, <1>3, <1>4, <1>5, TasksKeep, ToldKeep DEF DepositsInv
<1>8. LedgerExplainsBalance' /\ NothingPostedTwice' /\ RowsAgree'
  BY <1>1, BookFrame, RowsFrame DEF DepositsInv, externalVars
<1>9. ProcessedMeansApplied'
  <2>1. \A c \in Deposits, f \in Events :
          log'[c][f] = "PROCESSED" => log[c][f] = "PROCESSED"
    BY <1>2
  <2>2. \A c \in Deposits :
          /\ deposit'[c] = deposit[c]
          /\ Posted(Source(c, "funding"))' <=> Posted(Source(c, "funding"))
    BY <1>1, BookFrame
  <2> QED
    BY <2>1, <2>2 DEF DepositsInv, ProcessedMeansApplied, Events
<1> QED
  BY <1>6, <1>7, <1>8, <1>9 DEF DepositsInv

-----------------------------------------------------------------------------
(* Steps of the provider                                                   *)

(* A payin opens or moves on; at most one task moves with it.              *)
LEMMA ProviderStep ==
  ASSUME DepositsInv, UNCHANGED <<bookVars, dbVars>>,
         provider' \in [Deposits -> Seq(ProviderStatus)], HistoryKept,
         sent' \subseteq Deposits \X Events,
         place' \in [Deposits -> Places],
         \A d \in Deposits, e \in Events :
           <<d, e>> \in sent' => <<d, e>> \in sent \/ provider'[d] # <<>>,
         \/ UNCHANGED task
         \/ \E t \in Tasks : /\ TaskMoves(t) /\ TaskInv(t)'
                             /\ \A d \in Deposits : ~ AtAnnounceCompleted(t, d)'
  PROVE  DepositsInv'
<1>1. TypeOK'
  BY DEF DepositsInv, TypeOK, TaskMoves, Call, bookVars, dbVars
<1>2. LedgerExplainsBalance' /\ NothingPostedTwice' /\ ProcessedMeansApplied'
  BY BookFrame DEF DepositsInv, ProcessedMeansApplied, dbVars
<1>3. RowsAgree'
  BY BookFrame DEF DepositsInv, RowsAgree, HistoryKept, dbVars
<1>4. CASE UNCHANGED task
  <2>1. TasksInv'
    <3>1. ASSUME NEW t \in Tasks
          PROVE  TaskInv(t)'
      <4>1. TaskInv(t)
        BY DEF DepositsInv, TasksInv
      <4> QED
        BY <1>4, <4>1 DEF TaskInv, HistoryKept, dbVars
    <3>2. OneTaskPerEvent'
      BY <1>4 DEF DepositsInv, TasksInv, OneTaskPerEvent
    <3> QED
      BY <3>1, <3>2 DEF TasksInv
  <2>2. ToldInv'
    BY <1>4 DEF DepositsInv, ToldInv, AnnouncedOnce, Told, AtAnnounceCompleted, dbVars
  <2> QED
    BY <1>1, <1>2, <1>3, <2>1, <2>2 DEF DepositsInv
<1>5. CASE \E t \in Tasks : /\ TaskMoves(t) /\ TaskInv(t)'
                            /\ \A d \in Deposits : ~ AtAnnounceCompleted(t, d)'
  <2>1. LogKept
    BY DEF LogKept, dbVars
  <2>2. TasksInv' /\ ToldInv'
    BY <1>5, <2>1, TasksKeep, ToldKeep DEF DepositsInv, dbVars
  <2> QED
    BY <1>1, <1>2, <1>3, <2>2 DEF DepositsInv
<1> QED
  BY <1>4, <1>5

LEMMA CreateCheckoutKeepsInv ==
  ASSUME DepositsInv, NEW t \in Tasks, CreateCheckout(t)
  PROVE  DepositsInv'
<1>t. /\ TypeOK /\ TaskInv(t) /\ task \in [Tasks -> Call]
      /\ provider \in [Deposits -> Seq(ProviderStatus)]
      /\ sent \subseteq Deposits \X Events
      /\ place \in [Deposits -> Places]
  BY DEF DepositsInv, TasksInv, TypeOK, Call
<1>u. UNCHANGED <<bookVars, dbVars, sent, place>>
  BY DEF CreateCheckout
<1>1. PICK d \in Deposits : d = task[t].deposit /\ task[t].pc = "checkout"
  BY <1>t DEF CreateCheckout, TaskInv
<1>2. /\ provider' \in [Deposits -> Seq(ProviderStatus)]
      /\ \A c \in Deposits : provider[c] # <<>> => provider'[c] = provider[c]
      /\ \/ Leave(t)
         \/ Goto(t, "insert") /\ provider'[d] # <<>>
  <2>1. CASE Goto(t, "insert") /\ provider' = IF provider[d] = <<>>
               THEN [provider EXCEPT ![d] = <<"pending">>] ELSE provider
    <3>1. <<"pending">> \in Seq(ProviderStatus)
      BY DEF ProviderStatus
    <3> QED
      BY <2>1, <3>1, <1>t
  <2>2. CASE Leave(t) /\ UNCHANGED provider
    BY <2>2, <1>t
  <2> QED
    BY <1>1, <2>1, <2>2 DEF CreateCheckout
<1>3. HistoryKept
  <2>1. \A c \in Deposits : Reported(c, "completed") => provider[c] # <<>>
    BY DEF Reported
  <2> QED
    BY <1>2, <2>1 DEF HistoryKept, Reported
<1>4. /\ TaskMoves(t) /\ TaskInv(t)'
      /\ \A c \in Deposits : ~ AtAnnounceCompleted(t, c)'
  <2>1. CASE Leave(t)
    BY <2>1, <1>t, LeaveMoves, IdleTask
  <2>2. CASE Goto(t, "insert") /\ provider'[d] # <<>>
    BY <2>2, <1>1, <1>t, <1>u, GotoMoves DEF TaskInv, AtAnnounceCompleted, Steps, dbVars
  <2> QED
    BY <1>2, <2>1, <2>2
<1> QED
  BY <1>t, <1>u, <1>2, <1>3, <1>4, ProviderStep

LEMMA ProviderMovesKeepsInv ==
  ASSUME DepositsInv, NEW d \in Deposits, NEW status \in ProviderStatus,
         ProviderMoves(d, status)
  PROVE  DepositsInv'
<1>t. /\ provider \in [Deposits -> Seq(ProviderStatus)]
      /\ sent \subseteq Deposits \X Events
      /\ place \in [Deposits -> Places]
  BY DEF DepositsInv, TypeOK
<1>1. /\ UNCHANGED <<bookVars, dbVars, place, task>>
      /\ provider' = [provider EXCEPT ![d] = Append(@, status)]
      /\ sent' \subseteq sent \cup {<<d, "PAYIN_RECEIVED">>, <<d, "PAYIN_FAILED">>}
  BY DEF ProviderMoves
<1>2. /\ provider' \in [Deposits -> Seq(ProviderStatus)]
      /\ provider'[d] # <<>>
      /\ \A c \in Deposits \ {d} : provider'[c] = provider[c]
      /\ \A i \in DOMAIN provider[d] :
           i \in DOMAIN provider'[d] /\ provider'[d][i] = provider[d][i]
  BY <1>t, <1>1
<1>3. HistoryKept
  BY <1>2 DEF HistoryKept, Reported
<1>4. /\ sent' \subseteq Deposits \X Events
      /\ \A c \in Deposits, e \in Events :
           <<c, e>> \in sent' => <<c, e>> \in sent \/ provider'[c] # <<>>
  BY <1>t, <1>1, <1>2 DEF Events
<1> QED
  BY <1>t, <1>1, <1>2, <1>3, <1>4, ProviderStep

-----------------------------------------------------------------------------
(* Steps that change a status                                              *)

(* A deposit with a payin gets a status other than COMPLETED; a settled    *)
(* one stays settled, and a failure that is logged is a settled deposit.   *)
LEMMA StatusStep ==
  ASSUME DepositsInv, UNCHANGED <<bookVars, funded, earned, announced, externalVars>>,
         NEW t \in Tasks, TaskMoves(t), TaskInv(t)',
         \A c \in Deposits : ~ AtAnnounceCompleted(t, c)',
         log' \in [Deposits -> [Events -> LogStatus]], LogKept,
         NEW d \in Deposits, provider[d] # <<>>,
         NEW status \in DepositStatus \ {"NONE", "COMPLETED"},
         deposit' = [deposit EXCEPT ![d] = status],
         deposit[d] \in Terminal => status \in Terminal,
         \A c \in Deposits, e \in Events :
           log'[c][e] = "PROCESSED" =>
             \/ log[c][e] = "PROCESSED"
             \/ c = d /\ e = "PAYIN_FAILED" /\ status \in Terminal
  PROVE  DepositsInv'
<1>t. TypeOK
  BY DEF DepositsInv
<1>1. /\ deposit' \in [Deposits -> DepositStatus]
      /\ deposit'[d] = status
      /\ \A c \in Deposits \ {d} : deposit'[c] = deposit[c]
  BY <1>t DEF TypeOK
<1>2. TypeOK'
  BY <1>t, <1>1 DEF TypeOK, TaskMoves, Call, bookVars, externalVars
<1>3. HistoryKept
  BY DEF HistoryKept, Reported, externalVars
<1>4. TasksInv' /\ ToldInv'
  BY <1>t, <1>3, TasksKeep, ToldKeep DEF DepositsInv
<1>5. LedgerExplainsBalance' /\ NothingPostedTwice'
  BY BookFrame DEF DepositsInv
<1>6. \A s : Posted(s)' <=> Posted(s)
  BY BookFrame
<1>7. RowsAgree'
  <2>1. \A c, s : Reported(c, s)' <=> Reported(c, s)
    BY DEF Reported, externalVars
  <2>2. \A c \in Deposits : deposit[c] \in Terminal => deposit'[c] \in Terminal
    BY <1>1
  <2>3. \A c \in Deposits : deposit'[c] = "COMPLETED" => deposit[c] = "COMPLETED"
    BY <1>1
  <2>4. \A c \in Deposits : deposit'[c] # "NONE" => provider[c] # <<>>
    BY <1>1 DEF DepositsInv, RowsAgree
  <2> QED
    BY <1>6, <2>1, <2>2, <2>3, <2>4 DEF DepositsInv, RowsAgree, externalVars
<1>8. ProcessedMeansApplied'
  BY <1>1, <1>6 DEF DepositsInv, ProcessedMeansApplied, Events
<1> QED
  BY <1>2, <1>4, <1>5, <1>7, <1>8 DEF DepositsInv

(* A task that ends without a change of status.                            *)
LEMMA EndStep ==
  ASSUME DepositsInv, NEW t \in Tasks, Leave(t),
         UNCHANGED <<bookVars, dbVars, externalVars>>
  PROVE  DepositsInv'
<1>1. TypeOK
  BY DEF DepositsInv
<1> QED
  BY <1>1, LeaveMoves, IdleTask, QuietStep

LEMMA InsertDepositKeepsInv ==
  ASSUME DepositsInv, NEW t \in Tasks, InsertDeposit(t)
  PROVE  DepositsInv'
<1>t. TypeOK /\ TaskInv(t)
  BY DEF DepositsInv, TasksInv
<1>1. PICK d \in Deposits : d = task[t].deposit /\ provider[d] # <<>>
  BY <1>t DEF InsertDeposit, TaskInv
<1>2. CASE UNCHANGED deposit
  BY <1>2, EndStep DEF InsertDeposit, dbVars
<1>3. CASE deposit[d] = "NONE" /\ deposit' = [deposit EXCEPT ![d] = "PENDING"]
  <2>1. /\ TaskMoves(t) /\ TaskInv(t)'
        /\ \A c \in Deposits : ~ AtAnnounceCompleted(t, c)'
    BY <1>t, LeaveMoves, IdleTask DEF InsertDeposit
  <2>2. /\ log' \in [Deposits -> [Events -> LogStatus]] /\ LogKept
        /\ UNCHANGED <<bookVars, funded, earned, log, announced, externalVars>>
    BY <1>t DEF InsertDeposit, TypeOK, LogKept
  <2>3. "PENDING" \in DepositStatus \ {"NONE", "COMPLETED"} /\ deposit[d] \notin Terminal
    BY <1>3 DEF DepositStatus, Terminal
  <2> QED
    BY <1>1, <1>3, <2>1, <2>2, <2>3, StatusStep
<1> QED
  BY <1>1, <1>2, <1>3 DEF InsertDeposit, DepositInsertable

LEMMA MarkReconciledFailedKeepsInv ==
  ASSUME DepositsInv, NEW t \in Tasks, MarkReconciledFailed(t)
  PROVE  DepositsInv'
<1>t. TypeOK /\ TaskInv(t)
  BY DEF DepositsInv, TasksInv
<1>1. PICK d \in Deposits : d = task[t].deposit /\ provider[d] # <<>>
  BY <1>t DEF MarkReconciledFailed, TaskInv
<1>2. CASE UNCHANGED deposit
  BY <1>2, EndStep DEF MarkReconciledFailed, dbVars
<1>3. CASE deposit' = [deposit EXCEPT ![d] = FailedStatus(task[t].seen)]
  <2>1. /\ TaskMoves(t) /\ TaskInv(t)'
        /\ \A c \in Deposits : ~ AtAnnounceCompleted(t, c)'
    BY <1>t, LeaveMoves, IdleTask DEF MarkReconciledFailed
  <2>2. /\ log' \in [Deposits -> [Events -> LogStatus]] /\ LogKept
        /\ UNCHANGED <<bookVars, funded, earned, log, announced, externalVars>>
    BY <1>t DEF MarkReconciledFailed, TypeOK, LogKept
  <2>3. FailedStatus(task[t].seen) \in {"FAILED", "CANCELLED", "REFUNDED"}
    BY DEF FailedStatus
  <2>4. /\ FailedStatus(task[t].seen) \in DepositStatus \ {"NONE", "COMPLETED"}
        /\ FailedStatus(task[t].seen) \in Terminal
    BY <2>3 DEF DepositStatus, Terminal
  <2> QED
    BY <1>1, <1>3, <2>1, <2>2, <2>4, StatusStep
<1> QED
  BY <1>1, <1>2, <1>3 DEF MarkReconciledFailed

LEMMA WriteFailureKeepsInv ==
  ASSUME DepositsInv, NEW t \in Tasks, WriteFailure(t)
  PROVE  DepositsInv'
<1>t. TypeOK /\ TaskInv(t)
  BY DEF DepositsInv, TasksInv
<1>1. PICK d \in Deposits : /\ d = task[t].deposit /\ provider[d] # <<>>
                            /\ task[t].event = "PAYIN_FAILED"
  BY <1>t DEF WriteFailure, TaskInv
<1>2. /\ TaskMoves(t) /\ task'[t].pc = "announceFailed"
      /\ task'[t].deposit = d /\ task'[t].event = "PAYIN_FAILED"
  BY <1>t, <1>1, GotoMoves DEF WriteFailure, Steps
<1>3. /\ log' \in [Deposits -> [Events -> LogStatus]] /\ LogKept
      /\ \A c \in Deposits, e \in Events :
           \/ log'[c][e] = log[c][e]
           \/ log'[c][e] = "PROCESSED" /\ c = d /\ e = "PAYIN_FAILED"
  BY <1>t, <1>1, LoggedMarks DEF WriteFailure, LogStatus
<1>4. TaskInv(t)' /\ \A c \in Deposits : ~ AtAnnounceCompleted(t, c)'
  <2>1. log'[d]["PAYIN_FAILED"] # "NONE"
    BY <1>t, <1>1, <1>3, DepositAssumption DEF TaskInv, LogKept, Events
  <2> QED
    BY <1>2, <2>1 DEF TaskInv, AtAnnounceCompleted
<1>5. "FAILED" \in DepositStatus \ {"NONE", "COMPLETED"} /\ "FAILED" \in Terminal
  BY DEF DepositStatus, Terminal
<1>6. \A c \in Deposits, e \in Events :
        log'[c][e] = "PROCESSED" =>
          \/ log[c][e] = "PROCESSED"
          \/ c = d /\ e = "PAYIN_FAILED" /\ "FAILED" \in Terminal
  BY <1>3, <1>5
<1>7. /\ deposit' = [deposit EXCEPT ![d] = "FAILED"]
      /\ UNCHANGED <<bookVars, funded, earned, announced, externalVars>>
  BY <1>1 DEF WriteFailure
<1> QED
  BY <1>1, <1>2, <1>3, <1>4, <1>5, <1>6, <1>7, StatusStep

-----------------------------------------------------------------------------
(* The credit                                                              *)

(* The transaction row says whether the credit has been made, so it is     *)
(* made once, and by a task that then is the only one to announce it.      *)
LEMMA CreditKeepsInv ==
  ASSUME DepositsInv, NEW t \in Tasks, Credit(t)
  PROVE  DepositsInv'
<1>t. TypeOK /\ TaskInv(t)
  BY DEF DepositsInv, TasksInv
<1>1. PICK d \in Deposits : /\ d = task[t].deposit /\ Reported(d, "completed")
                            /\ task[t].pc = "credit"
  BY <1>t DEF Credit, TaskInv
<1>2. CASE d \in funded
  <2>1. /\ UNCHANGED <<bookVars, dbVars, externalVars>>
        /\ Leave(t) \/ Goto(t, "failLog")
    BY <1>1, <1>2 DEF Credit, TransactionInsertable, dbVars
  <2>2. CASE Leave(t)
    BY <2>1, <2>2, EndStep
  <2>3. CASE Goto(t, "failLog")
    <3>1. /\ TaskMoves(t) /\ task'[t].pc = "failLog"
          /\ task'[t].deposit = d /\ task'[t].event = task[t].event
      BY <2>3, <1>t, <1>1, GotoMoves DEF Steps
    <3>2. TaskInv(t)' /\ \A c \in Deposits : ~ AtAnnounceCompleted(t, c)'
      BY <2>1, <3>1, <1>1, <1>t DEF TaskInv, AtAnnounceCompleted, dbVars
    <3> QED
      BY <2>1, <3>1, <3>2, QuietStep
  <2> QED
    BY <2>1, <2>2, <2>3
<1>3. CASE d \notin funded
  <2>1. /\ Post(WalletOf[d], "CREDIT", Amount[d], Source(d, "funding"))
        /\ funded' = funded \cup {d}
        /\ earned' = earned \cup ({d} \cap FeeBearing)
        /\ deposit' = [deposit EXCEPT ![d] = "COMPLETED"]
        /\ log' = Logged(t, "PROCESSED")
        /\ Goto(t, "announceCompleted")
        /\ UNCHANGED <<announced, externalVars>>
    BY <1>1, <1>3 DEF Credit, TransactionInsertable
  <2>2. /\ log' \in [Deposits -> [Events -> LogStatus]] /\ LogKept
        /\ \A c \in Deposits, e \in Events : log'[c][e] = log[c][e] \/ c = d
    BY <2>1, <1>t, <1>1, LoggedMarks DEF LogStatus
  <2>3. HistoryKept
    BY <2>1 DEF HistoryKept, Reported, externalVars
  <2>4. /\ TaskMoves(t) /\ task'[t].pc = "announceCompleted"
        /\ task'[t].deposit = d /\ task'[t].event = task[t].event
    BY <2>1, <1>t, <1>1, GotoMoves DEF Steps
  <2>5. TaskInv(t)'
    BY <2>2, <2>4, <1>t, <1>1 DEF TaskInv, LogKept, TypeOK
  <2>6. BookType(Entries(Deposits, {"funding"}))
    BY <1>t DEF TypeOK, BookType
  <2>7. /\ WalletOf[d] \in Wallets /\ Amount[d] \in Nat /\ "CREDIT" \in EntryTypes
        /\ ~ Posted(Source(d, "funding"))
    BY <1>3, DepositAssumption DEF EntryTypes, DepositsInv, RowsAgree
  <2>8. BookType(Entries(Deposits, {"funding"}))'
    BY <2>1, <2>6, <2>7, PostTypes
  <2>9. LedgerExplainsBalance' /\ NothingPostedTwice'
    BY <2>1, <2>6, <2>7, PostExplains, PostOnce DEF DepositsInv
  <2>10. \A c \in Deposits :
           Posted(Source(c, "funding"))' <=> Posted(Source(c, "funding")) \/ c = d
    <3>1. \A c \in Deposits : Source(c, "funding") = Source(d, "funding") => c = d
      BY DEF Source
    <3> QED
      BY <2>1, <2>6, <2>7, <3>1, PostPosts
  <2>11. /\ deposit' \in [Deposits -> DepositStatus] /\ deposit'[d] = "COMPLETED"
         /\ \A c \in Deposits \ {d} : deposit'[c] = deposit[c]
    BY <2>1, <1>t DEF TypeOK, DepositStatus
  <2>12. TypeOK'
    BY <2>1, <2>2, <2>4, <2>8, <2>11, <1>t
       DEF TypeOK, TaskMoves, Call, BookType, externalVars
  <2>13. RowsAgree'
    <3>1. \A c, s : Reported(c, s)' <=> Reported(c, s)
      BY <2>1 DEF Reported, externalVars
    <3>2. provider[d] # <<>>
      BY <1>1, <1>t DEF Reported
    <3>3. ASSUME NEW c \in Deposits \ {d}
          PROVE  /\ deposit'[c] = deposit[c] /\ (c \in funded' <=> c \in funded)
                 /\ c \in earned' <=> c \in earned
                 /\ Posted(Source(c, "funding"))' <=> Posted(Source(c, "funding"))
      BY <2>1, <2>10, <2>11
    <3>4. d \in funded' /\ Posted(Source(d, "funding"))' /\ deposit'[d] \in Terminal
      BY <2>1, <2>10, <2>11 DEF Terminal
    <3> QED
      BY <1>1, <2>1, <3>1, <3>2, <3>3, <3>4 DEF DepositsInv, RowsAgree, externalVars
  <2>14. ProcessedMeansApplied'
    BY <2>2, <2>10, <2>11 DEF DepositsInv, ProcessedMeansApplied, Events, Terminal
  <2>15. TasksInv'
    BY <2>2, <2>3, <2>4, <2>5, <1>t, TasksKeep DEF DepositsInv
  <2>16. ToldInv'
    <3>0. ToldInv
      BY DEF DepositsInv
    <3>1. /\ AnnouncedOnce' /\ funded \subseteq funded'
          /\ \A c, event : Told(c, event)' <=> Told(c, event)
      BY <2>1, <3>0 DEF ToldInv, AnnouncedOnce, Told
    <3>2. \A u \in Tasks : ~ AtAnnounceCompleted(u, d)
      BY <1>3, <3>0 DEF ToldInv
    <3>3. \A u \in Tasks, c \in Deposits :
            AtAnnounceCompleted(u, c)' <=>
              IF c = d THEN u = t ELSE AtAnnounceCompleted(u, c)
      BY <2>4, <3>2, <1>1 DEF TaskMoves, AtAnnounceCompleted
    <3>4. ~ Told(d, "deposit.completed") /\ d \in funded'
      BY <1>3, <2>1, <3>0 DEF ToldInv
    <3>5. \A u \in Tasks : /\ task'[u].deposit = task[u].deposit
                           /\ task'[u].event = task[u].event
      BY <2>4, <1>1 DEF TaskMoves
    <3> QED
      BY <2>2, <3>0, <3>1, <3>3, <3>4, <3>5 DEF ToldInv, LogKept, Events
  <2> QED
    BY <2>9, <2>12, <2>13, <2>14, <2>15, <2>16 DEF DepositsInv
<1> QED
  BY <1>2, <1>3

-----------------------------------------------------------------------------
(* Announcements                                                           *)

LEMMA AnnounceTells ==
  ASSUME announced \in [Deposits -> Seq(DepositEvents)], NEW d \in Deposits,
         NEW event \in DepositEvents, Announce(d, event)
  PROVE  /\ announced' \in [Deposits -> Seq(DepositEvents)]
         /\ \A c \in Deposits, other \in DepositEvents :
              Told(c, other)' <=> Told(c, other) \/ (c = d /\ other = event)
         /\ AnnouncedOnce /\ ~ Told(d, event) => AnnouncedOnce'
<1>1. /\ announced' \in [Deposits -> Seq(DepositEvents)]
      /\ \A c \in Deposits \ {d} : announced'[c] = announced[c]
      /\ announced'[d] = Append(announced[d], event)
  BY DEF Announce
<1>2. announced[d] \in Seq(DepositEvents)
  OBVIOUS
<1>3. /\ DOMAIN announced'[d] = 1..(Len(announced[d]) + 1)
      /\ DOMAIN announced[d] = 1..Len(announced[d]) /\ Len(announced[d]) \in Nat
      /\ announced'[d][Len(announced[d]) + 1] = event
      /\ \A i \in DOMAIN announced[d] : announced'[d][i] = announced[d][i]
  BY <1>1, <1>2
<1>4. \A c \in Deposits, other \in DepositEvents :
        Told(c, other)' <=> Told(c, other) \/ (c = d /\ other = event)
  <2>1. \A other \in DepositEvents :
          Told(d, other)' <=> Told(d, other) \/ other = event
    BY <1>3 DEF Told
  <2> QED
    BY <1>1, <2>1 DEF Told
<1>5. ASSUME AnnouncedOnce, ~ Told(d, event)
      PROVE  AnnouncedOnce'
  <2>1. ASSUME NEW i \in DOMAIN announced'[d], NEW j \in DOMAIN announced'[d],
               announced'[d][i] = announced'[d][j]
        PROVE  i = j
    BY <1>3, <1>5, <2>1 DEF AnnouncedOnce, Told
  <2> QED
    BY <1>1, <1>5, <2>1 DEF AnnouncedOnce
<1> QED
  BY <1>1, <1>4, <1>5

(* The task that tells is the only one that could, and leaves.             *)
LEMMA AnnouncementsKeepInv ==
  ASSUME DepositsInv, NEW t \in Tasks, AnnounceCompleted(t) \/ AnnounceFailed(t)
  PROVE  DepositsInv'
<1>t. TypeOK /\ TaskInv(t) /\ ToldInv
      /\ announced \in [Deposits -> Seq(DepositEvents)]
  BY DEF DepositsInv, TasksInv, TypeOK, DepositEvents
<1>1. PICK d \in Deposits : d = task[t].deposit
  BY <1>t DEF AnnounceCompleted, AnnounceFailed, TaskInv
<1>2. PICK event \in DepositEvents :
        /\ Announce(d, event) /\ Leave(t)
        /\ UNCHANGED <<bookVars, deposit, funded, earned, log, externalVars>>
        /\ \/ event = "deposit.completed" /\ task[t].pc = "announceCompleted"
           \/ event = "deposit.failed" /\ task[t].pc = "announceFailed"
  BY <1>1 DEF AnnounceCompleted, AnnounceFailed, DepositEvents
<1>3. /\ TaskMoves(t) /\ task'[t] = Idle /\ TaskInv(t)'
      /\ \A c \in Deposits : ~ AtAnnounceCompleted(t, c)'
  BY <1>t, <1>2, LeaveMoves, IdleTask
<1>4. LogKept /\ HistoryKept
  BY <1>2 DEF LogKept, HistoryKept, Reported, externalVars
<1>5. TasksInv'
  BY <1>3, <1>4, <1>t, TasksKeep DEF DepositsInv
<1>6. /\ announced' \in [Deposits -> Seq(DepositEvents)]
      /\ \A c \in Deposits, other \in DepositEvents :
           Told(c, other)' <=> Told(c, other) \/ (c = d /\ other = event)
      /\ AnnouncedOnce /\ ~ Told(d, event) => AnnouncedOnce'
  BY <1>t, <1>2, AnnounceTells
<1>7. TypeOK'
  BY <1>t, <1>2, <1>3, <1>6
     DEF TypeOK, TaskMoves, Call, DepositEvents, bookVars, externalVars
<1>8. LedgerExplainsBalance' /\ NothingPostedTwice' /\ RowsAgree'
  BY <1>2, BookFrame, RowsFrame DEF DepositsInv, externalVars
<1>9. ProcessedMeansApplied'
  BY <1>2, BookFrame DEF DepositsInv, ProcessedMeansApplied
<1>10. \A u \in Tasks \ {t} : task'[u] = task[u]
  BY <1>3 DEF TaskMoves
<1>11. \A u \in Tasks, c \in Deposits :
         AtAnnounceCompleted(u, c)' <=> u # t /\ AtAnnounceCompleted(u, c)
  BY <1>3, <1>10 DEF AtAnnounceCompleted
<1>12. task'[t].event = None /\ "PAYIN_FAILED" # None
  BY <1>3, DepositAssumption DEF Idle
<1>13. CASE event = "deposit.completed"
  <2>1. AtAnnounceCompleted(t, d)
    BY <1>1, <1>2, <1>13 DEF AtAnnounceCompleted
  <2>2. d \in funded /\ ~ Told(d, event)
    BY <1>t, <1>13, <2>1 DEF ToldInv
  <2>3. \A u \in Tasks \ {t} : ~ AtAnnounceCompleted(u, d)
    BY <1>t, <2>1 DEF ToldInv
  <2>4. \A c \in Deposits : Told(c, "deposit.failed")' <=> Told(c, "deposit.failed")
    BY <1>6, <1>13 DEF DepositEvents
  <2>5. \A c \in Deposits :
          Told(c, "deposit.completed")' <=> Told(c, "deposit.completed") \/ c = d
    BY <1>6, <1>13 DEF DepositEvents
  <2>6. ToldInv'
    <3>1. AnnouncedOnce' /\ UNCHANGED <<funded, log>>
      BY <1>t, <1>2, <1>6, <2>2 DEF ToldInv
    <3>2. ASSUME NEW c \in Deposits
          PROVE  /\ Told(c, "deposit.completed")' => c \in funded'
                 /\ \A u \in Tasks : AtAnnounceCompleted(u, c)' =>
                      c \in funded' /\ ~ Told(c, "deposit.completed")'
                 /\ \A u, v \in Tasks :
                      AtAnnounceCompleted(u, c)' /\ AtAnnounceCompleted(v, c)' => u = v
      BY <1>t, <1>11, <2>2, <2>3, <2>5, <3>1 DEF ToldInv
    <3>3. ASSUME NEW c \in Deposits, Told(c, "deposit.failed")', NEW u \in Tasks
          PROVE  /\ log'[c]["PAYIN_FAILED"] # "NONE"
                 /\ ~ (task'[u].deposit = c /\ task'[u].event = "PAYIN_FAILED")
      BY <1>t, <1>10, <1>12, <2>4, <3>1, <3>3 DEF ToldInv
    <3> QED
      BY <3>1, <3>2, <3>3 DEF ToldInv
  <2> QED
    BY <1>5, <1>7, <1>8, <1>9, <2>6 DEF DepositsInv
<1>14. CASE event = "deposit.failed"
  <2>1. task[t].event = "PAYIN_FAILED" /\ log[d]["PAYIN_FAILED"] # "NONE"
    BY <1>t, <1>1, <1>2, <1>12, <1>14 DEF TaskInv
  <2>2. ~ Told(d, event)
    BY <1>t, <1>1, <1>14, <2>1 DEF ToldInv
  <2>3. \A u \in Tasks \ {t} :
          ~ (task[u].deposit = d /\ task[u].event = "PAYIN_FAILED")
    BY <1>1, <1>12, <2>1 DEF DepositsInv, TasksInv, OneTaskPerEvent
  <2>4. \A c \in Deposits :
          Told(c, "deposit.failed")' <=> Told(c, "deposit.failed") \/ c = d
    BY <1>6, <1>14 DEF DepositEvents
  <2>5. \A c \in Deposits :
          Told(c, "deposit.completed")' <=> Told(c, "deposit.completed")
    BY <1>6, <1>14 DEF DepositEvents
  <2>6. ToldInv'
    <3>1. AnnouncedOnce' /\ UNCHANGED <<funded, log>>
      BY <1>t, <1>2, <1>6, <2>2 DEF ToldInv
    <3>2. ASSUME NEW c \in Deposits
          PROVE  /\ Told(c, "deposit.completed")' => c \in funded'
                 /\ \A u \in Tasks : AtAnnounceCompleted(u, c)' =>
                      c \in funded' /\ ~ Told(c, "deposit.completed")'
                 /\ \A u, v \in Tasks :
                      AtAnnounceCompleted(u, c)' /\ AtAnnounceCompleted(v, c)' => u = v
      BY <1>t, <1>11, <2>2, <2>5, <3>1 DEF ToldInv
    <3>3. ASSUME NEW c \in Deposits, Told(c, "deposit.failed")', NEW u \in Tasks
          PROVE  /\ log'[c]["PAYIN_FAILED"] # "NONE"
                 /\ ~ (task'[u].deposit = c /\ task'[u].event = "PAYIN_FAILED")
      BY <1>t, <1>10, <1>12, <2>1, <2>3, <2>4, <3>1, <3>3 DEF ToldInv
    <3> QED
      BY <3>1, <3>2, <3>3 DEF ToldInv
  <2> QED
    BY <1>5, <1>7, <1>8, <1>9, <2>6 DEF DepositsInv
<1> QED
  BY <1>13, <1>14 DEF DepositEvents

-----------------------------------------------------------------------------
(* Theorems                                                                *)

LEMMA NextInv == DepositsInv /\ [Next]_vars => DepositsInv'
<1> SUFFICES ASSUME DepositsInv, [Next]_vars
             PROVE  DepositsInv'
  OBVIOUS
<1>1. CASE UNCHANGED vars
  <2>1. UNCHANGED <<bookVars, dbVars, task>> /\ HistoryKept
    BY <1>1 DEF vars, HistoryKept, Reported, externalVars
  <2>2. /\ provider' \in [Deposits -> Seq(ProviderStatus)]
        /\ sent' \subseteq Deposits \X Events
        /\ place' \in [Deposits -> Places]
        /\ UNCHANGED sent
    BY <1>1 DEF vars, externalVars, DepositsInv, TypeOK
  <2> QED
    BY <2>1, <2>2, ProviderStep
<1>2. CASE \E d \in Deposits, status \in ProviderStatus : ProviderMoves(d, status)
  BY <1>2, ProviderMovesKeepsInv
<1>p. CASE \E d \in Deposits, p \in Places : PlaceMoves(d, p)
  <2>1. /\ UNCHANGED <<bookVars, dbVars, task, provider, sent>> /\ HistoryKept
        /\ TypeOK
    BY <1>p DEF PlaceMoves, HistoryKept, Reported, DepositsInv
  <2>2. /\ provider' \in [Deposits -> Seq(ProviderStatus)]
        /\ sent' \subseteq Deposits \X Events
        /\ place' \in [Deposits -> Places]
    BY <1>p, <2>1 DEF PlaceMoves, TypeOK
  <2> QED
    BY <2>1, <2>2, ProviderStep
<1>3. ASSUME NEW t \in Tasks, Step(t)
      PROVE  DepositsInv'
  <2>1. CASE \/ \E d \in Deposits : StartCreate(t, d) \/ StartReconcile(t, d)
             \/ AskProvider(t) \/ AskProviderFails(t)
             \/ DispatchFails(t) \/ VerifyPayin(t) \/ Crash(t)
    BY <2>1, QuietSteps
  <2>2. CASE ReadForCredit(t) \/ ReadForFailure(t) \/ MarkWebhookFailed(t)
    BY <2>2, MarkSteps
  <2>3. CASE \E d \in Deposits, e \in Events : AcceptWebhook(t, d, e)
    BY <2>3, AcceptWebhookKeepsInv
  <2>4. CASE CreateCheckout(t)
    BY <2>4, CreateCheckoutKeepsInv
  <2>5. CASE InsertDeposit(t)
    BY <2>5, InsertDepositKeepsInv
  <2>6. CASE MarkReconciledFailed(t)
    BY <2>6, MarkReconciledFailedKeepsInv
  <2>7. CASE WriteFailure(t)
    BY <2>7, WriteFailureKeepsInv
  <2>8. CASE Credit(t)
    BY <2>8, CreditKeepsInv
  <2>9. CASE AnnounceCompleted(t) \/ AnnounceFailed(t)
    BY <2>9, AnnouncementsKeepInv
  <2> QED
    BY <1>3, <2>1, <2>2, <2>3, <2>4, <2>5, <2>6, <2>7, <2>8, <2>9 DEF Step
<1> QED
  BY <1>1, <1>2, <1>p, <1>3 DEF Next

(* The inductive invariant of DepositsService and the payin webhooks holds *)
(* in every reachable state.                                               *)
THEOREM Invariance == Spec => []DepositsInv
BY InitInv, NextInv, PTL DEF Spec

(* Every variable keeps its type.                                          *)
THEOREM TypeCorrect == Spec => []TypeOK
<1>1. DepositsInv => TypeOK
  BY DEF DepositsInv
<1> QED
  BY <1>1, Invariance, PTL

(* The ledger explains the balance of every wallet deposits are paid into. *)
THEOREM BookExplained == Spec => []LedgerExplainsBalance
<1>1. DepositsInv => LedgerExplainsBalance
  BY DEF DepositsInv
<1> QED
  BY <1>1, Invariance, PTL

(* No deposit is credited twice, however many webhooks, polls and passes   *)
(* credit it at the same time.                                             *)
THEOREM PostedOnce == Spec => []NothingPostedTwice
<1>1. DepositsInv => NothingPostedTwice
  BY DEF DepositsInv
<1> QED
  BY <1>1, Invariance, PTL

(* A deposit is credited, and its fee earned, only after the provider has  *)
(* said that the payin is completed.                                       *)
THEOREM CreditedAfterCompletion == Spec => []CreditNeedsCompletion
<1>1. DepositsInv => CreditNeedsCompletion
  BY DEF DepositsInv, RowsAgree, CreditNeedsCompletion, Reported
<1> QED
  BY <1>1, Invariance, PTL

(* An event that is logged PROCESSED has had its effect.                   *)
THEOREM ProcessedApplied == Spec => []ProcessedMeansApplied
<1>1. DepositsInv => ProcessedMeansApplied
  BY DEF DepositsInv
<1> QED
  BY <1>1, Invariance, PTL

(* SangaPay hears of one completion and of one failure at most.            *)
THEOREM ToldOnce == Spec => []AnnouncedOnce
<1>1. DepositsInv => AnnouncedOnce
  BY DEF DepositsInv, ToldInv
<1> QED
  BY <1>1, Invariance, PTL

(* A settled deposit stays settled: the reconciliation's update looks at   *)
(* the status again, the webhooks' writes end in a terminal status, and no *)
(* create call resets a row.                                               *)
THEOREM SettledStays == Spec => NeverUnsettled
<1> DEFINE Kept == \A d \in Deposits : deposit[d] \in Terminal => deposit'[d] \in Terminal
<1>1. ASSUME DepositsInv, [Next]_vars
      PROVE  Kept
  <2>1. deposit \in [Deposits -> DepositStatus]
    BY <1>1 DEF DepositsInv, TypeOK
  <2>2. CASE UNCHANGED deposit
    BY <2>2
  <2>3. ASSUME NEW t \in Tasks, InsertDeposit(t)
        PROVE  Kept
    BY <2>3, <2>1 DEF InsertDeposit, DepositInsertable, Terminal
  <2>4. ASSUME NEW t \in Tasks, MarkReconciledFailed(t)
        PROVE  Kept
    BY <2>4, <2>1 DEF MarkReconciledFailed
  <2>5. ASSUME NEW t \in Tasks, WriteFailure(t) \/ Credit(t)
        PROVE  Kept
    BY <2>5, <2>1 DEF WriteFailure, Credit, Terminal
  <2> QED
    BY <1>1, <2>2, <2>3, <2>4, <2>5
       DEF Next, Step, vars, dbVars, StartCreate, StartReconcile, CreateCheckout,
           AskProvider, AskProviderFails, ReadForCredit, AnnounceCompleted,
           DispatchFails, AcceptWebhook, VerifyPayin, ReadForFailure,
           AnnounceFailed, MarkWebhookFailed, Crash, ProviderMoves,
           PlaceMoves
<1> QED
  BY <1>1, Invariance, PTL DEF Spec, NeverUnsettled

(* Deposits implements Collection: a balance moves only by the amount of a *)
(* paid deposit, once each, however many tasks credit it at the same time. *)
THEOREM ImplementsCollection == Spec => CollectedOnce
<1> DEFINE paid == {d \in Deposits :
                      \E i \in DOMAIN provider[d] : provider[d][i] = "completed"}
<1>1. Init => Collected!CollectionInit
  BY DEF Init, BookInit, Collected!CollectionInit
<1>2. ASSUME DepositsInv, [Next]_vars
      PROVE  [Collected!CollectionNext]_(Collected!collectionVars)
  <2> USE DEF Collected!CollectionNext, Collected!collectionVars, Collected!Pay,
              Collected!Collect
  <2>t. /\ TypeOK /\ RowsAgree /\ \A t \in Tasks : TaskInv(t)
        /\ provider \in [Deposits -> Seq(ProviderStatus)]
    BY <1>2 DEF DepositsInv, TypeOK, TasksInv
  <2>1. CASE UNCHANGED <<balance, funded, provider>>
    BY <2>1
  <2>2. ASSUME NEW d \in Deposits, NEW status \in ProviderStatus, ProviderMoves(d, status)
        PROVE  Collected!Pay(d) \/ UNCHANGED Collected!collectionVars
    <3>1. /\ UNCHANGED <<balance, funded>>
          /\ provider' = [provider EXCEPT ![d] = Append(@, status)]
      BY <2>2 DEF ProviderMoves, bookVars, dbVars
    <3>2. /\ \A c \in Deposits \ {d} : provider'[c] = provider[c]
          /\ Len(provider[d]) \in Nat
          /\ DOMAIN provider[d] = 1..Len(provider[d])
          /\ DOMAIN provider'[d] = 1..(Len(provider[d]) + 1)
          /\ \A i \in DOMAIN provider[d] : provider'[d][i] = provider[d][i]
          /\ provider'[d][Len(provider[d]) + 1] = status
      BY <2>t, <3>1
    <3>3. CASE status = "completed"
      <4>1. \E i \in DOMAIN provider'[d] : provider'[d][i] = "completed"
        <5>1. Len(provider[d]) + 1 \in DOMAIN provider'[d]
          BY <3>2
        <5> QED
          BY <3>2, <3>3, <5>1
      <4>2. paid' = paid \cup {d}
        BY <3>2, <4>1
      <4> QED
        BY <3>1, <4>2
    <3>4. CASE status # "completed"
      <4>1. \A i \in DOMAIN provider'[d] : provider'[d][i] = "completed" =>
              i \in DOMAIN provider[d]
        BY <3>2, <3>4
      <4>2. \A i \in DOMAIN provider[d] : i \in DOMAIN provider'[d]
        BY <3>2
      <4>3. paid' = paid
        BY <3>2, <4>1, <4>2
      <4> QED
        BY <3>1, <4>3
    <3> QED
      BY <3>3, <3>4
  <2>3. ASSUME NEW t \in Tasks, CreateCheckout(t)
        PROVE  UNCHANGED Collected!collectionVars
    <3>1. UNCHANGED <<balance, funded>>
      BY <2>3 DEF CreateCheckout, bookVars, dbVars
    <3>2. PICK d \in Deposits : d = task[t].deposit
      BY <2>3, <2>t DEF CreateCheckout, TaskInv
    <3>3. \/ provider' = provider
          \/ provider[d] = <<>> /\ provider' = [provider EXCEPT ![d] = <<"pending">>]
      BY <2>3, <3>2 DEF CreateCheckout
    <3>4. paid' = paid
      <4>1. CASE provider[d] = <<>> /\ provider' = [provider EXCEPT ![d] = <<"pending">>]
        <5>1. /\ \A c \in Deposits \ {d} : provider'[c] = provider[c]
              /\ provider'[d] = <<"pending">>
          BY <2>t, <4>1
        <5>2. /\ \A i \in DOMAIN provider'[d] : provider'[d][i] = "pending"
              /\ DOMAIN provider[d] = {}
          BY <4>1, <5>1
        <5> QED
          BY <5>1, <5>2
      <4> QED
        BY <3>3, <4>1
    <3> QED
      BY <3>1, <3>4
  <2>4. ASSUME NEW t \in Tasks, Credit(t)
        PROVE  \/ \E d \in Deposits : Collected!Collect(d)
               \/ UNCHANGED Collected!collectionVars
    <3>1. PICK d \in Deposits : d = task[t].deposit /\ Reported(d, "completed")
      BY <2>4, <2>t DEF Credit, TaskInv
    <3>2. paid' = paid
      BY <2>4 DEF Credit, externalVars
    <3>3. CASE ~ TransactionInsertable(d)
      BY <2>4, <3>1, <3>2, <3>3 DEF Credit, bookVars
    <3>4. CASE TransactionInsertable(d)
      <4>1. /\ balance' = [balance EXCEPT ![WalletOf[d]] = @ + Amount[d]]
            /\ funded' = funded \cup {d}
        BY <2>4, <3>1, <3>4 DEF Credit, Post, Applied
      <4>2. d \in paid \ funded
        BY <3>1, <3>4 DEF Reported, TransactionInsertable
      <4> QED
        BY <3>2, <4>1, <4>2
    <3> QED
      BY <3>3, <3>4
  <2> QED
    BY <1>2, <2>1, <2>2, <2>3, <2>4
       DEF Next, Step, vars, bookVars, dbVars, externalVars, StartCreate, StartReconcile,
           InsertDeposit, MarkReconciledFailed, WriteFailure, AskProvider,
           AskProviderFails, ReadForCredit, AnnounceCompleted, DispatchFails,
           AcceptWebhook, VerifyPayin, ReadForFailure, AnnounceFailed,
           MarkWebhookFailed, Crash, PlaceMoves
<1>3. DepositsInv /\ [Next]_vars => [Collected!CollectionNext]_(Collected!collectionVars)
  BY <1>2
<1> QED
  BY <1>1, <1>3, Invariance, PTL DEF Spec, CollectedOnce, Collected!CollectionSpec

=============================================================================
