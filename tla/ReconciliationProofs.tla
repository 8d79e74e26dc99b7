------------------------ MODULE ReconciliationProofs ------------------------
(***************************************************************************)
(* Proofs about WebhookIntake and Reconciliation, for any rows and events, *)
(* any plans of the providers, any number of passes and of restarts.       *)
(***************************************************************************)
EXTENDS Reconciliation, TLAPS

(* The log remembers every delivery whose work may have begun.             *)
IntakeInv ==
  \A e \in Events :
    /\ log[e] = "NONE" => task[e] = "idle" /\ acted[e] = 0
    /\ task[e] = "check" => acted[e] = 0
    /\ acted[e] <= 1

RecInv == TypeOK /\ IntakeInv /\ OnePassAtATime

-----------------------------------------------------------------------------
(* The intake                                                              *)

LEMMA IntakeStepKeeps ==
  ASSUME IntakeTypeOK, IntakeInv, NEW e \in Events, IntakeStep(e) \/ NothingToDo(e)
  PROVE IntakeTypeOK' /\ IntakeInv'
<1>1. PICK s \in TaskSteps, l \in LogStatus, n \in Nat :
        /\ log' = [log EXCEPT ![e] = l]
        /\ task' = [task EXCEPT ![e] = s]
        /\ acted' = [acted EXCEPT ![e] = n]
        /\ l = "NONE" => s = "idle" /\ n = 0
        /\ s = "check" => n = 0
        /\ n <= 1
  <2> DEFINE P(s, l, n) == /\ log' = [log EXCEPT ![e] = l]
                           /\ task' = [task EXCEPT ![e] = s]
                           /\ acted' = [acted EXCEPT ![e] = n]
                           /\ l = "NONE" => s = "idle" /\ n = 0
                           /\ s = "check" => n = 0
                           /\ n <= 1
             Some == \E s \in TaskSteps, l \in LogStatus, n \in Nat : P(s, l, n)
  <2>1. /\ log[e] \in LogStatus /\ task[e] \in TaskSteps /\ acted[e] \in Nat
        /\ log = [log EXCEPT ![e] = log[e]]
        /\ task = [task EXCEPT ![e] = task[e]]
        /\ acted = [acted EXCEPT ![e] = acted[e]]
        /\ log[e] = "NONE" => task[e] = "idle" /\ acted[e] = 0
        /\ task[e] = "check" => acted[e] = 0
        /\ acted[e] <= 1
    BY DEF IntakeTypeOK, IntakeInv
  <2>2. CASE RefuseSignature(e)
    <3>1. P("idle", "FAILED", acted[e])
      BY <2>1, <2>2 DEF RefuseSignature, FirstDelivery, Logs
    <3> QED
      BY <2>1, <3>1 DEF TaskSteps, LogStatus
  <2>3. CASE LogDelivery(e)
    <3>1. P("check", "PENDING", acted[e])
      BY <2>1, <2>3 DEF LogDelivery, FirstDelivery, Logs, Goto
    <3> QED
      BY <2>1, <3>1 DEF TaskSteps, LogStatus
  <2>4. CASE RefusePayload(e)
    <3>1. P("idle", log[e], acted[e]) \/ P("idle", "FAILED", acted[e])
      BY <2>1, <2>4 DEF RefusePayload, Goto
    <3> QED
      BY <2>1, <3>1 DEF TaskSteps, LogStatus
  <2>5. CASE IgnoreTest(e)
    <3>1. P("idle", "IGNORED", acted[e])
      BY <2>1, <2>5 DEF IgnoreTest, Logs, Goto
    <3> QED
      BY <2>1, <3>1 DEF TaskSteps, LogStatus
  <2>6. CASE StartWork(e)
    <3>1. acted[e] = 0 /\ acted' = [acted EXCEPT ![e] = acted[e] + 1]
      BY <2>1, <2>6 DEF StartWork
    <3>2. acted' = [acted EXCEPT ![e] = 1]
      BY <3>1
    <3>3. log' = [log EXCEPT ![e] = "PROCESSING"] /\ task' = [task EXCEPT ![e] = "work"]
      BY <2>6 DEF StartWork, Logs, Goto
    <3>4. 1 <= 1 /\ 1 \in Nat
      OBVIOUS
    <3>5. P("work", "PROCESSING", 1)
      BY <3>2, <3>3, <3>4
    <3> QED
      BY <3>4, <3>5 DEF TaskSteps, LogStatus
  <2>7. CASE NothingToDo(e)
    <3>1. P("idle", "PROCESSED", acted[e]) \/ P("idle", "IGNORED", acted[e])
      BY <2>1, <2>7 DEF NothingToDo, Goto
    <3> QED
      BY <2>1, <3>1 DEF TaskSteps, LogStatus
  <2>8. CASE WorkThrows(e)
    <3>1. P("fail", log[e], acted[e])
      BY <2>1, <2>8 DEF WorkThrows, Goto
    <3> QED
      BY <2>1, <3>1 DEF TaskSteps
  <2>9. CASE MarkProcessed(e)
    <3>1. P("idle", "PROCESSED", acted[e])
      BY <2>1, <2>9 DEF MarkProcessed, Logs, Goto
    <3> QED
      BY <2>1, <3>1 DEF TaskSteps, LogStatus
  <2>10. CASE MarkFailed(e)
    <3>1. P("idle", log[e], acted[e]) \/ P("idle", "FAILED", acted[e])
      BY <2>1, <2>10 DEF MarkFailed, Goto
    <3> QED
      BY <2>1, <3>1 DEF TaskSteps, LogStatus
  <2> QED
    BY <2>2, <2>3, <2>4, <2>5, <2>6, <2>7, <2>8, <2>9, <2>10 DEF IntakeStep
<1>2. IntakeTypeOK'
  BY <1>1 DEF IntakeTypeOK
<1>3. ASSUME NEW d \in Events
      PROVE /\ log'[d] = "NONE" => task'[d] = "idle" /\ acted'[d] = 0
            /\ task'[d] = "check" => acted'[d] = 0
            /\ acted'[d] <= 1
  <2>1. CASE d = e
    BY <1>1, <2>1 DEF IntakeTypeOK
  <2>2. CASE d # e
    BY <1>1, <2>2 DEF IntakeTypeOK, IntakeInv
  <2> QED
    BY <2>1, <2>2
<1> QED
  BY <1>2, <1>3 DEF IntakeInv

LEMMA SettleByWebhookKeeps ==
  ASSUME RecInv, NEW e \in Events, SettleByWebhook(e)
  PROVE RecInv'
<1>1. e \in Rows
  BY ReconciliationAssumption
<1>2. log' = log \/ log' = [log EXCEPT ![e] = "PROCESSED"]
  BY DEF SettleByWebhook, Logs
<1>3. /\ task' = [task EXCEPT ![e] = "mark"] /\ task[e] = "work" /\ acted' = acted
      /\ status' = [status EXCEPT ![e] = "settled"]
      /\ UNCHANGED <<plan, referenced, decided, aged, running, pass, outages>>
  BY DEF SettleByWebhook, Goto, SettleRow, passVars
<1>4. IntakeTypeOK'
  BY <1>2, <1>3 DEF RecInv, TypeOK, IntakeTypeOK, LogStatus, TaskSteps
<1>5. TypeOK'
  BY <1>1, <1>3, <1>4 DEF RecInv, TypeOK
<1>6. IntakeInv'
  BY <1>2, <1>3 DEF RecInv, TypeOK, IntakeTypeOK, IntakeInv
<1>7. OnePassAtATime'
  BY <1>3 DEF RecInv, OnePassAtATime
<1> QED
  BY <1>5, <1>6, <1>7 DEF RecInv

LEMMA WebhookKeeps ==
  ASSUME RecInv, NEW e \in Events, Webhook(e)
  PROVE RecInv'
<1>1. IntakeTypeOK' /\ IntakeInv'
  BY IntakeStepKeeps DEF RecInv, TypeOK, Webhook
<1>2. UNCHANGED <<plan, status, referenced, decided, aged, running, pass, outages>>
  BY DEF Webhook, rowVars, passVars
<1> QED
  BY <1>1, <1>2 DEF RecInv, TypeOK, OnePassAtATime

-----------------------------------------------------------------------------
(* The rows                                                                *)

LEMMA RowStepKeeps ==
  ASSUME RecInv, NEW r \in Rows,
         Create(r) \/ RecordReference(r) \/ Decide(r) \/ Age(r)
  PROVE RecInv'
<1>1. UNCHANGED <<plan, running, pass, log, task, acted, outages>>
  BY DEF Create, RecordReference, Decide, Age, passVars, intakeVars
<1>2. /\ status' \in [Rows -> {"none", "open", "settled"}]
      /\ referenced' \subseteq Rows /\ decided' \subseteq Rows /\ aged' \subseteq Rows
  BY DEF Create, RecordReference, Decide, Age, RecInv, TypeOK
<1>3. TypeOK'
  BY <1>1, <1>2 DEF RecInv, TypeOK, IntakeTypeOK
<1> QED
  BY <1>1, <1>3 DEF RecInv, IntakeInv, OnePassAtATime

-----------------------------------------------------------------------------
(* The passes                                                              *)

LEMMA PassExcept ==
  ASSUME NEW S, NEW T, NEW x \in [pc : S, todo : T], NEW step, NEW todo
  PROVE /\ [x EXCEPT !.pc = step] = [pc |-> step, todo |-> x.todo]
        /\ [x EXCEPT !.todo = todo] = [pc |-> x.pc, todo |-> todo]
  OBVIOUS

(* A step of a pass that is under way and goes on.                         *)
LEMMA GoOnKeeps ==
  ASSUME RecInv, NEW p \in Passes, pass[p].pc # "idle",
         NEW step \in {"read", "next", "ask", "retry"}, NEW todo \in SUBSET Rows,
         pass' = [pass EXCEPT ![p] = [pc |-> step, todo |-> todo]],
         UNCHANGED <<plan, referenced, decided, aged, running, log, task, acted, outages>>,
         status' \in [Rows -> {"none", "open", "settled"}]
  PROVE RecInv'
<1>1. pass' \in [Passes -> [pc : {"idle", "read", "next", "ask", "retry"},
                            todo : SUBSET Rows]]
  BY DEF RecInv, TypeOK
<1>2. TypeOK'
  BY <1>1 DEF RecInv, TypeOK, IntakeTypeOK
<1>3. running /\ \A q \in Passes \ {p} : pass[q].pc = "idle"
  BY DEF RecInv, OnePassAtATime
<1>4. OnePassAtATime'
  BY <1>3 DEF RecInv, TypeOK, OnePassAtATime
<1> QED
  BY <1>2, <1>4 DEF RecInv, IntakeInv

LEMMA PassStepsKeep ==
  ASSUME RecInv, NEW p \in Passes, StartPass(p) \/ PassStep(p) \/ Answer(p)
  PROVE RecInv'
<1> USE DEF rowVars, intakeVars
<1>1. /\ pass \in [Passes -> [pc : {"idle", "read", "next", "ask", "retry"},
                              todo : SUBSET Rows]]
      /\ status \in [Rows -> {"none", "open", "settled"}]
      /\ pass[p].todo \in SUBSET Rows
      /\ \A r \in Rows : pass[p].todo \ {r} \in SUBSET Rows
  BY DEF RecInv, TypeOK
<1>2. ASSUME NEW step \in {"ask", "retry"}, pass' = [pass EXCEPT ![p].pc = step]
      PROVE pass' = [pass EXCEPT ![p] = [pc |-> step, todo |-> pass[p].todo]]
  <2>1. [pass[p] EXCEPT !.pc = step] = [pc |-> step, todo |-> pass[p].todo]
    BY <1>1, PassExcept
  <2> QED
    BY <1>2, <2>1
<1>3. CASE StartPass(p)
  <2>1. /\ pass' = [pass EXCEPT ![p].pc = "read"] /\ running' = TRUE /\ ~ running
        /\ UNCHANGED <<plan, status, referenced, decided, aged, log, task, acted, outages>>
    BY <1>3 DEF StartPass, NotRunning, Step
  <2>2. \A q \in Passes : pass[q].pc = "idle"
    BY <2>1 DEF RecInv, OnePassAtATime
  <2>3. TypeOK'
    BY <1>1, <2>1 DEF RecInv, TypeOK, IntakeTypeOK
  <2>4. OnePassAtATime'
    BY <1>1, <2>1, <2>2 DEF OnePassAtATime
  <2> QED
    BY <2>1, <2>3, <2>4 DEF RecInv, IntakeInv
<1>4. CASE ReadBatches(p)
  <2>1. Batch \in SUBSET Rows
    BY DEF Batch
  <2> QED
    BY <1>1, <1>4, <2>1, GoOnKeeps DEF ReadBatches
<1>5. CASE SkipRow(p)
  <2>1. PICK r \in Rows : pass' = [pass EXCEPT ![p].todo = @ \ {r}]
    BY <1>5 DEF SkipRow
  <2>2. pass[p].pc = "next" /\ running' = running
        /\ UNCHANGED <<plan, status, referenced, decided, aged, log, task, acted, outages>>
    BY <1>5 DEF SkipRow
  <2> DEFINE left == pass[p].todo \ {r}
  <2>3. pass' = [pass EXCEPT ![p] = [pc |-> "next", todo |-> left]]
    <3>1. pass[p] \in [pc : {"idle", "read", "next", "ask", "retry"}, todo : SUBSET Rows]
      BY <1>1
    <3>2. pass' = [pass EXCEPT ![p] = [pass[p] EXCEPT !.todo = left]]
      BY <2>1
    <3> HIDE DEF left
    <3>3. [pass[p] EXCEPT !.todo = left] = [pc |-> pass[p].pc, todo |-> left]
      BY <3>1, PassExcept
    <3> QED
      BY <2>2, <3>2, <3>3
  <2>4. left \in SUBSET Rows
    BY <1>1
  <2> HIDE DEF left
  <2> QED
    BY <1>1, <2>2, <2>3, <2>4, GoOnKeeps
<1>6. CASE AskRow(p)
  <2>1. pass' = [pass EXCEPT ![p] = [pc |-> "ask", todo |-> pass[p].todo]]
    BY <1>2, <1>6 DEF AskRow, Step
  <2> QED
    BY <1>1, <1>6, <2>1, GoOnKeeps DEF AskRow
<1>7. CASE RetryDeliveries(p)
  <2>1. pass' = [pass EXCEPT ![p] = [pc |-> "retry", todo |-> pass[p].todo]]
    BY <1>2, <1>7 DEF RetryDeliveries, Step
  <2> QED
    BY <1>1, <1>7, <2>1, GoOnKeeps DEF RetryDeliveries
<1>8. CASE EndPass(p)
  <2>1. /\ running' = FALSE /\ pass' = [pass EXCEPT ![p] = Idle] /\ pass[p].pc # "idle"
        /\ UNCHANGED <<plan, status, referenced, decided, aged, log, task, acted, outages>>
    BY <1>8 DEF EndPass, ResetRunning
  <2>2. \A q \in Passes : pass'[q].pc = "idle"
    BY <1>1, <2>1 DEF RecInv, OnePassAtATime, Idle
  <2>3. TypeOK'
    BY <1>1, <2>1 DEF RecInv, TypeOK, IntakeTypeOK, Idle
  <2> QED
    BY <2>1, <2>2, <2>3 DEF RecInv, IntakeInv, OnePassAtATime
<1>9. CASE LeaveRow(p)
  <2>1. PICK r \in Rows : AfterRow(p, r)
    BY <1>9 DEF LeaveRow
  <2> DEFINE left == pass[p].todo \ {r}
  <2>2. pass' = [pass EXCEPT ![p] = [pc |-> "next", todo |-> left]] /\ left \in SUBSET Rows
    BY <1>1, <2>1 DEF AfterRow
  <2> HIDE DEF left
  <2> QED
    BY <1>1, <1>9, <2>2, GoOnKeeps DEF LeaveRow
<1>10. ASSUME NEW r \in Rows, SettleByPass(p, r) PROVE RecInv'
  <2> DEFINE left == pass[p].todo \ {r}
  <2>1. pass' = [pass EXCEPT ![p] = [pc |-> "next", todo |-> left]] /\ left \in SUBSET Rows
    BY <1>1, <1>10 DEF SettleByPass, AfterRow
  <2> HIDE DEF left
  <2>2. status' \in [Rows -> {"none", "open", "settled"}]
    BY <1>1, <1>10 DEF SettleByPass, SettleRow
  <2> QED
    BY <1>1, <1>10, <2>1, <2>2, GoOnKeeps DEF SettleByPass
<1> QED
  BY <1>3, <1>4, <1>5, <1>6, <1>7, <1>8, <1>9, <1>10 DEF PassStep, Answer

LEMMA RestartKeeps ==
  ASSUME RecInv, Restart PROVE RecInv'
<1>1. /\ running' = FALSE /\ pass' = [p \in Passes |-> Idle]
      /\ task' = [e \in Events |-> "idle"] /\ outages' = outages + 1
      /\ outages < Outages
      /\ UNCHANGED <<plan, status, referenced, decided, aged, log, acted>>
  BY DEF Restart, LoseTasks, rowVars
<1>2. outages' \in 0..Outages
  BY <1>1, ReconciliationAssumption DEF RecInv, TypeOK
<1>3. TypeOK'
  BY <1>1, <1>2 DEF RecInv, TypeOK, IntakeTypeOK, TaskSteps, Idle
<1>4. IntakeInv'
  BY <1>1 DEF RecInv, IntakeInv
<1>5. OnePassAtATime'
  BY <1>1 DEF OnePassAtATime, Idle
<1> QED
  BY <1>3, <1>4, <1>5 DEF RecInv

-----------------------------------------------------------------------------

(* What the log says of each event, and the flag of the passes: inductive. *)
THEOREM Invariance == Spec => []RecInv
<1>1. ASSUME Init PROVE RecInv
  <2>1. IntakeTypeOK /\ IntakeInv
    BY <1>1 DEF Init, IntakeInit, IntakeTypeOK, LogStatus, TaskSteps, IntakeInv
  <2>2. pass \in [Passes -> [pc : {"idle", "read", "next", "ask", "retry"},
                             todo : SUBSET Rows]]
    BY <1>1 DEF Init, Idle
  <2>3. TypeOK
    <3>1. 0 \in 0..Outages
      BY ReconciliationAssumption
    <3> QED
      BY <1>1, <2>1, <2>2, <3>1 DEF Init, TypeOK
  <2>4. OnePassAtATime
    BY <1>1 DEF Init, Idle, OnePassAtATime
  <2> QED
    BY <2>1, <2>3, <2>4 DEF RecInv
<1>2. RecInv /\ [Next]_vars => RecInv'
  <2> SUFFICES ASSUME RecInv, [Next]_vars PROVE RecInv'
    OBVIOUS
  <2>1. CASE UNCHANGED vars
    BY <2>1 DEF vars, rowVars, passVars, intakeVars, RecInv, TypeOK, IntakeTypeOK,
                IntakeInv, OnePassAtATime
  <2> QED
    BY <2>1, RowStepKeeps, WebhookKeeps, SettleByWebhookKeeps, PassStepsKeep,
       RestartKeeps DEF Next
<1> QED
  BY <1>1, <1>2, PTL DEF Spec

(* No event is worked on twice, whatever became of its first delivery      *)
(* (createWebhookLog of both webhook services).                            *)
THEOREM ActedOnce == Spec => []ActedOnOnce
<1>1. RecInv => ActedOnOnce
  BY DEF RecInv, IntakeInv, ActedOnOnce
<1> QED
  BY <1>1, Invariance, PTL

(* Two passes never overlap (runScheduledPass).                            *)
THEOREM PassesApart == Spec => []OnePassAtATime
<1>1. RecInv => OnePassAtATime
  BY DEF RecInv
<1> QED
  BY <1>1, Invariance, PTL

=============================================================================
