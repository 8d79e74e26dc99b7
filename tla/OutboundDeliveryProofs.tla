----------------------- MODULE OutboundDeliveryProofs -----------------------
(***************************************************************************)
(* Proofs about OutboundDelivery, for any set of deliveries, any           *)
(* maxAttempts and batch size, and any number of outages.                  *)
(***************************************************************************)
EXTENDS OutboundDelivery, TLAPS

-----------------------------------------------------------------------------

LEMMA DispatchKeeps ==
  ASSUME NEW d \in Deliveries, DeliveryInv, Dispatch(d) PROVE DeliveryInv'
<1>1. TypeOK'
  BY DeliveryAssumption DEF DeliveryInv, ResultsTrue, Dispatch, TypeOK, Sending, NotSending, Results, Answers, DeliveryStatus
<1>2. ResultsTrue'
  BY DeliveryAssumption
  DEF DeliveryInv, ResultsTrue, DeliveredWasTaken, Dispatch, TypeOK, Sending, NotSending, Results, Answers, DeliveryStatus
<1>3. FirstAttemptAlone'
  BY DeliveryAssumption
  DEF DeliveryInv, ResultsTrue, FirstAttemptAlone, Made, Dispatch, TypeOK, Sending, NotSending, Results, Answers, DeliveryStatus
<1>4. RetriesCounted'
  BY DeliveryAssumption
  DEF DeliveryInv, ResultsTrue, FirstAttemptAlone, RetriesCounted, Made, Dispatch, TypeOK, Sending, NotSending, Results, Answers, DeliveryStatus
<1> QED
  BY <1>1, <1>2, <1>3, <1>4 DEF DeliveryInv

LEMMA SendKeeps ==
  ASSUME NEW d \in Deliveries, DeliveryInv, Send(d) PROVE DeliveryInv'
<1>1. TypeOK'
  <2>1. PICK answer \in Answers :
          /\ Receive(d, answer)
          /\ dispatcher' = [dispatcher EXCEPT ![d].pc = "record", ![d].result = answer]
    BY DEF Send
  <2>2. taken' \subseteq Deliveries
    BY <2>1 DEF Receive, DeliveryInv, TypeOK, Answers
  <2>3. dispatcher[d] \in Sending
    BY DEF Send, DeliveryInv, TypeOK, NotSending
  <2>4. [dispatcher[d] EXCEPT !.pc = "record", !.result = answer] \in Sending
    BY <2>3 DEF Sending, Results
  <2>5. dispatcher' \in [Deliveries -> Sending \cup NotSending]
    BY <2>1, <2>4 DEF DeliveryInv, TypeOK
  <2> QED
    BY <2>2, <2>5 DEF Send, DeliveryInv, TypeOK
<1>2. ResultsTrue'
  BY DeliveryAssumption
  DEF DeliveryInv, ResultsTrue, DeliveredWasTaken, Send, Receive, Answers, TypeOK, Sending, NotSending, Results, DeliveryStatus
<1>3. FirstAttemptAlone'
  BY DeliveryAssumption
  DEF DeliveryInv, ResultsTrue, FirstAttemptAlone, Made, Send, Receive, Answers, TypeOK, Sending, NotSending, Results, DeliveryStatus
<1>4. RetriesCounted'
  BY DeliveryAssumption
  DEF DeliveryInv, ResultsTrue, FirstAttemptAlone, RetriesCounted, Made, Send, Receive, Answers, TypeOK, Sending, NotSending, Results, DeliveryStatus
<1> QED
  BY <1>1, <1>2, <1>3, <1>4 DEF DeliveryInv

LEMMA RecordDeliveredKeeps ==
  ASSUME NEW d \in Deliveries, DeliveryInv, RecordDelivered(d) PROVE DeliveryInv'
<1>1. TypeOK'
  BY DeliveryAssumption DEF DeliveryInv, ResultsTrue, RecordDelivered, Accepted, Attempted, Goto, TypeOK, Sending, NotSending, Results, Answers, DeliveryStatus
<1>2. ResultsTrue'
  BY DeliveryAssumption
  DEF DeliveryInv, ResultsTrue, DeliveredWasTaken, RecordDelivered, Accepted, Attempted, Goto, TypeOK, Sending, NotSending, Results, Answers, DeliveryStatus
<1>3. FirstAttemptAlone'
  BY DeliveryAssumption
  DEF DeliveryInv, ResultsTrue, FirstAttemptAlone, Made, RecordDelivered, Accepted, Attempted, Goto, TypeOK, Sending, NotSending, Results, Answers, DeliveryStatus
<1>4. RetriesCounted'
  BY DeliveryAssumption
  DEF DeliveryInv, ResultsTrue, FirstAttemptAlone, RetriesCounted, Made, RecordDelivered, Accepted, Attempted, Goto, TypeOK, Sending, NotSending, Results, Answers, DeliveryStatus
<1> QED
  BY <1>1, <1>2, <1>3, <1>4 DEF DeliveryInv

LEMMA RecordDeliveredThrowsKeeps ==
  ASSUME NEW d \in Deliveries, DeliveryInv, RecordDeliveredThrows(d) PROVE DeliveryInv'
<1>1. TypeOK'
  BY DeliveryAssumption DEF DeliveryInv, ResultsTrue, RecordDeliveredThrows, Accepted, OutOfService, TypeOK, Sending, NotSending, Results, Answers, DeliveryStatus
<1>2. ResultsTrue'
  BY DeliveryAssumption
  DEF DeliveryInv, ResultsTrue, DeliveredWasTaken, RecordDeliveredThrows, Accepted, OutOfService, TypeOK, Sending, NotSending, Results, Answers, DeliveryStatus
<1>3. FirstAttemptAlone'
  BY DeliveryAssumption
  DEF DeliveryInv, ResultsTrue, FirstAttemptAlone, Made, RecordDeliveredThrows, Accepted, OutOfService, TypeOK, Sending, NotSending, Results, Answers, DeliveryStatus
<1>4. RetriesCounted'
  BY DeliveryAssumption
  DEF DeliveryInv, ResultsTrue, FirstAttemptAlone, RetriesCounted, Made, RecordDeliveredThrows, Accepted, OutOfService, TypeOK, Sending, NotSending, Results, Answers, DeliveryStatus
<1> QED
  BY <1>1, <1>2, <1>3, <1>4 DEF DeliveryInv

LEMMA RecordFailedKeeps ==
  ASSUME NEW d \in Deliveries, DeliveryInv, RecordFailed(d) PROVE DeliveryInv'
<1>1. TypeOK'
  BY DeliveryAssumption DEF DeliveryInv, ResultsTrue, RecordFailed, Accepted, Attempted, Goto, LastAttempt, TypeOK, Sending, NotSending, Results, Answers, DeliveryStatus
<1>2. ResultsTrue'
  BY DeliveryAssumption
  DEF DeliveryInv, ResultsTrue, DeliveredWasTaken, RecordFailed, Accepted, Attempted, Goto, LastAttempt, TypeOK, Sending, NotSending, Results, Answers, DeliveryStatus
<1>3. FirstAttemptAlone'
  BY DeliveryAssumption
  DEF DeliveryInv, ResultsTrue, FirstAttemptAlone, Made, RecordFailed, Accepted, Attempted, Goto, LastAttempt, TypeOK, Sending, NotSending, Results, Answers, DeliveryStatus
<1>4. RetriesCounted'
  BY DeliveryAssumption
  DEF DeliveryInv, ResultsTrue, FirstAttemptAlone, RetriesCounted, Made, RecordFailed, Accepted, Attempted, Goto, LastAttempt, TypeOK, Sending, NotSending, Results, Answers, DeliveryStatus
<1> QED
  BY <1>1, <1>2, <1>3, <1>4 DEF DeliveryInv

LEMMA RecordFailedThrowsKeeps ==
  ASSUME NEW d \in Deliveries, DeliveryInv, RecordFailedThrows(d) PROVE DeliveryInv'
<1>1. TypeOK'
  BY DeliveryAssumption DEF DeliveryInv, ResultsTrue, RecordFailedThrows, Accepted, OutOfService, Goto, TypeOK, Sending, NotSending, Results, Answers, DeliveryStatus
<1>2. ResultsTrue'
  BY DeliveryAssumption
  DEF DeliveryInv, ResultsTrue, DeliveredWasTaken, RecordFailedThrows, Accepted, OutOfService, Goto, TypeOK, Sending, NotSending, Results, Answers, DeliveryStatus
<1>3. FirstAttemptAlone'
  BY DeliveryAssumption
  DEF DeliveryInv, ResultsTrue, FirstAttemptAlone, Made, RecordFailedThrows, Accepted, OutOfService, Goto, TypeOK, Sending, NotSending, Results, Answers, DeliveryStatus
<1>4. RetriesCounted'
  BY DeliveryAssumption
  DEF DeliveryInv, ResultsTrue, FirstAttemptAlone, RetriesCounted, Made, RecordFailedThrows, Accepted, OutOfService, Goto, TypeOK, Sending, NotSending, Results, Answers, DeliveryStatus
<1> QED
  BY <1>1, <1>2, <1>3, <1>4 DEF DeliveryInv

LEMMA StartRetriesKeeps ==
  ASSUME DeliveryInv, StartRetries PROVE DeliveryInv'
<1>1. TypeOK'
  BY DeliveryAssumption DEF DeliveryInv, ResultsTrue, StartRetries, Batch, Due, TypeOK, Sending, NotSending, Results, Answers, DeliveryStatus
<1>2. ResultsTrue'
  BY DeliveryAssumption
  DEF DeliveryInv, ResultsTrue, DeliveredWasTaken, StartRetries, Batch, Due, TypeOK, Sending, NotSending, Results, Answers, DeliveryStatus
<1>3. FirstAttemptAlone'
  BY DeliveryAssumption
  DEF DeliveryInv, ResultsTrue, FirstAttemptAlone, Made, StartRetries, Batch, Due, TypeOK, Sending, NotSending, Results, Answers, DeliveryStatus
<1>4. RetriesCounted'
  BY DeliveryAssumption
  DEF DeliveryInv, ResultsTrue, FirstAttemptAlone, RetriesCounted, Made, StartRetries, Batch, Due, TypeOK, Sending, NotSending, Results, Answers, DeliveryStatus
<1> QED
  BY <1>1, <1>2, <1>3, <1>4 DEF DeliveryInv

LEMMA RetrySendKeeps ==
  ASSUME DeliveryInv, RetrySend PROVE DeliveryInv'
<1>1. TypeOK'
  <2>1. PICK d \in retrier.batch, answer \in Answers :
          /\ Receive(d, answer)
          /\ retrier' = [retrier EXCEPT !.pc = "record", !.at = d, !.result = answer]
    BY DEF RetrySend
  <2>2. d \in Deliveries /\ d \in Nat
    BY DeliveryAssumption DEF DeliveryInv, TypeOK
  <2>3. taken' \subseteq Deliveries
    BY <2>1, <2>2 DEF Receive, DeliveryInv, TypeOK, Answers
  <2>4. retrier' \in [pc : {"idle", "send", "record"}, batch : SUBSET Deliveries,
                      at : Nat, result : Results]
    BY <2>1, <2>2 DEF DeliveryInv, TypeOK, Results
  <2> QED
    BY <2>3, <2>4 DEF RetrySend, DeliveryInv, TypeOK
<1>2. ResultsTrue'
  BY DeliveryAssumption
  DEF DeliveryInv, ResultsTrue, DeliveredWasTaken, RetrySend, Receive, Answers, TypeOK, Sending, NotSending, Results, DeliveryStatus
<1>3. FirstAttemptAlone'
  BY DeliveryAssumption
  DEF DeliveryInv, ResultsTrue, FirstAttemptAlone, Made, RetrySend, Receive, Answers, TypeOK, Sending, NotSending, Results, DeliveryStatus
<1>4. RetriesCounted'
  BY DeliveryAssumption
  DEF DeliveryInv, ResultsTrue, FirstAttemptAlone, RetriesCounted, Made, RetrySend, Receive, Answers, TypeOK, Sending, NotSending, Results, DeliveryStatus
<1> QED
  BY <1>1, <1>2, <1>3, <1>4 DEF DeliveryInv

(* The rest of a batch is a batch.                                         *)
LEMMA NextRowTyped ==
  ASSUME TypeOK, NextRow
  PROVE  retrier' \in [pc : {"idle", "send", "record"}, batch : SUBSET Deliveries,
                       at : Nat, result : Results]
<1>1. CASE retrier.batch \ {retrier.at} = {}
  BY <1>1 DEF NextRow, Waiting, Results, Answers
<1>2. CASE retrier.batch \ {retrier.at} # {}
  <2>1. retrier' = [retrier EXCEPT !.pc = "send",
                                   !.batch = retrier.batch \ {retrier.at}]
    BY <1>2 DEF NextRow
  <2>2. retrier.batch \ {retrier.at} \in SUBSET Deliveries
    BY DEF TypeOK
  <2> QED
    BY <2>1, <2>2 DEF TypeOK
<1> QED
  BY <1>1, <1>2

LEMMA RetryDeliveredKeeps ==
  ASSUME DeliveryInv, RetryDelivered PROVE DeliveryInv'
<1>1. TypeOK'
  <2>1. retrier' \in [pc : {"idle", "send", "record"}, batch : SUBSET Deliveries,
                      at : Nat, result : Results]
    BY NextRowTyped DEF RetryDelivered, DeliveryInv
  <2> QED
    <3>1. retrier.at \in Deliveries
      BY DEF RetryDelivered, DeliveryInv, ResultsTrue, TypeOK
    <3>2. attempts' \in [Deliveries -> Nat]
      BY <3>1 DEF RetryDelivered, Attempted, DeliveryInv, TypeOK
    <3>3. status' \in [Deliveries -> DeliveryStatus]
      BY <3>1 DEF RetryDelivered, DeliveryInv, TypeOK, DeliveryStatus
    <3> QED
      BY <2>1, <3>2, <3>3 DEF RetryDelivered, DeliveryInv, TypeOK
<1>2. ResultsTrue'
  BY DeliveryAssumption
  DEF DeliveryInv, ResultsTrue, DeliveredWasTaken, RetryDelivered, Accepted, Attempted, NextRow, Waiting, TypeOK, Sending, NotSending, Results, Answers, DeliveryStatus
<1>3. FirstAttemptAlone'
  BY DeliveryAssumption
  DEF DeliveryInv, ResultsTrue, FirstAttemptAlone, Made, RetryDelivered, Accepted, Attempted, NextRow, Waiting, TypeOK, Sending, NotSending, Results, Answers, DeliveryStatus
<1>4. RetriesCounted'
  BY DeliveryAssumption
  DEF DeliveryInv, ResultsTrue, FirstAttemptAlone, RetriesCounted, Made, RetryDelivered, Accepted, Attempted, NextRow, Waiting, TypeOK, Sending, NotSending, Results, Answers, DeliveryStatus
<1> QED
  BY <1>1, <1>2, <1>3, <1>4 DEF DeliveryInv

LEMMA RetryDeliveredThrowsKeeps ==
  ASSUME DeliveryInv, RetryDeliveredThrows PROVE DeliveryInv'
<1>1. TypeOK'
  BY DeliveryAssumption DEF DeliveryInv, ResultsTrue, RetryDeliveredThrows, Accepted, OutOfService, TypeOK, Sending, NotSending, Results, Answers, DeliveryStatus
<1>2. ResultsTrue'
  BY DeliveryAssumption
  DEF DeliveryInv, ResultsTrue, DeliveredWasTaken, RetryDeliveredThrows, Accepted, OutOfService, TypeOK, Sending, NotSending, Results, Answers, DeliveryStatus
<1>3. FirstAttemptAlone'
  BY DeliveryAssumption
  DEF DeliveryInv, ResultsTrue, FirstAttemptAlone, Made, RetryDeliveredThrows, Accepted, OutOfService, TypeOK, Sending, NotSending, Results, Answers, DeliveryStatus
<1>4. RetriesCounted'
  BY DeliveryAssumption
  DEF DeliveryInv, ResultsTrue, FirstAttemptAlone, RetriesCounted, Made, RetryDeliveredThrows, Accepted, OutOfService, TypeOK, Sending, NotSending, Results, Answers, DeliveryStatus
<1> QED
  BY <1>1, <1>2, <1>3, <1>4 DEF DeliveryInv

LEMMA RetryFailedKeeps ==
  ASSUME DeliveryInv, RetryFailed PROVE DeliveryInv'
<1>1. TypeOK'
  <2>1. retrier' \in [pc : {"idle", "send", "record"}, batch : SUBSET Deliveries,
                      at : Nat, result : Results]
    BY NextRowTyped DEF RetryFailed, DeliveryInv
  <2> QED
    <3>1. retrier.at \in Deliveries
      BY DEF RetryFailed, DeliveryInv, ResultsTrue, TypeOK
    <3>2. attempts' \in [Deliveries -> Nat]
      BY <3>1 DEF RetryFailed, InVain, Attempted, DeliveryInv, TypeOK
    <3>3. status' \in [Deliveries -> DeliveryStatus]
      BY <3>1 DEF RetryFailed, InVain, DeliveryInv, TypeOK, DeliveryStatus
    <3> QED
      BY <2>1, <3>2, <3>3 DEF RetryFailed, DeliveryInv, TypeOK
<1>2. ResultsTrue'
  BY DeliveryAssumption
  DEF DeliveryInv, ResultsTrue, DeliveredWasTaken, RetryFailed, Accepted, Attempted, InVain, NextRow, Waiting, TypeOK, Sending, NotSending, Results, Answers, DeliveryStatus
<1>3. FirstAttemptAlone'
  BY DeliveryAssumption
  DEF DeliveryInv, ResultsTrue, FirstAttemptAlone, Made, RetryFailed, Accepted, Attempted, InVain, NextRow, Waiting, TypeOK, Sending, NotSending, Results, Answers, DeliveryStatus
<1>4. RetriesCounted'
  BY DeliveryAssumption
  DEF DeliveryInv, ResultsTrue, FirstAttemptAlone, RetriesCounted, Made, RetryFailed, Accepted, Attempted, InVain, NextRow, Waiting, TypeOK, Sending, NotSending, Results, Answers, DeliveryStatus
<1> QED
  BY <1>1, <1>2, <1>3, <1>4 DEF DeliveryInv

LEMMA RetryFailedThrowsKeeps ==
  ASSUME DeliveryInv, RetryFailedThrows PROVE DeliveryInv'
<1>1. TypeOK'
  BY DeliveryAssumption DEF DeliveryInv, ResultsTrue, RetryFailedThrows, Accepted, OutOfService, Waiting, TypeOK, Sending, NotSending, Results, Answers, DeliveryStatus
<1>2. ResultsTrue'
  BY DeliveryAssumption
  DEF DeliveryInv, ResultsTrue, DeliveredWasTaken, RetryFailedThrows, Accepted, OutOfService, Waiting, TypeOK, Sending, NotSending, Results, Answers, DeliveryStatus
<1>3. FirstAttemptAlone'
  BY DeliveryAssumption
  DEF DeliveryInv, ResultsTrue, FirstAttemptAlone, Made, RetryFailedThrows, Accepted, OutOfService, Waiting, TypeOK, Sending, NotSending, Results, Answers, DeliveryStatus
<1>4. RetriesCounted'
  BY DeliveryAssumption
  DEF DeliveryInv, ResultsTrue, FirstAttemptAlone, RetriesCounted, Made, RetryFailedThrows, Accepted, OutOfService, Waiting, TypeOK, Sending, NotSending, Results, Answers, DeliveryStatus
<1> QED
  BY <1>1, <1>2, <1>3, <1>4 DEF DeliveryInv

LEMMA RestartKeeps ==
  ASSUME DeliveryInv, Restart PROVE DeliveryInv'
<1>1. TypeOK'
  BY DeliveryAssumption DEF DeliveryInv, ResultsTrue, Restart, OutOfService, Waiting, TypeOK, Sending, NotSending, Results, Answers, DeliveryStatus
<1>2. ResultsTrue'
  BY DeliveryAssumption
  DEF DeliveryInv, ResultsTrue, DeliveredWasTaken, Restart, OutOfService, Waiting, TypeOK, Sending, NotSending, Results, Answers, DeliveryStatus
<1>3. FirstAttemptAlone'
  BY DeliveryAssumption
  DEF DeliveryInv, ResultsTrue, FirstAttemptAlone, Made, Restart, OutOfService, Waiting, TypeOK, Sending, NotSending, Results, Answers, DeliveryStatus
<1>4. RetriesCounted'
  BY DeliveryAssumption
  DEF DeliveryInv, ResultsTrue, FirstAttemptAlone, RetriesCounted, Made, Restart, OutOfService, Waiting, TypeOK, Sending, NotSending, Results, Answers, DeliveryStatus
<1> QED
  BY <1>1, <1>2, <1>3, <1>4 DEF DeliveryInv

-----------------------------------------------------------------------------
(* Theorems                                                                *)

LEMMA InitHolds == Init => DeliveryInv
<1> SUFFICES ASSUME Init PROVE DeliveryInv
  OBVIOUS
<1>1. TypeOK
  BY DeliveryAssumption
  DEF Init, TypeOK, Waiting, NotSending, Results, Answers, DeliveryStatus
<1>2. ResultsTrue /\ FirstAttemptAlone /\ RetriesCounted
  BY DeliveryAssumption
  DEF Init, ResultsTrue, DeliveredWasTaken, FirstAttemptAlone, RetriesCounted,
      Made, Waiting
<1> QED
  BY <1>1, <1>2 DEF DeliveryInv

LEMMA StepKeeps == DeliveryInv /\ [Next]_vars => DeliveryInv'
<1> SUFFICES ASSUME DeliveryInv, [Next]_vars PROVE DeliveryInv'
  OBVIOUS
<1>1. CASE \E d \in Deliveries : Dispatch(d) \/ DispatchStep(d)
  BY <1>1, DispatchKeeps, SendKeeps, RecordDeliveredKeeps,
     RecordDeliveredThrowsKeeps, RecordFailedKeeps, RecordFailedThrowsKeeps
  DEF DispatchStep
<1>2. CASE RetryStep
  BY <1>2, StartRetriesKeeps, RetrySendKeeps, RetryDeliveredKeeps,
     RetryDeliveredThrowsKeeps, RetryFailedKeeps, RetryFailedThrowsKeeps
  DEF RetryStep
<1>3. CASE Restart
  BY <1>3, RestartKeeps
<1>4. CASE UNCHANGED vars
  BY <1>4
  DEF vars, DeliveryInv, TypeOK, ResultsTrue, DeliveredWasTaken,
      FirstAttemptAlone, RetriesCounted, Made
<1> QED
  BY <1>1, <1>2, <1>3, <1>4 DEF Next

(* The rows, the dispatch calls and the retrier's batch stay related as    *)
(* DeliveryInv says, however the two loops of SangaPayWebhookDispatcher    *)
(* interleave and wherever the process restarts.                           *)
THEOREM Invariance == Spec => []DeliveryInv
<1>1. Init => DeliveryInv
  BY InitHolds
<1>2. DeliveryInv /\ [Next]_vars => DeliveryInv'
  BY StepKeeps
<1> QED
  BY <1>1, <1>2, PTL DEF Spec

(* dispatch and retryFailedDeliveries together never count more than       *)
(* 2 * maxAttempts - 1 attempts on a row.                                  *)
THEOREM AttemptsEnd == Spec => []AttemptsBounded
<1>1. DeliveryInv => AttemptsBounded
  <2> SUFFICES ASSUME DeliveryInv, NEW d \in Deliveries
               PROVE  attempts[d] <= 2 * MaxAttempts - 1
    BY DEF AttemptsBounded
  <2>1. Made(d) \in Int /\ Made(d) <= MaxAttempts
    BY DeliveryAssumption DEF DeliveryInv, TypeOK, Made, Sending, NotSending
  <2>2. attempts[d] \in Nat /\ attempts[d] <= Made(d) + MaxAttempts - 1
    BY DEF DeliveryInv, TypeOK, RetriesCounted
  <2> QED
    BY <2>1, <2>2, DeliveryAssumption
<1> QED
  BY <1>1, Invariance, PTL

(* No row is DELIVERED that SangaPay has not taken, whatever throws.       *)
THEOREM DeliveredTaken == Spec => []DeliveredWasTaken
<1>1. DeliveryInv => DeliveredWasTaken
  BY DEF DeliveryInv, ResultsTrue
<1> QED
  BY <1>1, Invariance, PTL

(* Only a dispatch call past its first attempt sets a DELIVERED row back;  *)
(* a retry that works from an outdated batch does not.                     *)
THEOREM TakenBackByDispatch == Spec => OnlyDispatchTakesBack
<1> DEFINE A == \A d \in Deliveries :
                  status[d] = "DELIVERED" /\ status'[d] # "DELIVERED" =>
                    /\ dispatcher[d].pc = "record" /\ dispatcher[d].attempt > 1
                    /\ status'[d] = "FAILED"
<1>1. DeliveryInv /\ [Next]_vars => [A]_vars
  <2> SUFFICES ASSUME DeliveryInv, Next, NEW d \in Deliveries,
                      status[d] = "DELIVERED", status'[d] # "DELIVERED"
               PROVE  /\ dispatcher[d].pc = "record" /\ dispatcher[d].attempt > 1
                      /\ status'[d] = "FAILED"
    OBVIOUS
  <2>1. status \in [Deliveries -> DeliveryStatus]
    BY DEF DeliveryInv, TypeOK
  <2>2. RecordFailed(d)
    <3>1. ~ \E e \in Deliveries :
             \/ Dispatch(e) \/ Send(e) \/ RecordDelivered(e)
             \/ RecordDeliveredThrows(e) \/ RecordFailedThrows(e)
      BY <2>1
      DEF Dispatch, Send, RecordDelivered, RecordDeliveredThrows,
          RecordFailedThrows
    <3>2. ~ RetryStep
      BY <2>1
      DEF RetryStep, StartRetries, RetrySend, RetryDelivered,
          RetryDeliveredThrows, RetryFailed, InVain, RetryFailedThrows
    <3>3. ~ Restart
      BY DEF Restart
    <3>4. PICK e \in Deliveries : RecordFailed(e)
      BY <3>1, <3>2, <3>3 DEF Next, DispatchStep
    <3>5. e = d
      BY <2>1, <3>4 DEF RecordFailed
    <3> QED
      BY <3>4, <3>5
  <2>3. dispatcher[d].pc = "record" /\ status'[d] = "FAILED"
    BY <2>1, <2>2 DEF RecordFailed
  <2>4. Made(d) # 0
    BY <2>3 DEF DeliveryInv, FirstAttemptAlone
  <2>5. dispatcher[d].attempt > 1
    BY <2>3, <2>4, DeliveryAssumption DEF DeliveryInv, TypeOK, Sending, NotSending, Made
  <2> QED
    BY <2>3, <2>5
<1> QED
  BY <1>1, Invariance, PTL DEF Spec, OnlyDispatchTakesBack

=============================================================================
