------------------------ MODULE ProviderCallsProofs ------------------------
(***************************************************************************)
(* Proofs about ProviderCalls, for any submissions, any number of attempts *)
(* and any fees: the money of a submission moves at most once and at the   *)
(* agreed fee, whatever is lost, late or repeated.                         *)
(***************************************************************************)
EXTENDS ProviderCalls, TLAPS

-----------------------------------------------------------------------------
(* The inductive invariant, one submission at a time                       *)

Money(c) == IF flow[c] = "wisePayout" THEN "fund" ELSE flow[c]

OperationsOf(c) == IF flow[c] = "wisePayout" THEN WiseOperations ELSE {flow[c]}

(* What the provider knows the money request of a submission by: the same  *)
(* key whichever attempt arrives, since a Wise request has one attempt.    *)
MoneyKey(c) == [call |-> c, op |-> Money(c), attempt |-> 1]

OnWire(c, op) == [call |-> c, op |-> op, attempt |-> 1] \in wire

Asks(c) ==
  /\ call[c].pc \in Operations => call[c].pc \in OperationsOf(c)
  /\ flow[c] = "wisePayout" => call[c].attempt = 1
  /\ \A q \in wire : q.call = c =>
       /\ q.op \in OperationsOf(c)
       /\ flow[c] = "wisePayout" => q.attempt = 1

Pays(c) ==
  /\ payments[c] = IF MoneyKey(c) \in keys THEN 1 ELSE 0
  /\ Returned(c, "ok") /\ MovesMoney(call[c].pc) => payments[c] = 1
  /\ call[c].pc = "succeeded" => payments[c] = 1

(* A Wise quote request that is still under way belongs to a submission    *)
(* that has not gone, and will not go, further.                            *)
Agrees(c) ==
  flow[c] = "wisePayout" =>
    /\ OnWire(c, "quote") =>
         /\ payments[c] = 0 /\ ~ OnWire(c, "fund")
         /\ \/ call[c].pc \in {"failed", "crashed"}
            \/ call[c].pc = "quote" /\ call[c].result \in {"awaited", "none"}
    /\ call[c].pc \in {"idle", "quoted", "recipient", "quote"} =>
         payments[c] = 0 /\ ~ OnWire(c, "fund")
    /\ call[c].pc \in {"transfer", "fund"} \/ OnWire(c, "fund") \/ payments[c] # 0 =>
         offer[c] = agreed[c]

CallInv(c) == Asks(c) /\ Pays(c) /\ Agrees(c)

CallsInv == TypeOK /\ \A c \in Calls : CallInv(c)

Call == [pc : Operations \cup Ends \cup {"idle", "quoted"},
         attempt : 1..Attempts,
         result : Results \cup {"unsent", "awaited"}]

-----------------------------------------------------------------------------
(* Records                                                                 *)

LEMMA RequestFields ==
  ASSUME NEW S, NEW T, NEW U, NEW q \in [call : S, op : T, attempt : U], NEW n
  PROVE /\ q = [call |-> q.call, op |-> q.op, attempt |-> q.attempt]
        /\ [q EXCEPT !.attempt = n] = [call |-> q.call, op |-> q.op, attempt |-> n]
  OBVIOUS

LEMMA CallFields ==
  ASSUME NEW S, NEW T, NEW U, NEW x \in [pc : S, attempt : T, result : U],
         NEW pc, NEW result
  PROVE /\ [x EXCEPT !.pc = pc] = [pc |-> pc, attempt |-> x.attempt, result |-> x.result]
        /\ [x EXCEPT !.result = result]
             = [pc |-> x.pc, attempt |-> x.attempt, result |-> result]
<1>1. [x EXCEPT !.pc = pc] = [pc |-> pc, attempt |-> x.attempt, result |-> x.result]
  OBVIOUS
<1>2. [x EXCEPT !.result = result] = [pc |-> x.pc, attempt |-> x.attempt, result |-> result]
  OBVIOUS
<1> QED
  BY <1>1, <1>2

-----------------------------------------------------------------------------

(* What a step leaves alone of a submission keeps its invariant.           *)
LEMMA Untouched ==
  ASSUME TypeOK, NEW c \in Calls, CallInv(c),
         flow'[c] = flow[c], call'[c] = call[c], agreed'[c] = agreed[c],
         offer'[c] = offer[c], payments'[c] = payments[c],
         wire' \subseteq Requests,
         \A q \in Requests : q.call = c => (q \in wire' <=> q \in wire),
         MoneyKey(c) \in keys' <=> MoneyKey(c) \in keys
  PROVE CallInv(c)'
<1>1. MoneyKey(c)' = MoneyKey(c) /\ OperationsOf(c)' = OperationsOf(c)
  BY DEF MoneyKey, Money, OperationsOf
<1>2. \A q \in wire' : q.call = c => q \in wire
  OBVIOUS
<1>3. Asks(c)'
  BY <1>1, <1>2 DEF CallInv, Asks
<1>4. Pays(c)'
  BY <1>1 DEF CallInv, Pays, Returned
<1>5. ASSUME NEW op \in Operations PROVE OnWire(c, op)' <=> OnWire(c, op)
  <2>1. [call |-> c, op |-> op, attempt |-> 1] \in Requests
    BY CallAssumption DEF Requests
  <2> QED
    BY <2>1 DEF OnWire
<1>6. Agrees(c)'
  BY <1>5 DEF CallInv, Agrees, Operations, WiseOperations
<1> QED
  BY <1>3, <1>4, <1>6 DEF CallInv

(* A step of the client of c which sends nothing.                          *)
LEMMA ClientKeeps ==
  ASSUME CallsInv, NEW c \in Calls, NEW x \in Call,
         call' = [call EXCEPT ![c] = x],
         agreed' \in [Calls -> Fees],
         \A d \in Calls \ {c} : agreed'[d] = agreed[d],
         UNCHANGED <<flow, wire, externalVars>>,
         CallInv(c)'
  PROVE CallsInv'
<1>1. TypeOK'
  BY DEF CallsInv, TypeOK, externalVars, Call
<1>2. ASSUME NEW d \in Calls, d # c PROVE CallInv(d)'
  BY <1>2, Untouched DEF CallsInv, TypeOK, externalVars, Money, MoneyKey
<1> QED
  BY <1>1, <1>2 DEF CallsInv

(* The same, when the agreed fee stays and neither the invariant of what   *)
(* was asked nor that of what was paid speaks of the new step.             *)
LEMMA StepKeeps ==
  ASSUME CallsInv, NEW c \in Calls, NEW x \in Call,
         call' = [call EXCEPT ![c] = x],
         UNCHANGED <<flow, wire, agreed, externalVars>>,
         x.pc \in Operations => x.pc \in OperationsOf(c),
         flow[c] = "wisePayout" => x.attempt = 1,
         x.pc \in Operations /\ x.result = "ok" /\ MovesMoney(x.pc) => payments[c] = 1,
         x.pc = "succeeded" => payments[c] = 1,
         flow[c] = "wisePayout" =>
           /\ OnWire(c, "quote") =>
                \/ x.pc \in {"failed", "crashed"}
                \/ x.pc = "quote" /\ x.result \in {"awaited", "none"}
           /\ x.pc \in {"idle", "quoted", "recipient", "quote"} =>
                payments[c] = 0 /\ ~ OnWire(c, "fund")
           /\ x.pc \in {"transfer", "fund"} => offer[c] = agreed[c]
  PROVE CallsInv'
<1>1. call'[c] = x /\ CallInv(c)
  BY DEF CallsInv, TypeOK
<1>2. MoneyKey(c)' = MoneyKey(c) /\ OperationsOf(c)' = OperationsOf(c)
  BY DEF MoneyKey, Money, OperationsOf
<1>3. Asks(c)'
  BY <1>1, <1>2 DEF CallInv, Asks
<1>4. Pays(c)'
  BY <1>1, <1>2 DEF CallInv, Pays, Returned, externalVars
<1>5. \A op : OnWire(c, op)' <=> OnWire(c, op)
  BY DEF OnWire
<1>6. Agrees(c)'
  BY <1>1, <1>5 DEF CallInv, Agrees, externalVars
<1>7. CallInv(c)'
  BY <1>3, <1>4, <1>6 DEF CallInv
<1>8. agreed' \in [Calls -> Fees] /\ agreed' = agreed
  BY DEF CallsInv, TypeOK
<1> QED
  BY <1>7, <1>8, ClientKeeps

-----------------------------------------------------------------------------
(* The steps of the client                                                 *)

LEMMA CallType ==
  ASSUME CallsInv, NEW c \in Calls
  PROVE /\ call \in [Calls -> Call] /\ call[c] \in Call
        /\ call[c].pc \in Operations \cup Ends \cup {"idle", "quoted"}
        /\ call[c].attempt \in 1..Attempts
        /\ call[c].result \in Results \cup {"unsent", "awaited"}
        /\ CallInv(c)
        /\ flow[c] \in Flows
<1>1. call \in [Calls -> Call] /\ call[c] \in Call
  BY DEF CallsInv, TypeOK, Call
<1>2. /\ call[c].pc \in Operations \cup Ends \cup {"idle", "quoted"}
      /\ call[c].attempt \in 1..Attempts
      /\ call[c].result \in Results \cup {"unsent", "awaited"}
  BY <1>1 DEF Call
<1> QED
  BY <1>1, <1>2 DEF CallsInv, TypeOK

LEMMA CallExcept ==
  ASSUME CallsInv, NEW c \in Calls, NEW pc, NEW result
  PROVE /\ [call EXCEPT ![c].pc = pc]
             = [call EXCEPT ![c] = [pc |-> pc, attempt |-> call[c].attempt,
                                    result |-> call[c].result]]
        /\ [call EXCEPT ![c].result = result]
             = [call EXCEPT ![c] = [pc |-> call[c].pc, attempt |-> call[c].attempt,
                                    result |-> result]]
<1>1. call[c] \in [pc : Operations \cup Ends \cup {"idle", "quoted"},
                   attempt : 1..Attempts,
                   result : Results \cup {"unsent", "awaited"}]
  BY CallType DEF Call
<1>2. /\ [call[c] EXCEPT !.pc = pc]
           = [pc |-> pc, attempt |-> call[c].attempt, result |-> call[c].result]
      /\ [call[c] EXCEPT !.result = result]
           = [pc |-> call[c].pc, attempt |-> call[c].attempt, result |-> result]
  BY <1>1, CallFields
<1> QED
  BY <1>2

LEMMA EndKeeps ==
  ASSUME CallsInv, NEW c \in Calls, NEW how \in Ends, End(c, how),
         UNCHANGED <<flow, wire, agreed, externalVars>>,
         how = "succeeded" =>
           payments[c] = 1 /\ (flow[c] = "wisePayout" => ~ OnWire(c, "quote"))
  PROVE CallsInv'
<1> DEFINE x == [pc |-> how, attempt |-> call[c].attempt, result |-> call[c].result]
<1>1. call' = [call EXCEPT ![c] = x]
  BY CallExcept DEF End
<1>2. x \in Call
  BY CallType DEF Call
<1>3. /\ x.pc = how /\ x.attempt = call[c].attempt /\ x.result = call[c].result
  OBVIOUS
<1> HIDE DEF x
<1>4. how \notin Operations \cup {"idle", "quoted"}
  BY DEF Ends, Operations, WiseOperations, KryptaPayOperations
<1>5. flow[c] = "wisePayout" => x.attempt = 1
  BY <1>3, CallType DEF CallInv, Asks
<1>6. how \in {"failed", "crashed"} \/ how = "succeeded"
  BY DEF Ends
<1>7. how \notin {"transfer", "fund", "recipient", "quote"}
  BY <1>4 DEF Operations, WiseOperations
<1> QED
  BY <1>1, <1>2, <1>3, <1>4, <1>5, <1>6, <1>7, StepKeeps

LEMMA QuoteKeeps ==
  ASSUME CallsInv, NEW c \in Calls, Quote(c)
  PROVE CallsInv'
<1> DEFINE x == [pc |-> "quoted", attempt |-> call[c].attempt, result |-> call[c].result]
<1>1. call' = [call EXCEPT ![c] = x]
  BY CallExcept DEF Quote
<1>2. x \in Call
  BY CallType DEF Call
<1>3. x.pc = "quoted" /\ x.attempt = call[c].attempt /\ call[c].pc = "idle"
  BY DEF Quote
<1> HIDE DEF x
<1>4. /\ agreed' = [agreed EXCEPT ![c] = wiseFee]
      /\ UNCHANGED <<flow, wire, externalVars>>
      /\ agreed' \in [Calls -> Fees]
      /\ \A d \in Calls \ {c} : agreed'[d] = agreed[d]
  BY DEF Quote, CallsInv, TypeOK
<1>5. call'[c] = x /\ CallInv(c)
  BY <1>1, CallType
<1>6. Asks(c)'
  BY <1>3, <1>4, <1>5
  DEF CallInv, Asks, OperationsOf, Operations, WiseOperations, KryptaPayOperations
<1>7. Pays(c)'
  BY <1>3, <1>4, <1>5
  DEF CallInv, Pays, Returned, externalVars, MoneyKey, Money, Operations,
      WiseOperations, KryptaPayOperations
<1>8. \A op : OnWire(c, op)' <=> OnWire(c, op)
  BY <1>4 DEF OnWire
<1>9. Agrees(c)'
  BY <1>3, <1>4, <1>5, <1>8 DEF CallInv, Agrees, externalVars
<1>10. CallInv(c)'
  BY <1>6, <1>7, <1>9 DEF CallInv
<1> QED
  BY <1>1, <1>2, <1>4, <1>10, ClientKeeps

LEMMA SubmitKeeps ==
  ASSUME CallsInv, NEW c \in Calls, Submit(c)
  PROVE CallsInv'
<1> DEFINE x == [pc |-> FirstOperation(c), attempt |-> 1, result |-> "unsent"]
<1>1. call' = [call EXCEPT ![c] = x] /\ UNCHANGED <<flow, wire, agreed, externalVars>>
  BY DEF Submit, Begin
<1>2. call[c].pc = "quoted" /\ CallInv(c) /\ flow[c] \in Flows
  BY CallType DEF Submit
<1>3. /\ FirstOperation(c) \in OperationsOf(c) /\ FirstOperation(c) \in Operations
      /\ FirstOperation(c) # "succeeded"
      /\ flow[c] = "wisePayout" => FirstOperation(c) = "recipient"
  BY <1>2 DEF FirstOperation, OperationsOf, Flows, Operations, WiseOperations,
              KryptaPayOperations
<1>4. x \in Call
  BY <1>3, CallAssumption DEF Call
<1>5. x.pc = FirstOperation(c) /\ x.attempt = 1 /\ x.result = "unsent"
  OBVIOUS
<1> HIDE DEF x
<1>6. flow[c] = "wisePayout" =>
        ~ OnWire(c, "quote") /\ payments[c] = 0 /\ ~ OnWire(c, "fund")
  BY <1>2 DEF CallInv, Agrees
<1> QED
  BY <1>1, <1>3, <1>4, <1>5, <1>6, StepKeeps

LEMMA NoResponseKeeps ==
  ASSUME CallsInv, NEW c \in Calls, NoResponse(c)
  PROVE CallsInv'
<1> DEFINE x == [pc |-> call[c].pc, attempt |-> call[c].attempt, result |-> "none"]
<1>1. call' = [call EXCEPT ![c] = x] /\ UNCHANGED <<flow, wire, agreed, externalVars>>
  BY CallExcept DEF NoResponse
<1>2. call[c].pc \in Operations /\ call[c].result = "awaited" /\ CallInv(c)
  BY CallType DEF NoResponse, Returned
<1>3. x \in Call
  BY CallType DEF Call, Results
<1>4. x.pc = call[c].pc /\ x.attempt = call[c].attempt /\ x.result = "none"
  OBVIOUS
<1> HIDE DEF x
<1>5. call[c].pc # "succeeded"
  BY <1>2 DEF Operations, WiseOperations, KryptaPayOperations
<1>6. /\ call[c].pc \in OperationsOf(c)
      /\ flow[c] = "wisePayout" => call[c].attempt = 1
  BY <1>2 DEF CallInv, Asks
<1>7. Agrees(c)
  BY <1>2 DEF CallInv
<1> QED
  BY <1>1, <1>2, <1>3, <1>4, <1>5, <1>6, <1>7, StepKeeps DEF Agrees

LEMMA RetryKeeps ==
  ASSUME CallsInv, NEW c \in Calls, Retry(c)
  PROVE CallsInv'
<1> DEFINE n == call[c].attempt + 1
           x == [pc |-> call[c].pc, attempt |-> n, result |-> "unsent"]
<1>1. call' = [call EXCEPT ![c] = x] /\ UNCHANGED <<flow, wire, agreed, externalVars>>
  BY DEF Retry, NextAttempt
<1>2. n \in 1..Attempts
  BY CallType, CallAssumption DEF Retry
<1> HIDE DEF n
<1>4. call[c].pc \in Operations /\ Idempotent(call[c].pc) /\ CallInv(c)
  BY CallType DEF Retry
<1>5. x \in Call
  BY <1>2, CallType DEF Call
<1>6. x.pc = call[c].pc /\ x.attempt = n /\ x.result = "unsent"
  OBVIOUS
<1> HIDE DEF x
<1>7. call[c].pc \in OperationsOf(c) /\ flow[c] # "wisePayout" /\ call[c].pc # "succeeded"
  BY <1>4 DEF CallInv, Asks, Idempotent, OperationsOf, WiseOperations, KryptaPayOperations
<1> QED
  BY <1>1, <1>5, <1>6, <1>7, StepKeeps

LEMMA ProceedKeeps ==
  ASSUME CallsInv, NEW c \in Calls, Proceed(c)
  PROVE CallsInv'
<1>1. /\ call[c].pc \in Operations /\ call[c].result = "ok" /\ CallInv(c)
      /\ UNCHANGED <<flow, wire, agreed, externalVars>>
      /\ flow[c] \in Flows
  BY CallType DEF Proceed, Returned
<1>2. call[c].pc \in OperationsOf(c)
  BY <1>1 DEF CallInv, Asks
<1>3. flow[c] = "wisePayout" => ~ OnWire(c, "quote")
  <2>1. call[c].pc \notin {"failed", "crashed"}
    BY <1>1 DEF Operations, WiseOperations, KryptaPayOperations
  <2> QED
    BY <1>1, <2>1 DEF CallInv, Agrees
<1>4. CASE call[c].pc = "quote" /\ ~ FeeUnchanged(c)
  <2>1. End(c, "failed")
    BY <1>4 DEF Proceed
  <2> QED
    BY <1>1, <2>1, EndKeeps DEF Ends
<1>5. CASE ~ (call[c].pc = "quote" /\ ~ FeeUnchanged(c)) /\ MovesMoney(call[c].pc)
  <2>1. End(c, "succeeded")
    BY <1>5 DEF Proceed
  <2>2. payments[c] = 1
    BY <1>1, <1>5 DEF CallInv, Pays, Returned
  <2> QED
    BY <1>1, <1>3, <2>1, <2>2, EndKeeps DEF Ends
<1>6. CASE ~ (call[c].pc = "quote" /\ ~ FeeUnchanged(c)) /\ ~ MovesMoney(call[c].pc)
  <2> DEFINE x == [pc |-> After(call[c].pc), attempt |-> 1, result |-> "unsent"]
  <2>1. call' = [call EXCEPT ![c] = x]
    BY <1>6 DEF Proceed, Begin
  <2>2. flow[c] = "wisePayout" /\ call[c].pc \in {"recipient", "quote", "transfer"}
    BY <1>1, <1>2, <1>6 DEF OperationsOf, MovesMoney, Flows, WiseOperations,
                            KryptaPayOperations
  <2>3. /\ call[c].pc = "recipient" => After(call[c].pc) = "quote"
        /\ call[c].pc = "quote" => After(call[c].pc) = "transfer"
        /\ call[c].pc = "transfer" => After(call[c].pc) = "fund"
    BY DEF After
  <2>4. After(call[c].pc) \in WiseOperations
    BY <2>2, <2>3 DEF WiseOperations
  <2>5. x \in Call
    BY <2>4, CallAssumption DEF Call, Operations
  <2>6. x.pc = After(call[c].pc) /\ x.attempt = 1 /\ x.result = "unsent"
    OBVIOUS
  <2> HIDE DEF x
  <2>7. x.pc \in OperationsOf(c)
    BY <2>2, <2>4, <2>6 DEF OperationsOf
  <2>8. x.pc # "succeeded"
    BY <2>4, <2>6 DEF WiseOperations
  <2>9. x.pc \in {"idle", "quoted", "recipient", "quote"} =>
          payments[c] = 0 /\ ~ OnWire(c, "fund")
    BY <1>1, <2>2, <2>3, <2>6 DEF CallInv, Agrees
  <2>10. x.pc \in {"transfer", "fund"} => offer[c] = agreed[c]
    BY <1>1, <1>6, <2>2, <2>3, <2>6 DEF CallInv, Agrees, FeeUnchanged
  <2> QED
    BY <1>1, <1>3, <2>1, <2>5, <2>6, <2>7, <2>8, <2>9, <2>10, StepKeeps
<1> QED
  BY <1>4, <1>5, <1>6

LEMMA SendKeeps ==
  ASSUME CallsInv, NEW c \in Calls, Send(c)
  PROVE CallsInv'
<1> DEFINE op == call[c].pc
           q == [call |-> c, op |-> op, attempt |-> call[c].attempt]
           x == [pc |-> op, attempt |-> call[c].attempt, result |-> "awaited"]
<1>1. /\ call[c].pc \in Operations /\ call[c].result = "unsent" /\ CallInv(c)
      /\ call[c].pc \in OperationsOf(c)
  BY CallType DEF Send, Returned, CallInv, Asks
<1>2. call' = [call EXCEPT ![c] = x]
  BY CallExcept DEF Send
<1>3. x \in Call
  BY CallType DEF Call
<1>4. x.pc = op /\ x.attempt = call[c].attempt /\ x.result = "awaited"
  OBVIOUS
<1>5. q \in Requests /\ q.call = c /\ q.op = op /\ q.attempt = call[c].attempt
  BY <1>1, CallType DEF Requests
<1>6. /\ wire' = wire \cup {q}
      /\ UNCHANGED <<flow, agreed, wiseFee, offer, keys, payments>>
  BY DEF Send, externalVars
<1> HIDE DEF x
<1>7. TypeOK'
  BY <1>2, <1>3, <1>5, <1>6 DEF CallsInv, TypeOK, Call
<1>8. ASSUME NEW d \in Calls, d # c PROVE CallInv(d)'
  <2>1. \A r \in Requests : r.call = d => (r \in wire' <=> r \in wire)
    BY <1>5, <1>6, <1>8
  <2>2. call'[d] = call[d] /\ wire' \subseteq Requests
    BY <1>2, <1>7, <1>8 DEF CallsInv, TypeOK
  <2>3. MoneyKey(d) \in keys' <=> MoneyKey(d) \in keys
    BY <1>6
  <2> QED
    BY <1>6, <2>1, <2>2, <2>3, Untouched DEF CallsInv
<1>9. CallInv(c)'
  <2>1. call'[c] = x
    BY <1>2, CallType
  <2>2. op # "succeeded" /\ op \notin {"failed", "crashed"}
    BY <1>1 DEF Operations, WiseOperations, KryptaPayOperations
  <2>3. MoneyKey(c)' = MoneyKey(c) /\ OperationsOf(c)' = OperationsOf(c)
    BY <1>6 DEF MoneyKey, Money, OperationsOf
  <2>4. Asks(c)'
    <3>1. flow[c] = "wisePayout" => call[c].attempt = 1
      BY <1>1 DEF CallInv, Asks
    <3>2. ASSUME NEW r \in wire', r.call = c
          PROVE r.op \in OperationsOf(c) /\ (flow[c] = "wisePayout" => r.attempt = 1)
      BY <1>1, <1>5, <1>6, <3>1, <3>2 DEF CallInv, Asks
    <3> QED
      BY <1>1, <1>4, <1>6, <2>1, <2>3, <3>1, <3>2 DEF Asks
  <2>5. Pays(c)'
    BY <1>1, <1>4, <1>6, <2>1, <2>2, <2>3 DEF CallInv, Pays, Returned
  <2>6. ASSUME NEW o, o # op PROVE OnWire(c, o)' <=> OnWire(c, o)
    <3>1. [call |-> c, op |-> o, attempt |-> 1].op = o
      OBVIOUS
    <3> QED
      BY <1>5, <1>6, <2>6, <3>1 DEF OnWire
  <2>7. Agrees(c)'
    <3> SUFFICES ASSUME flow[c] = "wisePayout" PROVE Agrees(c)'
      BY <1>6 DEF Agrees
    <3>1. /\ OnWire(c, "quote") => call[c].pc \in {"failed", "crashed"}
          /\ call[c].pc \in {"recipient", "quote"} =>
               payments[c] = 0 /\ ~ OnWire(c, "fund")
          /\ call[c].pc \in {"transfer", "fund"} \/ OnWire(c, "fund")
               \/ payments[c] # 0 => offer[c] = agreed[c]
          /\ call[c].pc \notin {"idle", "quoted"}
      BY <1>1 DEF CallInv, Agrees, Operations, WiseOperations, KryptaPayOperations
    <3>2. /\ call'[c].pc = op /\ call'[c].result = "awaited"
          /\ payments' = payments /\ offer' = offer /\ agreed' = agreed
      BY <1>4, <1>6, <2>1
    <3>3. op = "quote" => (OnWire(c, "fund")' <=> OnWire(c, "fund"))
      BY <2>6
    <3>4. op # "quote" => ~ OnWire(c, "quote")'
      BY <2>2, <2>6, <3>1
    <3>5. op # "fund" => (OnWire(c, "fund")' <=> OnWire(c, "fund"))
      BY <2>6
    <3> HIDE DEF op
    <3>6. op = call[c].pc
      BY DEF op
    <3> QED
      BY <3>1, <3>2, <3>3, <3>4, <3>5, <3>6 DEF Agrees
  <2> QED
    BY <2>4, <2>5, <2>7 DEF CallInv
<1> QED
  BY <1>7, <1>8, <1>9 DEF CallsInv

-----------------------------------------------------------------------------
(* The provider                                                            *)

(* Every money request of a submission bears its key.                      *)
LEMMA OneKey ==
  ASSUME CallsInv, NEW q \in wire, MovesMoney(q.op)
  PROVE q.call \in Calls /\ KeyOf(q) = MoneyKey(q.call)
<1> DEFINE c == q.call
<1>1. q \in [call : Calls, op : Operations, attempt : 1..Attempts] /\ c \in Calls
  BY DEF CallsInv, TypeOK, Requests
<1>2. flow[c] \in Flows /\ CallInv(c)
  BY <1>1, CallType
<1>3. q.op \in OperationsOf(c) /\ (flow[c] = "wisePayout" => q.attempt = 1)
  BY <1>2 DEF CallInv, Asks
<1>4. q.op = Money(c) /\ (Idempotent(q.op) \/ q.attempt = 1)
  BY <1>2, <1>3 DEF OperationsOf, Money, MovesMoney, Idempotent, Flows,
                    WiseOperations, KryptaPayOperations
<1>5. /\ q = [call |-> c, op |-> q.op, attempt |-> q.attempt]
      /\ [q EXCEPT !.attempt = 1] = [call |-> c, op |-> q.op, attempt |-> 1]
  BY <1>1, RequestFields
<1>6. KeyOf(q) = [call |-> c, op |-> q.op, attempt |-> 1]
  BY <1>4, <1>5 DEF KeyOf
<1> QED
  BY <1>1, <1>4, <1>6 DEF MoneyKey

(* What a request does to the books of the provider.                       *)
LEMMA HandleEffect ==
  ASSUME CallsInv, NEW q \in wire, NEW answer \in Answers, Handle(q, answer)
  PROVE /\ q.call \in Calls
        /\ offer' \in [Calls -> Fees]
        /\ \A d \in Calls : d # q.call \/ q.op # "quote" => offer'[d] = offer[d]
        /\ \/ UNCHANGED <<keys, payments>>
           \/ /\ MovesMoney(q.op)
              /\ MoneyKey(q.call) \notin keys /\ payments[q.call] = 0
              /\ keys' = keys \cup {MoneyKey(q.call)}
              /\ payments' = [payments EXCEPT ![q.call] = 1]
        /\ answer = "ok" /\ MovesMoney(q.op) => MoneyKey(q.call) \in keys'
<1>1. q.call \in Calls
  BY DEF CallsInv, TypeOK, Requests
<1>2. MovesMoney(q.op) => KeyOf(q) = MoneyKey(q.call)
  BY OneKey
<1>3. CASE UNCHANGED <<offer, keys, payments>> /\ answer # "ok"
  BY <1>1, <1>3 DEF CallsInv, TypeOK
<1>4. CASE Effect(q)
  <2>1. /\ offer' \in [Calls -> Fees]
        /\ \A d \in Calls : d # q.call \/ q.op # "quote" => offer'[d] = offer[d]
    BY <1>4 DEF Effect, CallsInv, TypeOK
  <2>2. CASE MovesMoney(q.op) /\ KeyOf(q) \notin keys
    <3>1. /\ keys' = keys \cup {KeyOf(q)}
          /\ payments' = [payments EXCEPT ![q.call] = @ + 1]
      BY <1>4, <2>2 DEF Effect
    <3>2. payments[q.call] = 0
      BY <1>1, <1>2, <2>2, CallType DEF CallInv, Pays
    <3>3. payments' = [payments EXCEPT ![q.call] = 1]
      BY <3>1, <3>2
    <3> QED
      BY <1>1, <1>2, <2>1, <2>2, <3>1, <3>2, <3>3
  <2>3. CASE ~ (MovesMoney(q.op) /\ KeyOf(q) \notin keys)
    <3>1. UNCHANGED <<keys, payments>>
      BY <1>4, <2>3 DEF Effect
    <3> QED
      BY <1>1, <1>2, <2>1, <2>3, <3>1
  <2> QED
    BY <2>2, <2>3
<1> QED
  BY <1>3, <1>4 DEF Handle

(* Where the submission is after a request of its own was handled.         *)
LEMMA HandleCall ==
  ASSUME CallsInv, NEW q \in wire, NEW answer \in Answers, Handle(q, answer)
  PROVE LET c == q.call IN
        /\ call' \in [Calls -> Call]
        /\ \A d \in Calls \ {c} : call'[d] = call[d]
        /\ call'[c].pc = call[c].pc /\ call'[c].attempt = call[c].attempt
        /\ \/ call'[c].result = call[c].result
           \/ /\ call[c].pc = q.op /\ call[c].attempt = q.attempt
              /\ call[c].pc \in Operations
              /\ call[c].result = "awaited" /\ call'[c].result = answer
<1> DEFINE c == q.call
           x == [pc |-> call[c].pc, attempt |-> call[c].attempt, result |-> answer]
<1>1. c \in Calls /\ call \in [Calls -> Call]
  BY CallType DEF CallsInv, TypeOK, Requests
<1>2. CASE /\ Returned(c, "awaited")
           /\ call[c].pc = q.op /\ call[c].attempt = q.attempt
  <2>1. call' = [call EXCEPT ![c].result = answer]
    BY <1>2 DEF Handle
  <2>2. call' = [call EXCEPT ![c] = x]
    BY <1>1, <2>1, CallExcept
  <2>3. x \in Call
    BY <1>1, CallType DEF Call, Results
  <2>4. x.pc = call[c].pc /\ x.attempt = call[c].attempt /\ x.result = answer
    OBVIOUS
  <2> HIDE DEF x
  <2>5. call' \in [Calls -> Call] /\ call'[c] = x /\ \A d \in Calls \ {c} : call'[d] = call[d]
    BY <1>1, <2>2, <2>3
  <2> QED
    BY <1>2, <2>4, <2>5 DEF Returned
<1>3. CASE ~ (/\ Returned(c, "awaited")
              /\ call[c].pc = q.op /\ call[c].attempt = q.attempt)
  <2>1. call' = call
    BY <1>3 DEF Handle
  <2> QED
    BY <1>1, <2>1
<1> QED
  BY <1>2, <1>3

LEMMA HandleKeeps ==
  ASSUME CallsInv, NEW q \in wire, NEW answer \in Answers, Handle(q, answer)
  PROVE CallsInv'
<1> DEFINE c == q.call
<1>1. /\ q \in Requests /\ c \in Calls /\ CallInv(c) /\ flow[c] \in Flows
      /\ wire' = wire \ {q} /\ UNCHANGED <<flow, agreed, wiseFee>>
  BY CallType DEF CallsInv, TypeOK, Requests, Handle
<1>2. /\ offer' \in [Calls -> Fees]
      /\ \A d \in Calls : d # c \/ q.op # "quote" => offer'[d] = offer[d]
      /\ \/ UNCHANGED <<keys, payments>>
         \/ /\ MovesMoney(q.op)
            /\ MoneyKey(c) \notin keys /\ payments[c] = 0
            /\ keys' = keys \cup {MoneyKey(c)}
            /\ payments' = [payments EXCEPT ![c] = 1]
      /\ answer = "ok" /\ MovesMoney(q.op) => MoneyKey(c) \in keys'
  BY HandleEffect
<1>3. /\ call' \in [Calls -> Call]
      /\ \A d \in Calls \ {c} : call'[d] = call[d]
      /\ call'[c].pc = call[c].pc /\ call'[c].attempt = call[c].attempt
      /\ \/ call'[c].result = call[c].result
         \/ /\ call[c].pc = q.op /\ call[c].attempt = q.attempt
            /\ call[c].pc \in Operations
            /\ call[c].result = "awaited" /\ call'[c].result = answer
  BY HandleCall
<1>4. MoneyKey(c).call = c
  BY DEF MoneyKey
<1>5. TypeOK'
  <2>1. MovesMoney(q.op) => MoneyKey(c) \in Requests
    BY <1>1, CallAssumption
    DEF MoneyKey, Money, Requests, Flows, Operations, WiseOperations, KryptaPayOperations
  <2>2. keys' \subseteq Requests /\ payments' \in [Calls -> Nat]
    BY <1>1, <1>2, <2>1 DEF CallsInv, TypeOK
  <2> QED
    BY <1>1, <1>2, <1>3, <2>2 DEF CallsInv, TypeOK, Call
<1>6. ASSUME NEW d \in Calls, d # c PROVE CallInv(d)'
  <2>1. MoneyKey(d) # MoneyKey(c)
    <3>1. MoneyKey(d).call = d
      BY DEF MoneyKey
    <3> QED
      BY <1>4, <1>6, <3>1
  <2>2. MoneyKey(d) \in keys' <=> MoneyKey(d) \in keys
    BY <1>2, <2>1
  <2>3. payments'[d] = payments[d]
    BY <1>1, <1>2, <1>6 DEF CallsInv, TypeOK
  <2>4. /\ wire' \subseteq Requests
        /\ \A r \in Requests : r.call = d => (r \in wire' <=> r \in wire)
    BY <1>1, <1>6 DEF CallsInv, TypeOK
  <2> QED
    BY <1>1, <1>2, <1>3, <1>6, <2>2, <2>3, <2>4, Untouched DEF CallsInv
<1>7. CallInv(c)'
  <2>1. MoneyKey(c)' = MoneyKey(c) /\ OperationsOf(c)' = OperationsOf(c)
    BY <1>1 DEF MoneyKey, Money, OperationsOf
  <2>2. Asks(c)'
    BY <1>1, <1>3, <2>1 DEF CallInv, Asks
  <2>3. /\ payments'[c] = IF MoneyKey(c) \in keys' THEN 1 ELSE 0
        /\ payments[c] = 1 => payments'[c] = 1
    BY <1>1, <1>2 DEF CallInv, Pays, CallsInv, TypeOK
  <2>4. Pays(c)'
    <3>1. ASSUME call'[c].pc \in Operations, call'[c].result = "ok", MovesMoney(call'[c].pc)
          PROVE payments'[c] = 1
      <4>1. CASE call'[c].result = call[c].result
        BY <1>1, <1>3, <2>3, <3>1, <4>1 DEF CallInv, Pays, Returned
      <4>2. CASE call[c].pc = q.op /\ call'[c].result = answer
        BY <1>2, <1>3, <2>3, <3>1, <4>2
      <4> QED
        BY <1>3, <4>1, <4>2
    <3>2. call'[c].pc = "succeeded" => payments'[c] = 1
      BY <1>1, <1>3, <2>3 DEF CallInv, Pays
    <3> QED
      BY <2>1, <2>3, <3>1, <3>2 DEF Pays, Returned
  <2>5. Agrees(c)'
    <3> SUFFICES ASSUME flow[c] = "wisePayout" PROVE Agrees(c)'
      BY <1>1 DEF Agrees
    <3>1. /\ \A op : OnWire(c, op)' => OnWire(c, op)
          /\ q = [call |-> c, op |-> q.op, attempt |-> 1]
          /\ ~ OnWire(c, q.op)' /\ OnWire(c, q.op)
      <4>1. q = [call |-> c, op |-> q.op, attempt |-> q.attempt]
        BY <1>1, RequestFields DEF Requests
      <4>2. q.attempt = 1
        BY <1>1 DEF CallInv, Asks
      <4> QED
        BY <1>1, <4>1, <4>2 DEF OnWire
    <3>2. payments'[c] # payments[c] => q.op = "fund"
      <4>1. MovesMoney(q.op) => q.op = "fund"
        BY <1>1 DEF CallInv, Asks, OperationsOf, MovesMoney, WiseOperations,
                    KryptaPayOperations
      <4> QED
        BY <1>2, <4>1
    <3>3. /\ OnWire(c, "quote") =>
               /\ payments[c] = 0 /\ ~ OnWire(c, "fund")
               /\ \/ call[c].pc \in {"failed", "crashed"}
                  \/ call[c].pc = "quote" /\ call[c].result \in {"awaited", "none"}
          /\ call[c].pc \in {"idle", "quoted", "recipient", "quote"} =>
               payments[c] = 0 /\ ~ OnWire(c, "fund")
          /\ call[c].pc \in {"transfer", "fund"} \/ OnWire(c, "fund") \/ payments[c] # 0 =>
               offer[c] = agreed[c]
      BY <1>1 DEF CallInv, Agrees
    <3>4. OnWire(c, "quote")' =>
            /\ payments'[c] = 0 /\ ~ OnWire(c, "fund")'
            /\ \/ call'[c].pc \in {"failed", "crashed"}
               \/ call'[c].pc = "quote" /\ call'[c].result \in {"awaited", "none"}
      <4> SUFFICES ASSUME OnWire(c, "quote")'
                   PROVE /\ payments'[c] = 0 /\ ~ OnWire(c, "fund")'
                         /\ \/ call'[c].pc \in {"failed", "crashed"}
                            \/ /\ call'[c].pc = "quote"
                               /\ call'[c].result \in {"awaited", "none"}
        OBVIOUS
      <4>1. OnWire(c, "quote") /\ ~ OnWire(c, "fund") /\ q.op # "quote" /\ q.op # "fund"
        BY <3>1, <3>3
      <4>2. payments'[c] = 0 /\ ~ OnWire(c, "fund")'
        BY <3>1, <3>2, <3>3, <4>1
      <4>3. call[c].pc = "quote" => call'[c].result = call[c].result
        BY <1>3, <4>1
      <4> QED
        BY <1>3, <3>3, <4>1, <4>2, <4>3
    <3>5. call'[c].pc \in {"idle", "quoted", "recipient", "quote"} =>
            payments'[c] = 0 /\ ~ OnWire(c, "fund")'
      BY <1>3, <3>1, <3>2, <3>3
    <3>6. call'[c].pc \in {"transfer", "fund"} \/ OnWire(c, "fund")' \/ payments'[c] # 0 =>
            offer'[c] = agreed'[c]
      <4> SUFFICES ASSUME call'[c].pc \in {"transfer", "fund"} \/ OnWire(c, "fund")'
                            \/ payments'[c] # 0
                   PROVE offer'[c] = agreed'[c]
        OBVIOUS
      <4>1. \/ call[c].pc \in {"transfer", "fund"} \/ OnWire(c, "fund") \/ payments[c] # 0
        BY <1>3, <3>1, <3>2
      <4>2. offer[c] = agreed[c] /\ ~ OnWire(c, "quote")
        BY <3>3, <4>1
      <4>3. q.op # "quote"
        BY <3>1, <4>2
      <4> QED
        BY <1>1, <1>2, <4>2, <4>3
    <3> QED
      BY <3>4, <3>5, <3>6 DEF Agrees
  <2> QED
    BY <2>2, <2>4, <2>5 DEF CallInv
<1> QED
  BY <1>5, <1>6, <1>7 DEF CallsInv

-----------------------------------------------------------------------------

LEMMA ClientStepKeeps ==
  ASSUME CallsInv, NEW c \in Calls, ClientStep(c) \/ Crash(c)
  PROVE CallsInv'
<1>1. CASE GiveUp(c)
  BY <1>1, EndKeeps DEF GiveUp, Ends
<1>2. CASE Crash(c)
  BY <1>2, EndKeeps DEF Crash, Ends
<1> QED
  BY <1>1, <1>2, SendKeeps, NoResponseKeeps, ProceedKeeps, RetryKeeps DEF ClientStep

LEMMA FeeChangeKeeps ==
  ASSUME CallsInv, WiseFeeChanges PROVE CallsInv'
<1>1. TypeOK'
  BY DEF WiseFeeChanges, CallsInv, TypeOK
<1>2. ASSUME NEW c \in Calls PROVE CallInv(c)'
  BY <1>1, Untouched DEF WiseFeeChanges, CallsInv, TypeOK
<1> QED
  BY <1>1, <1>2 DEF CallsInv

LEMMA StutterKeeps ==
  ASSUME CallsInv, UNCHANGED vars PROVE CallsInv'
<1>1. TypeOK'
  BY DEF vars, externalVars, CallsInv, TypeOK
<1>2. ASSUME NEW c \in Calls PROVE CallInv(c)'
  BY <1>1, Untouched DEF vars, externalVars, CallsInv, TypeOK
<1> QED
  BY <1>1, <1>2 DEF CallsInv

LEMMA InitCalls == Init => CallsInv
<1> SUFFICES ASSUME Init PROVE CallsInv
  OBVIOUS
<1>1. 1 \in 1..Attempts /\ 0 \in Nat
  BY CallAssumption
<1>2. [pc |-> "idle", attempt |-> 1, result |-> "unsent"] \in Call
  BY <1>1 DEF Call
<1>3. call \in [Calls -> Call]
  BY <1>2 DEF Init
<1>4. TypeOK
  BY <1>3, <1>1 DEF Init, TypeOK, Call
<1>5. ASSUME NEW c \in Calls PROVE CallInv(c)
  <2>1. call[c].pc = "idle" /\ call[c].attempt = 1 /\ call[c].result = "unsent"
    BY DEF Init
  <2>2. wire = {} /\ keys = {} /\ payments[c] = 0
    BY DEF Init
  <2>3. Asks(c)
    BY <2>1, <2>2 DEF Asks, Operations, WiseOperations, KryptaPayOperations
  <2>4. Pays(c)
    BY <2>1, <2>2 DEF Pays, Returned
  <2>5. Agrees(c)
    BY <2>1, <2>2 DEF Agrees, OnWire
  <2> QED
    BY <2>3, <2>4, <2>5 DEF CallInv
<1> QED
  BY <1>4, <1>5 DEF CallsInv

LEMMA NextKeeps == CallsInv /\ [Next]_vars => CallsInv'
<1> SUFFICES ASSUME CallsInv, [Next]_vars PROVE CallsInv'
  OBVIOUS
<1>1. CASE \E q \in wire, answer \in Answers : Handle(q, answer)
  BY <1>1, HandleKeeps
<1>2. CASE UNCHANGED vars
  BY <1>2, StutterKeeps
<1> QED
  BY <1>1, <1>2, QuoteKeeps, SubmitKeeps, ClientStepKeeps, FeeChangeKeeps DEF Next

(* What was asked, what was paid and the fee it was paid at stay related   *)
(* (submitWisePayout, withProviderRetry).                                  *)
THEOREM Invariance == Spec => []CallsInv
  BY InitCalls, NextKeeps, PTL DEF Spec

(* Wise is paid at the fee the customer agreed to, and at no other         *)
(* (submitWisePayout).                                                     *)
THEOREM AgreedFee == Spec => []PaidAtAgreedFee
<1>1. CallsInv => PaidAtAgreedFee
  BY DEF CallsInv, CallInv, Agrees, PaidAtAgreedFee, TypeOK
<1> QED
  BY <1>1, Invariance, PTL

(* What the steps do to the outcomes.                                      *)
LEMMA OutcomeStays ==
  ASSUME CallsInv, NEW c \in Calls,
         \A d \in Calls \ {c} : call'[d] = call[d],
         \/ call'[c].pc = call[c].pc
         \/ call'[c].pc \notin {"succeeded", "failed"} /\ call[c].pc \notin {"succeeded", "failed"}
  PROVE [d \in Calls |-> Outcome(d)]' = [d \in Calls |-> Outcome(d)]
<1>1. ASSUME NEW d \in Calls PROVE Outcome(d)' = Outcome(d)
  BY DEF Outcome
<1> QED
  BY <1>1

LEMMA OutcomeEnds ==
  ASSUME CallsInv, NEW c \in Calls, NEW how \in {"succeeded", "failed"}, End(c, how),
         call[c].pc \in Operations
  PROVE /\ Outcome(c) = "open"
        /\ [d \in Calls |-> Outcome(d)]'
             = [[d \in Calls |-> Outcome(d)] EXCEPT ![c] = how]
<1>1. call'[c].pc = how /\ \A d \in Calls \ {c} : call'[d] = call[d]
  BY CallType, CallExcept DEF End
<1>2. Outcome(c) = "open"
  BY DEF Outcome, Operations, WiseOperations, KryptaPayOperations
<1>3. ASSUME NEW d \in Calls
      PROVE Outcome(d)' = IF d = c THEN how ELSE Outcome(d)
  BY <1>1 DEF Outcome
<1> QED
  BY <1>2, <1>3

LEMMA ClientPromise ==
  ASSUME CallsInv, NEW c \in Calls, Quote(c) \/ Submit(c) \/ ClientStep(c) \/ Crash(c)
  PROVE [Promise!SubmissionNext]_(Promise!submissionVars)
<1> DEFINE outcomes == [d \in Calls |-> Outcome(d)]
<1> USE DEF Promise!submissionVars
<1>1. payments' = payments
  BY DEF Quote, Submit, ClientStep, Send, NoResponse, Proceed, Retry, GiveUp, Crash,
         externalVars
<1>2. ASSUME NEW pc, End(c, pc) \/ Begin(c, pc),
             call[c].pc \notin {"succeeded", "failed"}, pc \notin {"succeeded", "failed"}
      PROVE outcomes' = outcomes
  <2>1. PICK x : x.pc = pc /\ call' = [call EXCEPT ![c] = x]
    <3>1. CASE End(c, pc)
      <4> DEFINE x == [pc |-> pc, attempt |-> call[c].attempt, result |-> call[c].result]
      <4>1. x.pc = pc /\ call' = [call EXCEPT ![c] = x]
        BY <3>1, CallExcept DEF End
      <4> QED
        BY <4>1
    <3>2. CASE Begin(c, pc)
      <4> DEFINE x == [pc |-> pc, attempt |-> 1, result |-> "unsent"]
      <4>1. x.pc = pc /\ call' = [call EXCEPT ![c] = x]
        BY <3>2 DEF Begin
      <4> QED
        BY <4>1
    <3> QED
      BY <1>2, <3>1, <3>2
  <2>2. call'[c].pc = pc /\ \A d \in Calls \ {c} : call'[d] = call[d]
    BY <2>1, CallType
  <2> QED
    BY <1>2, <2>2, OutcomeStays
<1>3. ASSUME End(c, "succeeded"), call[c].pc \in Operations, payments[c] = 1
      PROVE Promise!SubmissionNext
  BY <1>1, <1>3, OutcomeEnds DEF Promise!SubmissionNext, Promise!Succeed
<1>4. ASSUME End(c, "failed"), call[c].pc \in Operations
      PROVE Promise!SubmissionNext
  BY <1>1, <1>4, OutcomeEnds DEF Promise!SubmissionNext, Promise!Fail
<1>5. \A op \in Operations : op \notin {"succeeded", "failed"}
  BY DEF Operations, WiseOperations, KryptaPayOperations
<1>6. CASE Quote(c)
  <2>1. End(c, "quoted") /\ call[c].pc = "idle"
    BY <1>6 DEF Quote, End
  <2>2. outcomes' = outcomes
    BY <1>2, <2>1
  <2> QED
    BY <1>1, <2>2
<1>7. CASE Submit(c)
  <2>1. FirstOperation(c) \in Operations
    BY CallType DEF FirstOperation, Flows, Operations, WiseOperations
  <2>2. Begin(c, FirstOperation(c)) /\ call[c].pc = "quoted"
    BY <1>7 DEF Submit
  <2>3. outcomes' = outcomes
    BY <1>2, <1>5, <2>1, <2>2
  <2> QED
    BY <1>1, <2>3
<1>8. CASE Send(c) \/ NoResponse(c) \/ Retry(c)
  <2>1. call'[c].pc = call[c].pc /\ \A d \in Calls \ {c} : call'[d] = call[d]
    <3>1. PICK x : x.pc = call[c].pc /\ call' = [call EXCEPT ![c] = x]
      <4> DEFINE x(n, result) == [pc |-> call[c].pc, attempt |-> n, result |-> result]
      <4>1. \A n, result : x(n, result).pc = call[c].pc
        OBVIOUS
      <4>2. \/ call' = [call EXCEPT ![c] = x(call[c].attempt, "awaited")]
            \/ call' = [call EXCEPT ![c] = x(call[c].attempt, "none")]
            \/ call' = [call EXCEPT ![c] = x(NextAttempt(call[c].attempt), "unsent")]
        BY <1>8, CallExcept DEF Send, NoResponse, Retry
      <4> HIDE DEF x
      <4> QED
        BY <4>1, <4>2
    <3> QED
      BY <3>1, CallType
  <2> QED
    BY <1>1, <2>1, OutcomeStays
<1>9. CASE Proceed(c)
  <2>1. call[c].pc \in Operations /\ (MovesMoney(call[c].pc) => payments[c] = 1)
    BY <1>9, CallType DEF Proceed, Returned, CallInv, Pays
  <2>2. CASE End(c, "failed") \/ (End(c, "succeeded") /\ MovesMoney(call[c].pc))
    BY <1>3, <1>4, <2>1, <2>2
  <2>3. CASE Begin(c, After(call[c].pc)) /\ ~ MovesMoney(call[c].pc)
    <3>1. After(call[c].pc) \in {"quote", "transfer", "fund"}
      BY <2>1, <2>3 DEF After, MovesMoney, Operations, WiseOperations, KryptaPayOperations
    <3>2. outcomes' = outcomes
      BY <1>2, <1>5, <2>1, <2>3, <3>1
    <3> QED
      BY <1>1, <3>2
  <2> QED
    BY <1>9, <2>2, <2>3 DEF Proceed
<1>10. CASE GiveUp(c)
  BY <1>4, <1>10 DEF GiveUp
<1>11. CASE Crash(c)
  <2>1. outcomes' = outcomes
    BY <1>2, <1>5, <1>11 DEF Crash
  <2> QED
    BY <1>1, <2>1
<1> QED
  BY <1>6, <1>7, <1>8, <1>9, <1>10, <1>11 DEF ClientStep

LEMMA HandlePromise ==
  ASSUME CallsInv, NEW q \in wire, NEW answer \in Answers, Handle(q, answer)
  PROVE [Promise!SubmissionNext]_(Promise!submissionVars)
<1>1. q.call \in Calls
  BY HandleEffect
<1>2. [d \in Calls |-> Outcome(d)]' = [d \in Calls |-> Outcome(d)]
  BY <1>1, HandleCall, OutcomeStays
<1>3. CASE payments' = payments
  BY <1>2, <1>3 DEF Promise!submissionVars
<1>4. CASE payments[q.call] = 0 /\ payments' = [payments EXCEPT ![q.call] = 1]
  <2>1. Promise!Move(q.call)
    BY <1>2, <1>4 DEF Promise!Move
  <2> QED
    BY <1>1, <2>1 DEF Promise!SubmissionNext
<1> QED
  BY <1>3, <1>4, HandleEffect

(* A submission is what the money flows take it for: it moves the money at *)
(* most once and succeeds only after that (withProviderRetry with one      *)
(* idempotency key, and the unrepeated requests to Wise).                  *)
THEOREM Implements == Spec => MovedOnce
<1>1. Init => Promise!SubmissionInit
  BY DEF Init, Promise!SubmissionInit, Outcome
<1>2. ASSUME CallsInv, [Next]_vars PROVE [Promise!SubmissionNext]_(Promise!submissionVars)
  <2>1. CASE \E c \in Calls : Quote(c) \/ Submit(c) \/ ClientStep(c) \/ Crash(c)
    BY <1>2, <2>1, ClientPromise
  <2>2. CASE \E q \in wire, answer \in Answers : Handle(q, answer)
    BY <1>2, <2>2, HandlePromise
  <2>3. CASE WiseFeeChanges
    BY <2>3 DEF WiseFeeChanges, Promise!submissionVars, Outcome
  <2>4. CASE UNCHANGED vars
    BY <2>4 DEF vars, externalVars, Promise!submissionVars, Outcome
  <2> QED
    BY <1>2, <2>1, <2>2, <2>3, <2>4 DEF Next
<1> QED
  BY <1>1, <1>2, Invariance, PTL DEF Spec, MovedOnce, Promise!SubmissionSpec

=============================================================================
