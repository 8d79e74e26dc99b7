---------------------------- MODULE ProviderCalls ----------------------------
(***************************************************************************)
(* The provider clients under a submission.  A submission is a sequence of *)
(* HTTP requests:                                                          *)
(*                                                                         *)
(*   - through Wise (submitWisePayout): a recipient or contact, a quote,   *)
(*     whose fee must be the one the customer was quoted, a transfer, and  *)
(*     its funding, none of which is repeated;                             *)
(*   - through KryptaPay (createPayout, executeConversion, createPayin-    *)
(*     Checkout): one request, which withProviderRetry repeats with the    *)
(*     same Idempotency-Key.                                               *)
(*                                                                         *)
(* A request that got no response may still reach the provider later.  The *)
(* clients set no time limit: a request may also stay open for ever.       *)
(***************************************************************************)
EXTENDS Integers

CONSTANTS
  Calls,     \* the submissions
  Attempts,  \* how often withProviderRetry tries (3)
  Fees       \* the fees Wise may quote

ASSUME CallAssumption == Attempts \in Nat \ {0}

VARIABLES
  flow,      \* what each submission asks for
  call,      \* where it is: its operation, the attempt and what came back
  wire,      \* requests the provider has not handled yet
  agreed,    \* Payout.providerFee, from the quote the customer confirmed
  wiseFee,   \* what Wise charges at the moment (external)
  offer,     \* the fee of the Wise quote a transfer is made from (external)
  keys,      \* the money requests the provider knows (external)
  payments   \* how often it has moved the money, or opened a checkout (external)

externalVars == <<wiseFee, offer, keys, payments>>
vars == <<flow, call, wire, agreed, externalVars>>

-----------------------------------------------------------------------------

KryptaPayOperations == {"createPayout", "executeConversion", "createPayinCheckout"}
WiseOperations == {"recipient", "quote", "transfer", "fund"}
Operations == WiseOperations \cup KryptaPayOperations

(* submitWisePayout, or the one KryptaPay operation.                       *)
Flows == {"wisePayout"} \cup KryptaPayOperations

Ends == {"succeeded", "failed", "crashed"}

(* What a request comes back with.  unreadable: a 2xx response without the *)
(* data the client reads (unwrapKryptaPayData, readField); busy: 408, 429  *)
(* or 5xx; refused: another error; none: no response.                      *)
Answers == {"ok", "unreadable", "busy", "refused"}
Results == Answers \cup {"none"}

Requests == [call : Calls, op : Operations, attempt : 1..Attempts]

TypeOK ==
  /\ flow \in [Calls -> Flows]
  /\ call \in [Calls -> [pc : Operations \cup Ends \cup {"idle", "quoted"},
                         attempt : 1..Attempts,
                         result : Results \cup {"unsent", "awaited"}]]
  /\ wire \subseteq Requests
  /\ agreed \in [Calls -> Fees]
  /\ wiseFee \in Fees
  /\ offer \in [Calls -> Fees]
  /\ keys \subseteq Requests
  /\ payments \in [Calls -> Nat]

Init ==
  /\ flow \in [Calls -> Flows]
  /\ call = [c \in Calls |-> [pc |-> "idle", attempt |-> 1, result |-> "unsent"]]
  /\ wire = {}
  /\ wiseFee \in Fees
  /\ agreed = [c \in Calls |-> wiseFee]
  /\ offer = [c \in Calls |-> wiseFee]
  /\ keys = {}
  /\ payments = [c \in Calls |-> 0]

-----------------------------------------------------------------------------
(* Helpers                                                                 *)

FirstOperation(c) == IF flow[c] = "wisePayout" THEN "recipient" ELSE flow[c]

After(op) ==
  CASE op = "recipient" -> "quote"
    [] op = "quote" -> "transfer"
    [] op = "transfer" -> "fund"
    [] OTHER -> "succeeded"

MovesMoney(op) == op \in {"fund"} \cup KryptaPayOperations

(* The POSTs with an Idempotency-Key; withProviderRetry runs no others.    *)
Idempotent(op) == op \in KryptaPayOperations

Retryable(result) == result \in {"none", "busy"}

(* Faulty: an attempt is not counted.                                      *)
SameAttempt(attempt) == attempt

NextAttempt(attempt) == attempt + 1

(* Faulty: each attempt has a key of its own.                              *)
KeyPerAttempt(request) == request

(* The Idempotency-Key is set once, before the first attempt.  A Wise      *)
(* request has no key: the provider knows it from no other.                *)
KeyOf(request) ==
  IF Idempotent(request.op) THEN [request EXCEPT !.attempt = 1] ELSE request

(* Faulty: the fee is not compared again.                                  *)
AnyFee(c) == TRUE

(* submitWisePayout: the fee of the quote equals the payout's.             *)
FeeUnchanged(c) == offer[c] = agreed[c]

Begin(c, op) ==
  call' = [call EXCEPT ![c] = [pc |-> op, attempt |-> 1, result |-> "unsent"]]
End(c, how) == call' = [call EXCEPT ![c].pc = how]

Returned(c, result) == call[c].pc \in Operations /\ call[c].result = result

-----------------------------------------------------------------------------
(* The client                                                              *)

(* quoteWiseEurPayoutFee: the fee the customer is quoted.  A KryptaPay     *)
(* payout costs nothing here.                                              *)
Quote(c) ==
  /\ call[c].pc = "idle"
  /\ agreed' = [agreed EXCEPT ![c] = wiseFee]
  /\ call' = [call EXCEPT ![c].pc = "quoted"]
  /\ UNCHANGED <<flow, wire, externalVars>>

Submit(c) ==
  /\ call[c].pc = "quoted"
  /\ Begin(c, FirstOperation(c))
  /\ UNCHANGED <<flow, wire, agreed, externalVars>>

Send(c) ==
  /\ Returned(c, "unsent")
  /\ wire' = wire \cup {[call |-> c, op |-> call[c].pc, attempt |-> call[c].attempt]}
  /\ call' = [call EXCEPT ![c].result = "awaited"]
  /\ UNCHANGED <<flow, agreed, externalVars>>

(* The connection breaks; the request may be handled all the same.         *)
NoResponse(c) ==
  /\ Returned(c, "awaited")
  /\ call' = [call EXCEPT ![c].result = "none"]
  /\ UNCHANGED <<flow, wire, agreed, externalVars>>

Proceed(c) ==
  /\ Returned(c, "ok")
  /\ IF call[c].pc = "quote" /\ ~ FeeUnchanged(c) THEN End(c, "failed")
     ELSE IF MovesMoney(call[c].pc) THEN End(c, "succeeded")
     ELSE Begin(c, After(call[c].pc))
  /\ UNCHANGED <<flow, wire, agreed, externalVars>>

(* After the delay of withProviderRetry.                                   *)
Retry(c) ==
  /\ call[c].pc \in Operations
  /\ Retryable(call[c].result)
  /\ Idempotent(call[c].pc)
  /\ call[c].attempt < Attempts
  /\ call' = [call EXCEPT ![c] =
       [pc |-> @.pc, attempt |-> NextAttempt(@.attempt), result |-> "unsent"]]
  /\ UNCHANGED <<flow, wire, agreed, externalVars>>

GiveUp(c) ==
  /\ call[c].pc \in Operations
  /\ call[c].result \in Results \ {"ok"}
  /\ \/ ~ Retryable(call[c].result)
     \/ ~ Idempotent(call[c].pc)
     \/ call[c].attempt >= Attempts
  /\ End(c, "failed")
  /\ UNCHANGED <<flow, wire, agreed, externalVars>>

Crash(c) ==
  /\ call[c].pc \in Operations
  /\ End(c, "crashed")
  /\ UNCHANGED <<flow, wire, agreed, externalVars>>

-----------------------------------------------------------------------------
(* The provider (external)                                                 *)

(* A key the provider knows does not move the money again.                 *)
Effect(request) ==
  /\ offer' = IF request.op = "quote" THEN [offer EXCEPT ![request.call] = wiseFee]
              ELSE offer
  /\ IF MovesMoney(request.op) /\ KeyOf(request) \notin keys
       THEN /\ keys' = keys \cup {KeyOf(request)}
            /\ payments' = [payments EXCEPT ![request.call] = @ + 1]
       ELSE UNCHANGED <<keys, payments>>

(* A refused request has no effect; one that is answered with 5xx, or with *)
(* a response the client cannot read, may have had its effect.             *)
Handle(request, answer) ==
  LET c == request.call IN
  /\ request \in wire
  /\ wire' = wire \ {request}
  /\ \/ answer \in Answers \ {"refused"} /\ Effect(request)
     \/ answer \in Answers \ {"ok"} /\ UNCHANGED <<offer, keys, payments>>
  /\ IF /\ Returned(c, "awaited")
        /\ call[c].pc = request.op
        /\ call[c].attempt = request.attempt
       THEN call' = [call EXCEPT ![c].result = answer]
       ELSE UNCHANGED call
  /\ UNCHANGED <<flow, agreed, wiseFee>>

WiseFeeChanges ==
  /\ wiseFee' \in Fees \ {wiseFee}
  /\ UNCHANGED <<flow, call, wire, agreed, offer, keys, payments>>

-----------------------------------------------------------------------------

ClientStep(c) ==
  \/ Send(c) \/ NoResponse(c) \/ Proceed(c) \/ Retry(c) \/ GiveUp(c)

Next ==
  \/ \E c \in Calls : Quote(c) \/ Submit(c) \/ ClientStep(c) \/ Crash(c)
  \/ \E request \in wire, answer \in Answers : Handle(request, answer)
  \/ WiseFeeChanges

Spec == Init /\ [][Next]_vars

(* Node runs a continuation that is ready, and the retry delay passes.  A  *)
(* response need not come.                                                 *)
FairSpec ==
  /\ Spec
  /\ \A c \in Calls :
       WF_vars(Send(c)) /\ WF_vars(Proceed(c) \/ Retry(c) \/ GiveUp(c))

-----------------------------------------------------------------------------
(* Properties                                                              *)

(* Whatever is lost, late or repeated, the money of a submission moves at  *)
(* most once and only with its success told after it moved: what Payouts   *)
(* and WalletConversions take ProviderAccepts and SubmissionFails for.     *)
Outcome(c) ==
  IF call[c].pc \in {"succeeded", "failed"} THEN call[c].pc ELSE "open"

Promise ==
  INSTANCE Submission WITH outcome <- [c \in Calls |-> Outcome(c)]

MovedOnce == Promise!SubmissionSpec

(* Wise moves the money only at the fee the customer was quoted, however   *)
(* its fee changes before, between and after the two quotes.               *)
PaidAtAgreedFee ==
  \A c \in Calls :
    flow[c] = "wisePayout" /\ payments[c] > 0 => offer[c] = agreed[c]

(* A submission ends after a bounded number of requests, or hangs in one   *)
(* that is never answered: repeated failures do not keep it going.         *)
EndsOrHangs ==
  \A c \in Calls :
    call[c].pc \in Operations ~>
      \/ call[c].pc \in Ends
      \/ [](call[c].result = "awaited")

=============================================================================
