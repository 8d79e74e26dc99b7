----------------------------- MODULE Submission -----------------------------
(***************************************************************************)
(* What a money flow takes a submission to a provider for (confirmWallet-  *)
(* Payout, and the confirm and create calls of the other flows): it moves  *)
(* the money at most once; it succeeds only after the money moved; and     *)
(* when it fails the money may have moved, or may still move.              *)
(***************************************************************************)
EXTENDS Integers

CONSTANT Calls

VARIABLES
  payments,  \* how often the provider has moved the money of a call
  outcome    \* what the flow has been told

submissionVars == <<payments, outcome>>

SubmissionInit ==
  /\ payments = [c \in Calls |-> 0]
  /\ outcome = [c \in Calls |-> "open"]

Move(c) ==
  /\ payments[c] = 0
  /\ payments' = [payments EXCEPT ![c] = 1]
  /\ UNCHANGED outcome

Succeed(c) ==
  /\ outcome[c] = "open"
  /\ payments[c] = 1
  /\ outcome' = [outcome EXCEPT ![c] = "succeeded"]
  /\ UNCHANGED payments

Fail(c) ==
  /\ outcome[c] = "open"
  /\ outcome' = [outcome EXCEPT ![c] = "failed"]
  /\ UNCHANGED payments

SubmissionNext == \E c \in Calls : Move(c) \/ Succeed(c) \/ Fail(c)

SubmissionSpec == SubmissionInit /\ [][SubmissionNext]_submissionVars

=============================================================================
