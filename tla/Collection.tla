----------------------------- MODULE Collection -----------------------------
(***************************************************************************)
(* What Reepay promises about the money of an order it collects (a         *)
(* deposit): the order's amount is put into its wallet at most once, only  *)
(* after the provider has been paid, and nothing else moves the balances.  *)
(***************************************************************************)
EXTENDS Integers

CONSTANTS Orders, WalletOf, Amount, Opening

VARIABLES
  balance,     \* the wallets' balances
  paid,        \* the orders the provider has been paid for
  collected    \* those whose amount has reached their wallet

collectionVars == <<balance, paid, collected>>

CollectionInit ==
  /\ balance = Opening
  /\ paid = {}
  /\ collected = {}

Pay(o) ==
  /\ paid' = paid \cup {o}
  /\ UNCHANGED <<balance, collected>>

Collect(o) ==
  /\ o \in paid \ collected
  /\ collected' = collected \cup {o}
  /\ balance' = [balance EXCEPT ![WalletOf[o]] = @ + Amount[o]]
  /\ UNCHANGED paid

CollectionNext == \E o \in Orders : Pay(o) \/ Collect(o)

CollectionSpec == CollectionInit /\ [][CollectionNext]_collectionVars

=============================================================================
