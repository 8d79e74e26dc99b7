------------------------------- MODULE Escrow -------------------------------
(***************************************************************************)
(* What Reepay promises about the money of an order (a payout, or the      *)
(* source side of a conversion): an order takes its amount out of its      *)
(* wallet at most once, an amount that was taken is put back at most once, *)
(* and nothing else moves the balances.                                    *)
(***************************************************************************)
EXTENDS Integers

CONSTANTS Orders, Wallets, WalletOf, Amount, Opening

VARIABLES
  balance,   \* the wallets' balances
  taken,     \* the orders whose amount has left their wallet
  returned   \* those whose amount came back

escrowVars == <<balance, taken, returned>>

EscrowInit ==
  /\ balance = Opening
  /\ taken = {}
  /\ returned = {}

Take(o) ==
  /\ o \notin taken
  /\ taken' = taken \cup {o}
  /\ balance' = [balance EXCEPT ![WalletOf[o]] = @ - Amount[o]]
  /\ UNCHANGED returned

Return(o) ==
  /\ o \in taken \ returned
  /\ returned' = returned \cup {o}
  /\ balance' = [balance EXCEPT ![WalletOf[o]] = @ + Amount[o]]
  /\ UNCHANGED taken

EscrowNext == \E o \in Orders : Take(o) \/ Return(o)

EscrowSpec == EscrowInit /\ [][EscrowNext]_escrowVars

=============================================================================
