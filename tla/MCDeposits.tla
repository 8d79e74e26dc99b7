----------------------------- MODULE MCDeposits -----------------------------
(***************************************************************************)
(* Instances of Deposits for TLC: deposits into one wallet.                *)
(***************************************************************************)
EXTENDS DepositsInvariant, TLC

CONSTANTS d1, d2, w1

MCWalletOf == [d \in Deposits |-> w1]
MCAmount == [d \in Deposits |-> IF d = d1 THEN 2 ELSE 3]
MCOpening == [w \in Wallets |-> 1]
MCFeeBearing == Deposits

Symmetry == Permutations(Tasks)
=============================================================================
