------------------------------ MODULE MCPayouts -----------------------------
(***************************************************************************)
(* Instances of Payouts for TLC: two payouts of one wallet, one on each    *)
(* rail, whose debits together exceed the balance.                         *)
(***************************************************************************)
EXTENDS PayoutsInvariant, TLC

CONSTANTS q1, q2, w1

MCWalletOf == [q \in Quotes |-> w1]
MCTotalDebit == [q \in Quotes |-> IF q = q1 THEN 2 ELSE 3]
MCOpening == [w \in Wallets |-> 4]
MCFeeBearing == Quotes

Symmetry ==
  Permutations(Handlers) \cup Permutations(Settlers) \cup Permutations(Keys)
=============================================================================
