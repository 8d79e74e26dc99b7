------------------------- MODULE MCWalletConversions ------------------------
(***************************************************************************)
(* Instances of WalletConversions for TLC: conversions of one customer     *)
(* from the wallet xaf to the wallet other.                                *)
(***************************************************************************)
EXTENDS WalletConversionsInvariant, TLC

CONSTANTS xaf, other

MCOpening == [w \in Wallets |-> IF w = xaf THEN 4 ELSE 0]
MCSourceOf == [q \in Quotes |-> xaf]
MCFundedWallet == [q \in Quotes |-> other]
MCTotalDebit == [q \in Quotes |-> 3]
MCDestination == [q \in Quotes |-> 2]
MCFeeBearing == Quotes

Symmetry == Permutations(Tasks) \cup Permutations(Keys)
=============================================================================
