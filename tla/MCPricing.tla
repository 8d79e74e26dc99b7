------------------------------ MODULE MCPricing ------------------------------
(***************************************************************************)
(* Instances of Pricing for TLC.                                           *)
(***************************************************************************)
EXTENDS Pricing

Fixed(amount) ==
  [type |-> "fixed", fixed |-> amount, percent |-> 0, cap |-> NoCap]
Percentage(fixed, rate, cap) ==
  [type |-> "percentage", fixed |-> fixed, percent |-> rate, cap |-> cap]

Payout(eur, usdc) == [c \in {"EUR", "USDC"} |-> IF c = "EUR" THEN eur ELSE usdc]

(* A fixed fee and no fallback; a percentage that is not capped; one that  *)
(* is, at an amount that is not whole.                                     *)
MCConfigs ==
  {[customer |-> Fixed(8),
    payout |-> Payout(Fixed(5), Percentage(0, 3, NoCap)),
    depositPercent |-> 0, bankPayoutPercent |-> 0],
   [customer |-> Percentage(0, 3, NoCap),
    payout |-> Payout(Percentage(1, 3, 9), Percentage(1, 3, 9)),
    depositPercent |-> 1, bankPayoutPercent |-> 3],
   [customer |-> Percentage(0, 7, 12),
    payout |-> Payout(Percentage(3, 1, 2), Percentage(0, 7, NoCap)),
    depositPercent |-> 7, bankPayoutPercent |-> 1]}

MCAmounts == {0, 1, 3, 5, 22, 30, 100} \cup {8 * n : n \in 1..16}
=============================================================================
