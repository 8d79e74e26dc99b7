----------------------------- MODULE FeeService -----------------------------
(***************************************************************************)
(* FeeService: what Reepay charges and what it expects a provider to       *)
(* charge.  Money is a natural number of the smallest unit (the eighth     *)
(* decimal place); Decimal arithmetic is exact up to the roundings the     *)
(* code asks for.  A rate of n stands for n / Hundred.                     *)
(***************************************************************************)
EXTENDS Integers

CONSTANTS
  Place,    \* smallest units in the fourth decimal place
  Whole,    \* smallest units in one unit of a currency
  Hundred,  \* the rate of a hundred per cent
  NoCap     \* the cap is undefined

ASSUME FeeAssumption ==
  /\ Place \in Nat \ {0}
  /\ Whole \in Nat \ {0}
  /\ Whole % Place = 0
  /\ Hundred \in Nat \ {0}
  /\ NoCap \notin Int

-----------------------------------------------------------------------------
(* Roundings of num / den                                                  *)

CeilDiv(num, den) == (num + den - 1) \div den

(* ceil()                                                                  *)
CeilToWhole(num, den) == Whole * CeilDiv(num, den * Whole)

(* toDecimalPlaces, which rounds a half up                                 *)
RoundTo(place, num, den) == place * ((2 * num + den * place) \div (2 * den * place))

-----------------------------------------------------------------------------

(* min(percentage, cap), as a numerator over Hundred (capDecimal).         *)
Capped(amount, rate, cap) ==
  IF cap = NoCap \/ amount * rate <= cap * Hundred
    THEN amount * rate
    ELSE cap * Hundred

(* Reepay's fee in XAF.  calculateCustomerFee is the same in floating      *)
(* point; nothing calls it.                                                *)
CustomerFee(fee, amount) ==
  IF fee.type = "fixed" THEN fee.fixed
  ELSE CeilToWhole(Capped(amount, fee.percent, fee.cap), Hundred)

(* Faulty: the percentage is taken of what has to be settled, not of what  *)
(* is paid.                                                                *)
DepositFeeOnTop(rate, net) == CeilToWhole(net * rate, Hundred)

(* Faulty: the amount to pay is rounded up by cutting it off and adding    *)
(* one.                                                                    *)
DepositFeePlusOne(rate, net) ==
  IF rate = 0 THEN 0
  ELSE Whole * ((net * Hundred) \div ((Hundred - rate) * Whole) + 1) - net

(* What the payer has to add for net to be settled.  A rate of 0 stands    *)
(* for the disabled fallback as well.  No caller passes a fee quoted by    *)
(* the provider, which would be rounded up instead.                        *)
DepositProviderFee(rate, net) ==
  IF rate = 0 THEN 0 ELSE CeilToWhole(net * Hundred, Hundred - rate) - net

BankPayoutProviderFee(rate, submitted) == CeilToWhole(submitted * rate, Hundred)

PlaceOf(currency) == IF currency = "USDC" THEN 1 ELSE Place

(* Reepay's fee on a payout from a EUR or USDC wallet.                     *)
CurrencyFee(fee, amount, currency) ==
  RoundTo(PlaceOf(currency),
          fee.fixed * Hundred + Capped(amount, fee.percent, fee.cap), Hundred)

=============================================================================
