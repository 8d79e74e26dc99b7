------------------------------- MODULE Pricing -------------------------------
(***************************************************************************)
(* What a deposit, a conversion or a payout is priced at, and what becomes *)
(* of the price while the configuration changes under it: a restart with   *)
(* other fees between the pricing of a row and its settlement.  A row      *)
(* keeps the price it was given; the provider charges what it charges.     *)
(***************************************************************************)
EXTENDS FeeService

CONSTANTS
  Rows,     \* deposits and quotes
  Amounts,  \* what customers ask for, and providers quote
  Configs,  \* the fee settings of the environment
  Charges   \* the rates KryptaPay may charge for a deposit

Fee == [type : {"fixed", "percentage"}, fixed : Nat, percent : Nat,
        cap : Nat \cup {NoCap}]

Config == [customer : Fee, payout : [{"EUR", "USDC"} -> Fee],
           depositPercent : 0..(Hundred - 1), bankPayoutPercent : 0..(Hundred - 1)]

ASSUME PricingAssumption ==
  /\ Amounts \subseteq Nat
  /\ Configs \subseteq Config
  /\ Charges \subseteq 0..(Hundred - 1)

VARIABLES
  config,  \* AppConfigService of the running process
  row,     \* the price of each row and how far it has got
  terms    \* the configuration a row was priced under (specification only)

vars == <<config, row, terms>>

-----------------------------------------------------------------------------

Phases == {"new", "priced", "paid", "credited", "refused", "debited"}
RowKinds == {"deposit", "conversion", "payout"}
Currencies == {"XAF", "EUR", "USDC"}

Row == [kind : RowKinds, currency : Currencies, phase : Phases,
        amount : Nat, providerFee : Int, reepayFee : Nat, total : Nat,
        charge : 0..(Hundred - 1), moved : Int]

TypeOK ==
  /\ config \in Config
  /\ row \in [Rows -> Row]
  /\ terms \in [Rows -> Config]

Blank == [kind |-> "deposit", currency |-> "XAF", phase |-> "new",
          amount |-> 0, providerFee |-> 0, reepayFee |-> 0, total |-> 0,
          charge |-> 0, moved |-> 0]

Init ==
  /\ config \in Configs
  /\ row = [r \in Rows |-> Blank]
  /\ terms = [r \in Rows |-> config]

-----------------------------------------------------------------------------
(* Pricing                                                                 *)

(* Faulty: what is below the place is cut off.                             *)
TotalCutOff(place, sum) == place * (sum \div place)

(* add(...).toDecimalPlaces(...)                                           *)
TotalOf(place, sum) == RoundTo(place, sum, 1)

Price(r, kind, currency, place, amount, providerFee, reepayFee) ==
  /\ row[r].phase = "new"
  /\ row' = [row EXCEPT ![r] =
       [kind |-> kind, currency |-> currency, phase |-> "priced",
        amount |-> amount, providerFee |-> providerFee, reepayFee |-> reepayFee,
        total |-> TotalOf(place, amount + providerFee + reepayFee),
        charge |-> 0, moved |-> 0]]
  /\ terms' = [terms EXCEPT ![r] = config]
  /\ UNCHANGED config

(* calculateXafDepositPricing, in createXafDeposit.  createXafDepositQuote *)
(* shows the same price and stores nothing.                                *)
PriceDeposit(r, amount) ==
  LET reepayFee == CustomerFee(config.customer, amount)
  IN Price(r, "deposit", "XAF", Place, amount,
           DepositProviderFee(config.depositPercent, amount + reepayFee), reepayFee)

(* WalletConversionsService.createQuote: the source amount is KryptaPay's. *)
QuoteConversion(r, sourceAmount, destination) ==
  LET providerFee ==
        IF destination = "EUR"
          THEN BankPayoutProviderFee(config.bankPayoutPercent, sourceAmount)
          ELSE 0
  IN Price(r, "conversion", "XAF", Place, sourceAmount, providerFee,
           CustomerFee(config.customer, sourceAmount))

(* createWalletPayoutQuote: the fee of a payout in EUR is Wise's.          *)
QuotePayout(r, amount, currency, providerFee) ==
  /\ currency = "USDC" => providerFee = 0
  /\ Price(r, "payout", currency, PlaceOf(currency), amount, providerFee,
           CurrencyFee(config.payout[currency], amount, currency))

-----------------------------------------------------------------------------
(* Settlement                                                              *)

Advance(r, phase, moved) ==
  /\ row' = [row EXCEPT ![r].phase = phase, ![r].moved = moved]
  /\ UNCHANGED <<config, terms>>

(* The payer pays the total; KryptaPay keeps its fee, rounded up to whole  *)
(* XAF, and reports the rest (external).                                   *)
PayIn(r, charge) ==
  /\ row[r].kind = "deposit" /\ row[r].phase = "priced"
  /\ row' = [row EXCEPT ![r].phase = "paid", ![r].charge = charge,
       ![r].moved = row[r].total - CeilToWhole(row[r].total * charge, Hundred)]
  /\ UNCHANGED <<config, terms>>

(* deposit.totalDebit.sub(deposit.providerFee)                             *)
ExpectedSettlement(r) == row[r].total - row[r].providerFee

CreditDeposit(r) ==
  /\ row[r].phase = "paid"
  /\ row[r].moved = ExpectedSettlement(r)
  /\ Advance(r, "credited", row[r].moved)

RefuseDeposit(r) ==
  /\ row[r].phase = "paid"
  /\ row[r].moved # ExpectedSettlement(r)
  /\ Advance(r, "refused", row[r].moved)

(* confirm, confirmWalletPayout: the stored total is what is reserved.     *)
ConfirmQuote(r) ==
  /\ row[r].kind # "deposit" /\ row[r].phase = "priced"
  /\ Advance(r, "debited", row[r].total)

(* A restart with another environment.                                     *)
Reconfigure ==
  /\ config' \in Configs
  /\ UNCHANGED <<row, terms>>

-----------------------------------------------------------------------------

Next ==
  \/ \E r \in Rows, amount \in Amounts :
       \/ PriceDeposit(r, amount)
       \/ \E currency \in {"EUR", "USDC"} :
            \/ QuoteConversion(r, amount, currency)
            \/ \E providerFee \in Amounts :
                 QuotePayout(r, amount, currency, providerFee)
  \/ \E r \in Rows, charge \in Charges : PayIn(r, charge)
  \/ \E r \in Rows : CreditDeposit(r) \/ RefuseDeposit(r) \/ ConfirmQuote(r)
  \/ Reconfigure

Spec == Init /\ [][Next]_vars

-----------------------------------------------------------------------------
(* Properties                                                              *)

IsWhole(amount) == amount % Whole = 0

Net(r) == row[r].amount + row[r].reepayFee

(* A deposit paid at the rate it was priced with is credited, although the *)
(* settlement has to match to the last unit, the fee is rounded up twice   *)
(* and the configured rate may have changed: the gross-up of calculate-    *)
(* DepositProviderFeeDecimal is exact for whole amounts.                   *)
PaidAsPricedIsCredited ==
  \A r \in Rows :
    /\ IsWhole(Net(r))
    /\ row[r].charge = terms[r].depositPercent
    => row[r].phase # "refused"

(* What is received or reserved covers the amount and both fees but for    *)
(* half a unit of the place the total is rounded to, whatever the provider *)
(* charged: Reepay never credits, converts or pays out of its own pocket.  *)
OwedUnder(r) ==
  Net(r) + (IF row[r].kind = "deposit" THEN 0 ELSE row[r].providerFee)

CoveredUpToRounding ==
  \A r \in Rows :
    row[r].phase \in {"credited", "debited"} =>
      2 * (OwedUnder(r) - row[r].moved) <= PlaceOf(row[r].currency)

(* The payer of a deposit is asked for the least that settles in full: one *)
(* whole XAF less, at the rate it was priced with, leaves less than the    *)
(* credit and Reepay's fee.                                                *)
LeastThatSettles ==
  \A r \in Rows :
    LET less == row[r].total - Whole
    IN row[r].kind = "deposit" /\ row[r].phase # "new" /\ IsWhole(Net(r)) =>
         less - CeilToWhole(less * terms[r].depositPercent, Hundred) < Net(r)

=============================================================================
