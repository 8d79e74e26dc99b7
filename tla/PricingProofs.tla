---------------------------- MODULE PricingProofs ----------------------------
(***************************************************************************)
(* Proofs about FeeService and Pricing, for any scale of units, places and *)
(* rates, any configurations and any amounts.                              *)
(***************************************************************************)
EXTENDS Pricing, TLAPS

-----------------------------------------------------------------------------
(* Roundings                                                               *)

LEMMA DivBounds ==
  ASSUME NEW a \in Int, NEW b \in Nat \ {0}
  PROVE /\ a \div b \in Int
        /\ b * (a \div b) <= a
        /\ a < b * (a \div b) + b
  BY SMTT(30)

LEMMA CeilDivBounds ==
  ASSUME NEW num \in Int, NEW den \in Nat \ {0}
  PROVE /\ CeilDiv(num, den) \in Int
        /\ num <= den * CeilDiv(num, den)
        /\ den * CeilDiv(num, den) < num + den
<1>1. num + den - 1 \in Int
  OBVIOUS
<1> QED
  BY <1>1, DivBounds DEF CeilDiv

(* ceil() is a whole amount, not below the quotient and less than one      *)
(* whole above it.                                                         *)
LEMMA CeilToWholeBounds ==
  ASSUME NEW num \in Int, NEW den \in Nat \ {0}
  PROVE \E k \in Int : /\ CeilToWhole(num, den) = Whole * k
                       /\ num <= den * Whole * k
                       /\ den * Whole * k < num + den * Whole
<1> DEFINE k == CeilDiv(num, den * Whole)
<1>1. den * Whole \in Nat \ {0}
  BY FeeAssumption
<1>2. /\ k \in Int
      /\ num <= (den * Whole) * k
      /\ (den * Whole) * k < num + den * Whole
  BY <1>1, CeilDivBounds
<1>3. CeilToWhole(num, den) = Whole * k
  BY DEF CeilToWhole
<1> QED
  BY <1>2, <1>3

LEMMA RoundToBounds ==
  ASSUME NEW place \in Nat \ {0}, NEW num \in Int
  PROVE \E q \in Int : /\ RoundTo(place, num, 1) = place * q
                       /\ 2 * (place * q) <= 2 * num + place
                       /\ 2 * num + place < 2 * (place * q) + 2 * place
<1> DEFINE q == (2 * num + place) \div (2 * place)
<1>1. 2 * num + place \in Int /\ 2 * place \in Nat \ {0}
  OBVIOUS
<1>2. /\ q \in Int
      /\ (2 * place) * q <= 2 * num + place
      /\ 2 * num + place < (2 * place) * q + 2 * place
  BY <1>1, DivBounds
<1>3. RoundTo(place, num, 1) = place * q
  BY DEF RoundTo
<1>4. (2 * place) * q = 2 * (place * q)
  BY <1>2
<1> HIDE DEF q
<1> QED
  BY <1>2, <1>3, <1>4

(* A whole amount, and any multiple of the place, is rounded to itself.    *)
LEMMA RoundToMultiple ==
  ASSUME NEW place \in Nat \ {0}, NEW k \in Int
  PROVE RoundTo(place, place * k, 1) = place * k
<1>1. place * k \in Int
  OBVIOUS
<1>2. PICK q \in Int : /\ RoundTo(place, place * k, 1) = place * q
                       /\ 2 * (place * q) <= 2 * (place * k) + place
                       /\ 2 * (place * k) + place < 2 * (place * q) + 2 * place
  BY <1>1, RoundToBounds
<1>3. q = k
  <2>1. place * (2 * q) <= place * (2 * k + 1)
    BY <1>2
  <2>2. place * (2 * k + 1) < place * (2 * q + 2)
    BY <1>2
  <2>3. 2 * q <= 2 * k + 1
    BY <2>1
  <2>4. 2 * k + 1 < 2 * q + 2
    BY <2>2
  <2> QED
    BY <2>3, <2>4
<1> QED
  BY <1>2, <1>3

-----------------------------------------------------------------------------
(* The gross-up                                                            *)

Least(k, num, den) == num <= den * k /\ den * k < num + den

(* In whole units: g is what is paid for n, f the fee that is kept of it.  *)
LEMMA GrossUpInWholes ==
  ASSUME NEW n \in Int, NEW g \in Int, NEW f \in Int,
         NEW rate \in 0..(Hundred - 1),
         Least(g, n * Hundred, Hundred - rate),
         Least(f, g * rate, Hundred)
  PROVE g - f = n
<1>1. Hundred \in Nat \ {0}
  BY FeeAssumption
<1>2. (Hundred - rate) * g = Hundred * g - g * rate
  BY <1>1
<1>3. Hundred * (g - f) < Hundred * (n + 1)
  BY <1>1, <1>2 DEF Least
<1>4. Hundred * (n - 1) < Hundred * (g - f)
  BY <1>1, <1>2 DEF Least
<1>5. g - f < n + 1
  BY <1>1, <1>3
<1>6. n - 1 < g - f
  BY <1>1, <1>4
<1> QED
  BY <1>5, <1>6

(* One whole less does not do.                                             *)
LEMMA OneLessInWholes ==
  ASSUME NEW n \in Int, NEW g \in Int, NEW f \in Int,
         NEW rate \in 0..(Hundred - 1),
         Least(g, n * Hundred, Hundred - rate),
         (g - 1) * rate <= Hundred * f
  PROVE g - 1 - f < n
<1>1. Hundred \in Nat \ {0}
  BY FeeAssumption
<1>2. (Hundred - rate) * g = Hundred * g - g * rate
  BY <1>1
<1>3. (g - 1) * rate = g * rate - rate
  OBVIOUS
<1>4. Hundred * (g - 1 - f) < Hundred * n
  BY <1>1, <1>2, <1>3 DEF Least
<1> QED
  BY <1>1, <1>4

(* Dividing the bounds of CeilToWhole by the whole.                        *)
LEMMA CeilOfWholes ==
  ASSUME NEW num \in Int, NEW den \in Nat \ {0}
  PROVE \E k \in Int : CeilToWhole(Whole * num, den) = Whole * k /\ Least(k, num, den)
<1>1. Whole * num \in Int /\ Whole \in Nat \ {0}
  BY FeeAssumption
<1>2. PICK k \in Int : /\ CeilToWhole(Whole * num, den) = Whole * k
                       /\ Whole * num <= den * Whole * k
                       /\ den * Whole * k < Whole * num + den * Whole
  BY <1>1, CeilToWholeBounds
<1>3. Whole * num <= Whole * (den * k)
  BY <1>1, <1>2
<1>4. Whole * (den * k) < Whole * (num + den)
  BY <1>1, <1>2
<1>5. num <= den * k
  BY <1>1, <1>3
<1>6. den * k < num + den
  BY <1>1, <1>4
<1> QED
  BY <1>2, <1>5, <1>6 DEF Least

(* What a deposit of a whole net amount is grossed up to is whole, its fee *)
(* rounded up leaves exactly the net amount, and one whole less would not  *)
(* (calculateDepositProviderFeeDecimal).                                   *)
THEOREM GrossUpExact ==
  ASSUME NEW net \in Int, IsWhole(net), NEW rate \in 0..(Hundred - 1)
  PROVE LET total == net + DepositProviderFee(rate, net)
        IN /\ \E g \in Int : total = Whole * g
           /\ total - CeilToWhole(total * rate, Hundred) = net
           /\ total - Whole - CeilToWhole((total - Whole) * rate, Hundred) < net
<1> DEFINE total == net + DepositProviderFee(rate, net)
<1>1. Whole \in Nat \ {0} /\ Hundred \in Nat \ {0} /\ Hundred - rate \in Nat \ {0}
  BY FeeAssumption
<1>2. PICK n \in Int : net = Whole * n
  <2>1. net = Whole * (net \div Whole) /\ net \div Whole \in Int
    BY <1>1, SMTT(30) DEF IsWhole
  <2> QED
    BY <2>1
<1>3. PICK g \in Int : total = Whole * g /\ Least(g, n * Hundred, Hundred - rate)
  <2>1. CASE rate = 0
    <3>1. total = Whole * n
      BY <2>1, <1>2, <1>1 DEF DepositProviderFee
    <3>2. Least(n, n * Hundred, Hundred - rate)
      BY <2>1, <1>1 DEF Least
    <3> QED
      BY <3>1, <3>2
  <2>2. CASE rate # 0
    <3>1. n * Hundred \in Int /\ net * Hundred = Whole * (n * Hundred)
      BY <1>1, <1>2
    <3>2. PICK g \in Int :
            /\ CeilToWhole(net * Hundred, Hundred - rate) = Whole * g
            /\ Least(g, n * Hundred, Hundred - rate)
      BY <1>1, <3>1, CeilOfWholes
    <3>3. total = Whole * g
      BY <2>2, <3>2, <1>1 DEF DepositProviderFee
    <3> QED
      BY <3>2, <3>3
  <2> QED
    BY <2>1, <2>2
<1> HIDE DEF total
<1>4. total - CeilToWhole(total * rate, Hundred) = net
  <2>1. g * rate \in Int /\ total * rate = Whole * (g * rate)
    BY <1>1, <1>3
  <2>2. PICK f \in Int : /\ CeilToWhole(total * rate, Hundred) = Whole * f
                         /\ Least(f, g * rate, Hundred)
    BY <1>1, <2>1, CeilOfWholes
  <2>3. g - f = n
    BY <1>3, <2>2, GrossUpInWholes
  <2>4. Whole * g - Whole * f = Whole * n
    BY <1>1, <2>3
  <2> QED
    BY <1>2, <1>3, <2>2, <2>4
<1>5. total - Whole - CeilToWhole((total - Whole) * rate, Hundred) < net
  <2>1. (g - 1) * rate \in Int /\ (total - Whole) * rate = Whole * ((g - 1) * rate)
    BY <1>1, <1>3
  <2>2. PICK f \in Int : /\ CeilToWhole((total - Whole) * rate, Hundred) = Whole * f
                         /\ Least(f, (g - 1) * rate, Hundred)
    BY <1>1, <2>1, CeilOfWholes
  <2>3. g - 1 - f < n
    BY <1>3, <2>2, OneLessInWholes DEF Least
  <2>4. Whole * (g - 1 - f) < Whole * n
    BY <1>1, <2>3
  <2>5. Whole * (g - 1 - f) = Whole * g - Whole - Whole * f
    BY <1>1
  <2> QED
    BY <1>1, <1>2, <1>3, <2>2, <2>4, <2>5
<1> QED
  BY <1>3, <1>4, <1>5 DEF total

-----------------------------------------------------------------------------
(* Types of the fees                                                       *)

LEMMA CeilToWholeType ==
  ASSUME NEW num \in Nat, NEW den \in Nat \ {0}
  PROVE CeilToWhole(num, den) \in Nat /\ num <= den * CeilToWhole(num, den)
<1>1. PICK k \in Int : /\ CeilToWhole(num, den) = Whole * k
                       /\ num <= den * Whole * k
  BY CeilToWholeBounds
<1>2. Whole * k \in Int /\ den * Whole * k = den * (Whole * k)
  BY FeeAssumption
<1>3. 0 <= den * (Whole * k)
  BY <1>1, <1>2
<1>4. 0 <= Whole * k
  BY <1>2, <1>3
<1> QED
  BY <1>1, <1>2, <1>4

LEMMA CappedType ==
  ASSUME NEW amount \in Nat, NEW rate \in Nat, NEW cap \in Nat \cup {NoCap}
  PROVE Capped(amount, rate, cap) \in Nat
<1>1. amount * rate \in Nat
  OBVIOUS
<1>2. CASE cap = NoCap
  BY <1>1, <1>2 DEF Capped
<1>3. CASE cap # NoCap
  <2>1. cap * Hundred \in Nat
    BY <1>3, FeeAssumption
  <2> QED
    BY <1>1, <2>1 DEF Capped
<1> QED
  BY <1>2, <1>3

LEMMA CustomerFeeType ==
  ASSUME NEW fee \in Fee, NEW amount \in Nat
  PROVE CustomerFee(fee, amount) \in Nat
<1>1. /\ fee.fixed \in Nat /\ fee.percent \in Nat /\ fee.cap \in Nat \cup {NoCap}
      /\ Hundred \in Nat \ {0}
  BY FeeAssumption DEF Fee
<1>2. Capped(amount, fee.percent, fee.cap) \in Nat
  BY <1>1, CappedType
<1>3. CeilToWhole(Capped(amount, fee.percent, fee.cap), Hundred) \in Nat
  BY <1>1, <1>2, CeilToWholeType
<1> QED
  BY <1>1, <1>3 DEF CustomerFee

LEMMA DepositProviderFeeType ==
  ASSUME NEW rate \in 0..(Hundred - 1), NEW net \in Nat
  PROVE DepositProviderFee(rate, net) \in Nat
<1>1. Hundred \in Nat \ {0} /\ Hundred - rate \in Nat \ {0} /\ net * Hundred \in Nat
  BY FeeAssumption
<1> DEFINE gross == CeilToWhole(net * Hundred, Hundred - rate)
<1>2. gross \in Nat /\ net * Hundred <= (Hundred - rate) * gross
  BY <1>1, CeilToWholeType
<1> HIDE DEF gross
<1>3. (Hundred - rate) * gross <= Hundred * gross
  BY <1>1, <1>2
<1>4. Hundred * net <= Hundred * gross
  BY <1>1, <1>2, <1>3
<1>5. net <= gross
  BY <1>1, <1>2, <1>4
<1> QED
  BY <1>2, <1>5 DEF DepositProviderFee, gross

LEMMA RoundToType ==
  ASSUME NEW place \in Nat \ {0}, NEW num \in Nat, NEW den \in Nat \ {0}
  PROVE RoundTo(place, num, den) \in Nat
<1> DEFINE a == 2 * num + den * place
           b == 2 * den * place
<1>1. a \in Nat /\ b \in Nat \ {0}
  OBVIOUS
<1> HIDE DEF a, b
<1>2. a \div b \in Int /\ a < b * (a \div b) + b
  BY <1>1, DivBounds
<1>3. a \div b \in Nat
  <2> DEFINE q == a \div b
  <2> HIDE DEF q
  <2>1. q \in Int /\ 0 < b * (q + 1)
    BY <1>1, <1>2 DEF q
  <2>2. 0 < q + 1
    BY <1>1, <2>1
  <2> QED
    BY <2>1, <2>2 DEF q
<1>4. RoundTo(place, num, den) = place * (a \div b)
  BY DEF RoundTo, a, b
<1> QED
  BY <1>3, <1>4

LEMMA PlaceOfType ==
  ASSUME NEW currency PROVE PlaceOf(currency) \in Nat \ {0}
  BY FeeAssumption DEF PlaceOf

LEMMA CurrencyFeeType ==
  ASSUME NEW fee \in Fee, NEW amount \in Nat, NEW currency
  PROVE CurrencyFee(fee, amount, currency) \in Nat
<1>1. /\ fee.fixed \in Nat /\ fee.percent \in Nat /\ fee.cap \in Nat \cup {NoCap}
      /\ Hundred \in Nat \ {0}
  BY FeeAssumption DEF Fee
<1>2. Capped(amount, fee.percent, fee.cap) \in Nat
  BY <1>1, CappedType
<1>3. fee.fixed * Hundred + Capped(amount, fee.percent, fee.cap) \in Nat
  BY <1>1, <1>2
<1> QED
  BY <1>1, <1>3, PlaceOfType, RoundToType DEF CurrencyFee

-----------------------------------------------------------------------------
(* The inductive invariant: what each phase of a row says of its price.    *)

Forms(x) ==
  /\ x.kind # "deposit" => x.phase \in {"new", "priced", "debited"}
  /\ x.kind = "deposit" => x.phase # "debited" /\ x.currency = "XAF"
  /\ x.phase # "new" =>
       x.total = TotalOf(PlaceOf(x.currency), x.amount + x.providerFee + x.reepayFee)

Grossed(x, t) ==
  x.kind = "deposit" /\ x.phase # "new" =>
    x.providerFee = DepositProviderFee(t.depositPercent, x.amount + x.reepayFee)

Moved(x) ==
  /\ x.phase \in {"paid", "credited", "refused"} =>
       x.moved = x.total - CeilToWhole(x.total * x.charge, Hundred)
  /\ x.phase = "credited" => x.moved = x.total - x.providerFee
  /\ x.phase = "refused" => x.moved # x.total - x.providerFee
  /\ x.phase = "debited" => x.moved = x.total

PricedRight(x, t) == Forms(x) /\ Grossed(x, t) /\ Moved(x)

PricingInv == TypeOK /\ \A r \in Rows : PricedRight(row[r], terms[r])

LEMMA InitPricing == Init => PricingInv
<1> SUFFICES ASSUME Init PROVE PricingInv
  OBVIOUS
<1>1. 0 \in 0..(Hundred - 1)
  BY FeeAssumption
<1>2. Blank \in Row
  BY <1>1 DEF Blank, Row, RowKinds, Currencies, Phases
<1>3. TypeOK
  BY <1>2, PricingAssumption DEF Init, TypeOK
<1>4. \A r \in Rows : PricedRight(row[r], terms[r])
  BY DEF Init, PricedRight, Forms, Grossed, Moved, Blank
<1> QED
  BY <1>3, <1>4 DEF PricingInv

LEMMA TotalOfType ==
  ASSUME NEW place \in Nat \ {0}, NEW sum \in Nat
  PROVE TotalOf(place, sum) \in Nat
  BY RoundToType DEF TotalOf

(* Pricing a row, with fees that are natural numbers.                      *)
LEMMA PriceKeeps ==
  ASSUME PricingInv,
         NEW r \in Rows, NEW kind \in RowKinds, NEW currency \in Currencies,
         NEW amount \in Nat, NEW providerFee \in Nat, NEW reepayFee \in Nat,
         kind = "deposit" =>
           /\ currency = "XAF"
           /\ providerFee = DepositProviderFee(config.depositPercent, amount + reepayFee),
         Price(r, kind, currency, PlaceOf(currency), amount, providerFee, reepayFee)
  PROVE PricingInv'
<1> DEFINE total == TotalOf(PlaceOf(currency), amount + providerFee + reepayFee)
           x == [kind |-> kind, currency |-> currency, phase |-> "priced",
                 amount |-> amount, providerFee |-> providerFee,
                 reepayFee |-> reepayFee, total |-> total,
                 charge |-> 0, moved |-> 0]
<1>1. total \in Nat
  BY PlaceOfType, TotalOfType
<1> HIDE DEF total
<1>2. row' = [row EXCEPT ![r] = x]
  BY DEF Price, total
<1>3. terms' = [terms EXCEPT ![r] = config] /\ config' = config
  BY DEF Price
<1>4. x \in Row
  BY <1>1, FeeAssumption DEF Row, RowKinds, Currencies, Phases
<1>5. PricedRight(x, config)
  BY DEF PricedRight, Forms, Grossed, Moved, RowKinds, total
<1> HIDE DEF x
<1>6. TypeOK'
  BY <1>2, <1>3, <1>4 DEF PricingInv, TypeOK
<1>7. ASSUME NEW s \in Rows PROVE PricedRight(row'[s], terms'[s])
  <2>1. CASE s = r
    BY <2>1, <1>2, <1>3, <1>5 DEF PricingInv, TypeOK
  <2>2. CASE s # r
    BY <2>2, <1>2, <1>3 DEF PricingInv, TypeOK
  <2> QED
    BY <2>1, <2>2
<1> QED
  BY <1>6, <1>7 DEF PricingInv

LEMMA PricesKeep ==
  ASSUME PricingInv, NEW r \in Rows, NEW amount \in Amounts,
         \/ PriceDeposit(r, amount)
         \/ \E currency \in {"EUR", "USDC"} :
              \/ QuoteConversion(r, amount, currency)
              \/ \E providerFee \in Amounts :
                   QuotePayout(r, amount, currency, providerFee)
  PROVE PricingInv'
<1>1. /\ amount \in Nat
      /\ config.customer \in Fee
      /\ config.payout \in [{"EUR", "USDC"} -> Fee]
      /\ config.depositPercent \in 0..(Hundred - 1)
      /\ config.bankPayoutPercent \in 0..(Hundred - 1)
  BY PricingAssumption DEF PricingInv, TypeOK, Config
<1>2. CustomerFee(config.customer, amount) \in Nat
  BY <1>1, CustomerFeeType
<1>3. PlaceOf("XAF") = Place
  BY DEF PlaceOf
<1>4. CASE PriceDeposit(r, amount)
  <2> DEFINE reepayFee == CustomerFee(config.customer, amount)
             providerFee == DepositProviderFee(config.depositPercent, amount + reepayFee)
  <2>1. reepayFee \in Nat /\ amount + reepayFee \in Nat
    BY <1>1, <1>2
  <2>2. providerFee \in Nat
    BY <1>1, <2>1, DepositProviderFeeType
  <2>3. Price(r, "deposit", "XAF", PlaceOf("XAF"), amount, providerFee, reepayFee)
    BY <1>3, <1>4 DEF PriceDeposit
  <2> HIDE DEF reepayFee
  <2>4. "deposit" \in RowKinds /\ "XAF" \in Currencies
    BY DEF RowKinds, Currencies
  <2> QED
    BY <1>1, <2>1, <2>2, <2>3, <2>4, PriceKeeps
<1>5. ASSUME NEW currency \in {"EUR", "USDC"}, QuoteConversion(r, amount, currency)
      PROVE PricingInv'
  <2> DEFINE providerFee ==
        IF currency = "EUR"
          THEN BankPayoutProviderFee(config.bankPayoutPercent, amount) ELSE 0
  <2>1. providerFee \in Nat
    <3>1. amount * config.bankPayoutPercent \in Nat /\ Hundred \in Nat \ {0}
      BY <1>1, FeeAssumption
    <3> QED
      BY <3>1, CeilToWholeType DEF BankPayoutProviderFee
  <2>2. Price(r, "conversion", "XAF", PlaceOf("XAF"), amount, providerFee,
              CustomerFee(config.customer, amount))
    BY <1>3, <1>5 DEF QuoteConversion
  <2> HIDE DEF providerFee
  <2>3. "conversion" \in RowKinds /\ "XAF" \in Currencies
    BY DEF RowKinds, Currencies
  <2> QED
    BY <1>1, <1>2, <2>1, <2>2, <2>3, PriceKeeps
<1>6. ASSUME NEW currency \in {"EUR", "USDC"}, NEW providerFee \in Amounts,
             QuotePayout(r, amount, currency, providerFee)
      PROVE PricingInv'
  <2> DEFINE reepayFee == CurrencyFee(config.payout[currency], amount, currency)
  <2>1. reepayFee \in Nat
    BY <1>1, CurrencyFeeType
  <2>2. Price(r, "payout", currency, PlaceOf(currency), amount, providerFee, reepayFee)
    BY <1>6 DEF QuotePayout
  <2> HIDE DEF reepayFee
  <2>3. "payout" \in RowKinds /\ currency \in Currencies /\ providerFee \in Nat
    BY PricingAssumption DEF RowKinds, Currencies
  <2> QED
    BY <1>1, <2>1, <2>2, <2>3, PriceKeeps
<1> QED
  BY <1>4, <1>5, <1>6

(* A step that changes the phase, the charge and what moved of one row.    *)
LEMMA SettleKeeps ==
  ASSUME PricingInv, NEW r \in Rows, NEW phase \in Phases, NEW moved \in Int,
         NEW charge \in 0..(Hundred - 1),
         row' = [row EXCEPT ![r].phase = phase, ![r].charge = charge, ![r].moved = moved],
         UNCHANGED <<config, terms>>,
         row[r].phase # "new",
         phase # "new",
         PricedRight([row[r] EXCEPT !.phase = phase, !.charge = charge, !.moved = moved],
                     terms[r])
  PROVE PricingInv'
<1> DEFINE x == [row[r] EXCEPT !.phase = phase, !.charge = charge, !.moved = moved]
<1>1. row' = [row EXCEPT ![r] = x]
  OBVIOUS
<1>2. x \in Row
  BY DEF PricingInv, TypeOK, Row
<1>3. PricedRight(x, terms[r])
  OBVIOUS
<1> HIDE DEF x
<1>4. TypeOK'
  BY <1>1, <1>2 DEF PricingInv, TypeOK
<1>5. ASSUME NEW s \in Rows PROVE PricedRight(row'[s], terms'[s])
  <2>1. CASE s = r
    BY <2>1, <1>1, <1>3 DEF PricingInv, TypeOK
  <2>2. CASE s # r
    BY <2>2, <1>1 DEF PricingInv, TypeOK
  <2> QED
    BY <2>1, <2>2
<1> QED
  BY <1>4, <1>5 DEF PricingInv

LEMMA PayInKeeps ==
  ASSUME PricingInv, NEW r \in Rows, NEW charge \in Charges, PayIn(r, charge)
  PROVE PricingInv'
<1> DEFINE moved == row[r].total - CeilToWhole(row[r].total * charge, Hundred)
<1>1. row[r] \in Row /\ charge \in 0..(Hundred - 1) /\ Hundred \in Nat \ {0}
  BY PricingAssumption, FeeAssumption DEF PricingInv, TypeOK
<1>2. row[r].total * charge \in Nat /\ row[r].total \in Nat
  BY <1>1 DEF Row
<1>3. moved \in Int
  <2>1. CeilToWhole(row[r].total * charge, Hundred) \in Nat
    BY <1>1, <1>2, CeilToWholeType
  <2> QED
    BY <1>2, <2>1
<1>4. PricedRight([row[r] EXCEPT !.phase = "paid", !.charge = charge, !.moved = moved],
                  terms[r])
  <2> HIDE DEF moved
  <2> DEFINE x == [row[r] EXCEPT !.phase = "paid", !.charge = charge, !.moved = moved]
  <2>1. /\ x.kind = row[r].kind /\ x.currency = row[r].currency /\ x.phase = "paid"
        /\ x.amount = row[r].amount /\ x.providerFee = row[r].providerFee
        /\ x.reepayFee = row[r].reepayFee /\ x.total = row[r].total
        /\ x.charge = charge /\ x.moved = moved
    BY <1>1 DEF Row
  <2>2. PricedRight(row[r], terms[r]) /\ row[r].kind = "deposit" /\ row[r].phase = "priced"
    BY DEF PricingInv, PayIn
  <2> HIDE DEF x
  <2>3. Forms(x) /\ Grossed(x, terms[r])
    BY <2>1, <2>2 DEF PricedRight, Forms, Grossed
  <2>4. Moved(x)
    BY <2>1 DEF Moved, moved
  <2> QED
    BY <2>3, <2>4 DEF PricedRight, x
<1>5. row' = [row EXCEPT ![r].phase = "paid", ![r].charge = charge, ![r].moved = moved]
  BY DEF PayIn
<1> HIDE DEF moved
<1> QED
  BY <1>1, <1>3, <1>4, <1>5, SettleKeeps DEF PayIn, Phases

(* The steps that keep the charge.                                         *)
LEMMA AdvanceKeeps ==
  ASSUME PricingInv, NEW r \in Rows, NEW phase \in Phases, NEW moved \in Int,
         Advance(r, phase, moved), row[r].phase # "new", phase # "new",
         row[r].kind # "deposit" => phase = "debited",
         row[r].kind = "deposit" => phase \in {"credited", "refused"},
         Moved([row[r] EXCEPT !.phase = phase, !.moved = moved])
  PROVE PricingInv'
<1> DEFINE x == [row[r] EXCEPT !.phase = phase, !.moved = moved]
           y == [row[r] EXCEPT !.phase = phase, !.charge = row[r].charge, !.moved = moved]
<1>1. row[r] \in Row
  BY DEF PricingInv, TypeOK
<1>2. y = x
  BY <1>1 DEF Row
<1>3. /\ x.kind = row[r].kind /\ x.currency = row[r].currency /\ x.phase = phase
      /\ x.amount = row[r].amount /\ x.providerFee = row[r].providerFee
      /\ x.reepayFee = row[r].reepayFee /\ x.total = row[r].total
  BY <1>1 DEF Row
<1>4. PricedRight(row[r], terms[r]) /\ Moved(x)
  BY DEF PricingInv
<1>5. row' = [row EXCEPT ![r] = x]
  BY DEF Advance
<1> HIDE DEF x
<1>6. Forms(x) /\ Grossed(x, terms[r])
  BY <1>3, <1>4 DEF PricedRight, Forms, Grossed
<1>7. PricedRight(y, terms[r])
  BY <1>2, <1>4, <1>6 DEF PricedRight
<1>8. row' = [row EXCEPT ![r].phase = phase, ![r].charge = row[r].charge,
                         ![r].moved = moved]
  BY <1>2, <1>5
<1>9. row[r].charge \in 0..(Hundred - 1)
  BY <1>1 DEF Row
<1> QED
  BY <1>7, <1>8, <1>9, SettleKeeps DEF Advance

LEMMA CreditDepositKeeps ==
  ASSUME PricingInv, NEW r \in Rows, CreditDeposit(r)
  PROVE PricingInv'
<1>1. row[r] \in Row /\ PricedRight(row[r], terms[r]) /\ row[r].phase = "paid"
  BY DEF PricingInv, TypeOK, CreditDeposit
<1>2. row[r].moved \in Int /\ row[r].kind = "deposit"
  BY <1>1 DEF Row, PricedRight, Forms
<1>3. Moved([row[r] EXCEPT !.phase = "credited", !.moved = row[r].moved])
  BY <1>1 DEF CreditDeposit, ExpectedSettlement, PricedRight, Moved, Row
<1> QED
  BY <1>1, <1>2, <1>3, AdvanceKeeps DEF CreditDeposit, Phases

LEMMA RefuseDepositKeeps ==
  ASSUME PricingInv, NEW r \in Rows, RefuseDeposit(r)
  PROVE PricingInv'
<1>1. row[r] \in Row /\ PricedRight(row[r], terms[r]) /\ row[r].phase = "paid"
  BY DEF PricingInv, TypeOK, RefuseDeposit
<1>2. row[r].moved \in Int /\ row[r].kind = "deposit"
  BY <1>1 DEF Row, PricedRight, Forms
<1>3. Moved([row[r] EXCEPT !.phase = "refused", !.moved = row[r].moved])
  BY <1>1 DEF RefuseDeposit, ExpectedSettlement, PricedRight, Moved, Row
<1> QED
  BY <1>1, <1>2, <1>3, AdvanceKeeps DEF RefuseDeposit, Phases

LEMMA ConfirmQuoteKeeps ==
  ASSUME PricingInv, NEW r \in Rows, ConfirmQuote(r)
  PROVE PricingInv'
<1>1. row[r] \in Row
  BY DEF PricingInv, TypeOK
<1>2. row[r].total \in Int
  BY <1>1 DEF Row
<1>3. Moved([row[r] EXCEPT !.phase = "debited", !.moved = row[r].total])
  BY <1>1 DEF Moved, Row
<1> QED
  BY <1>2, <1>3, AdvanceKeeps DEF ConfirmQuote, Phases

(* The price of every row, the rate it was grossed up with and what its    *)
(* settlement moved stay related (the pricing and settling methods of the  *)
(* services above).                                                        *)
THEOREM Invariance == Spec => []PricingInv
<1>1. PricingInv /\ [Next]_vars => PricingInv'
  <2> SUFFICES ASSUME PricingInv, [Next]_vars PROVE PricingInv'
    OBVIOUS
  <2>1. CASE \E r \in Rows, amount \in Amounts :
               \/ PriceDeposit(r, amount)
               \/ \E currency \in {"EUR", "USDC"} :
                    \/ QuoteConversion(r, amount, currency)
                    \/ \E providerFee \in Amounts :
                         QuotePayout(r, amount, currency, providerFee)
    BY <2>1, PricesKeep
  <2>2. CASE \E r \in Rows, charge \in Charges : PayIn(r, charge)
    BY <2>2, PayInKeeps
  <2>3. CASE \E r \in Rows : CreditDeposit(r) \/ RefuseDeposit(r) \/ ConfirmQuote(r)
    BY <2>3, CreditDepositKeeps, RefuseDepositKeeps, ConfirmQuoteKeeps
  <2>4. CASE Reconfigure
    BY <2>4, PricingAssumption DEF Reconfigure, PricingInv, TypeOK
  <2>5. CASE UNCHANGED vars
    BY <2>5 DEF vars, PricingInv, TypeOK
  <2> QED
    BY <2>1, <2>2, <2>3, <2>4, <2>5 DEF Next
<1> QED
  BY <1>1, InitPricing, PTL DEF Spec

-----------------------------------------------------------------------------
(* What the invariant says of a deposit                                    *)

(* A deposit of a whole net amount keeps the grossed-up total: rounding it *)
(* to the fourth place changes nothing.                                    *)
LEMMA WholeDeposit ==
  ASSUME PricingInv, NEW r \in Rows, row[r].kind = "deposit",
         row[r].phase # "new", IsWhole(Net(r))
  PROVE LET rate == terms[r].depositPercent
        IN /\ rate \in 0..(Hundred - 1)
           /\ row[r].total - row[r].providerFee = Net(r)
           /\ row[r].total - CeilToWhole(row[r].total * rate, Hundred) = Net(r)
           /\ row[r].total - Whole
                - CeilToWhole((row[r].total - Whole) * rate, Hundred) < Net(r)
<1> DEFINE rate == terms[r].depositPercent
           net == Net(r)
           total == net + DepositProviderFee(rate, net)
<1>1. row[r] \in Row /\ rate \in 0..(Hundred - 1)
  BY DEF PricingInv, TypeOK, Config
<1>2. net \in Int /\ net = row[r].amount + row[r].reepayFee
  BY <1>1 DEF Net, Row
<1>3. /\ \E g \in Int : total = Whole * g
      /\ total - CeilToWhole(total * rate, Hundred) = net
      /\ total - Whole - CeilToWhole((total - Whole) * rate, Hundred) < net
  BY <1>1, <1>2, GrossUpExact
<1>4. PricedRight(row[r], terms[r])
  BY DEF PricingInv
<1>5. row[r].providerFee = DepositProviderFee(rate, net)
  BY <1>2, <1>4 DEF PricedRight, Grossed
<1>6. row[r].amount + row[r].providerFee + row[r].reepayFee = total
  BY <1>1, <1>2, <1>5 DEF Row
<1>7. row[r].total = RoundTo(Place, total, 1)
  BY <1>4, <1>6 DEF PricedRight, Forms, PlaceOf, TotalOf
<1>8. PICK g \in Int : total = Whole * g
  BY <1>3
<1> HIDE DEF total
<1>9. PICK m \in Int : Whole = Place * m
  <2>1. /\ Whole \in Nat \ {0} /\ Place \in Nat \ {0} /\ Whole % Place = 0
    BY FeeAssumption
  <2>2. Whole = Place * (Whole \div Place) /\ Whole \div Place \in Int
    BY <2>1, SMTT(30)
  <2> QED
    BY <2>2
<1>10. m * g \in Int /\ total = Place * (m * g)
  BY <1>8, <1>9, FeeAssumption
<1>11. row[r].total = total
  BY <1>7, <1>10, RoundToMultiple, FeeAssumption
<1>12. row[r].total - row[r].providerFee = net
  <2>1. row[r].providerFee \in Int /\ row[r].total = net + row[r].providerFee
    BY <1>1, <1>5, <1>11 DEF Row, total
  <2> QED
    BY <2>1, <1>2
<1> HIDE DEF net, rate
<1> QED
  BY <1>1, <1>3, <1>11, <1>12 DEF net, rate

(* A deposit paid at the rate it was priced with is credited, whatever     *)
(* the configuration has become (ensureSettlementMatches against           *)
(* calculateDepositProviderFeeDecimal).                                    *)
THEOREM CreditedAsPriced == Spec => []PaidAsPricedIsCredited
<1>1. PricingInv => PaidAsPricedIsCredited
  <2> SUFFICES ASSUME PricingInv, NEW r \in Rows, IsWhole(Net(r)),
                      row[r].charge = terms[r].depositPercent,
                      row[r].phase = "refused"
               PROVE FALSE
    BY DEF PaidAsPricedIsCredited
  <2>1. PricedRight(row[r], terms[r]) /\ row[r] \in Row
    BY DEF PricingInv, TypeOK
  <2>2. row[r].kind = "deposit" /\ row[r].phase # "new"
    BY <2>1 DEF PricedRight, Forms
  <2>3. /\ row[r].total - row[r].providerFee = Net(r)
        /\ row[r].total - CeilToWhole(row[r].total * row[r].charge, Hundred) = Net(r)
    BY <2>2, WholeDeposit
  <2>4. /\ row[r].moved = row[r].total - CeilToWhole(row[r].total * row[r].charge, Hundred)
        /\ row[r].moved # row[r].total - row[r].providerFee
    BY <2>1 DEF PricedRight, Moved
  <2> QED
    BY <2>3, <2>4
<1> QED
  BY <1>1, Invariance, PTL

(* The payer of a deposit is asked for no more than what settles in full   *)
(* takes (calculateDepositProviderFeeDecimal).                             *)
THEOREM LeastAsked == Spec => []LeastThatSettles
<1>1. PricingInv => LeastThatSettles
  BY WholeDeposit DEF LeastThatSettles
<1> QED
  BY <1>1, Invariance, PTL

(* What is credited or reserved covers the amount and the fees but for     *)
(* half a unit of the last place (toDecimalPlaces on the stored totals).   *)
THEOREM Covered == Spec => []CoveredUpToRounding
<1>1. PricingInv => CoveredUpToRounding
  <2> SUFFICES ASSUME PricingInv, NEW r \in Rows,
                      row[r].phase \in {"credited", "debited"}
               PROVE 2 * (OwedUnder(r) - row[r].moved) <= PlaceOf(row[r].currency)
    BY DEF CoveredUpToRounding
  <2> DEFINE x == row[r]
             place == PlaceOf(x.currency)
             sum == x.amount + x.providerFee + x.reepayFee
  <2>1. PricedRight(x, terms[r]) /\ x \in Row
    BY DEF PricingInv, TypeOK
  <2>2. place \in Nat \ {0}
    BY PlaceOfType
  <2>3. /\ x.amount \in Int /\ x.providerFee \in Int /\ x.reepayFee \in Int
        /\ x.total \in Int /\ x.moved \in Int /\ sum \in Int
    BY <2>1 DEF Row
  <2>4. x.total = RoundTo(place, sum, 1)
    BY <2>1 DEF PricedRight, Forms, TotalOf
  <2>5. PICK q \in Int : /\ RoundTo(place, sum, 1) = place * q
                         /\ 2 * sum + place < 2 * (place * q) + 2 * place
    BY <2>2, <2>3, RoundToBounds
  <2>6. 2 * sum < 2 * x.total + place
    BY <2>2, <2>3, <2>4, <2>5
  <2>7. CASE x.phase = "credited"
    <3>1. x.kind = "deposit" /\ x.moved = x.total - x.providerFee
      BY <2>1, <2>7 DEF PricedRight, Forms, Moved
    <3>2. OwedUnder(r) = x.amount + x.reepayFee
      BY <2>3, <3>1 DEF OwedUnder, Net
    <3> HIDE DEF x, place
    <3> QED
      BY <2>2, <2>3, <2>6, <3>1, <3>2 DEF x, place
  <2>8. CASE x.phase = "debited"
    <3>1. x.kind # "deposit" /\ x.moved = x.total
      BY <2>1, <2>8 DEF PricedRight, Forms, Moved
    <3>2. OwedUnder(r) = sum
      BY <2>3, <3>1 DEF OwedUnder, Net
    <3> QED
      BY <2>2, <2>3, <2>6, <3>1, <3>2
  <2> QED
    BY <2>7, <2>8
<1> QED
  BY <1>1, Invariance, PTL

=============================================================================
