\* Two confirm calls race for the balance of one wallet.
SPECIFICATION Spec
CONSTANTS
  w1 = w1
  q1 = q1
  q2 = q2
  None = None
  Wallets = {w1}
  Quotes = {q1, q2}
  Keys = {k1, k2}
  Handlers = {h1, h2}
  Settlers = {}
  Opening <- MCOpening
  WalletOf <- MCWalletOf
  TotalDebit <- MCTotalDebit
  FeeBearing <- MCFeeBearing
SYMMETRY Symmetry
INVARIANTS
  NeverOverdrawn
\* All quotes used and nothing in flight: the service waits for the next quote.
CHECK_DEADLOCK FALSE
