\* One payout, on either rail: its confirm call, webhooks and the
\* reconciliation pass race.
SPECIFICATION Spec
CONSTANTS
  w1 = w1
  q1 = q1
  q2 = q2
  None = None
  Wallets = {w1}
  Quotes = {q1}
  Keys = {k1, k2}
  Handlers = {h1}
  Settlers = {s1, s2}
  Opening <- MCOpening
  WalletOf <- MCWalletOf
  TotalDebit <- MCTotalDebit
  FeeBearing <- MCFeeBearing
SYMMETRY Symmetry
INVARIANTS
  PayoutsInv
  RowsMatchLedger
  DebitTransactionFollows
  FeeNeedsCompletion
  ReversalAnnouncedOnce
PROPERTIES
  NeverUnsettled
  ReversedForAReason
\* All quotes used and nothing in flight: the service waits for the next quote.
CHECK_DEADLOCK FALSE
