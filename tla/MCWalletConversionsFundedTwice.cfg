\* A webhook races with the answer, or with the reconciliation pass.
SPECIFICATION Spec
CONSTANTS
  xaf = xaf
  other = other
  None = None
  Wallets = {xaf, other}
  Quotes = {q1}
  Keys = {k1, k2}
  Tasks = {t1, t2}
  Opening <- MCOpening
  SourceOf <- MCSourceOf
  FundedWallet <- MCFundedWallet
  TotalDebit <- MCTotalDebit
  Destination <- MCDestination
  FeeBearing <- MCFeeBearing
SYMMETRY Symmetry
INVARIANTS
  FundedOnce
\* All quotes used and nothing in flight: the service waits for the next quote.
CHECK_DEADLOCK FALSE
