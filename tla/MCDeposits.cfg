\* One deposit: its create call, webhooks, polls and the reconciliation pass
\* race.  No symmetry: a liveness property is checked.
SPECIFICATION FairSpec
CONSTANTS
  w1 = w1
  d1 = d1
  d2 = d2
  None = None
  Wallets = {w1}
  Deposits = {d1}
  Tasks = {t1, t2, t3}
  Opening <- MCOpening
  WalletOf <- MCWalletOf
  Amount <- MCAmount
  FeeBearing <- MCFeeBearing
INVARIANTS
  DepositsInv
  NothingPostedTwice
  CreditNeedsCompletion
  ProcessedMeansApplied
  AnnouncedOnce
PROPERTIES
  NeverUnsettled
  CollectedOnce
  DecidedIsSettled
\* Everything settled and nothing sent: the service waits for the next call.
CHECK_DEADLOCK FALSE
