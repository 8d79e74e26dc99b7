\* The reconciliation pass finds a failed payin.
SPECIFICATION Spec
CONSTANTS
  w1 = w1
  d1 = d1
  d2 = d2
  None = None
  Wallets = {w1}
  Deposits = {d1}
  Tasks = {t1}
  Opening <- MCOpening
  WalletOf <- MCWalletOf
  Amount <- MCAmount
  FeeBearing <- MCFeeBearing
SYMMETRY Symmetry
PROPERTIES
  TransitionsAnnounced
\* Everything settled and nothing sent: the service waits for the next call.
CHECK_DEADLOCK FALSE
