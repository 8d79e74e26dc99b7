\* One row; eight smallest units to a whole XAF, four to the fourth decimal
\* place, and rates of 1, 3 and 7 in 40.
SPECIFICATION Spec
CONSTANTS
  Rows = {r1}
  Place = 4
  Whole = 8
  Hundred = 40
  NoCap = NoCap
  Amounts <- MCAmounts
  Configs <- MCConfigs
  Charges = {0, 1, 3, 7}
INVARIANTS
  PaidAsPricedIsCredited
  CoveredUpToRounding
  LeastThatSettles
\* A row that is credited, refused or debited is not touched again.
CHECK_DEADLOCK FALSE
