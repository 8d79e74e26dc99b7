\* One submission of each flow, with the three attempts of the code and a Wise
\* fee that changes between two values.
SPECIFICATION FairSpec
CONSTANTS
  Calls = {c1}
  Attempts = 3
  Fees = {1, 2}
INVARIANTS
  PaidAtAgreedFee
PROPERTIES
  MovedOnce
  EndsOrHangs
\* A submission that has ended leaves nothing to do.
CHECK_DEADLOCK FALSE
