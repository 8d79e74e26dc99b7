\* Two rows of one table or of two, of which the younger is also reported by a
\* webhook, a batch of one, and one restart.
SPECIFICATION FairSpec
CONSTANTS
  Rows = {1, 2}
  Events = {2}
  Plans <- MCPlans
  Passes = {p1, p2}
  BatchSize = 1
  Outages = 1
INVARIANTS
  ActedOnOnce
  OnePassAtATime
PROPERTIES
  PassesGoOn
  DueIsSettled
\* Rows settled and no pass running: the service waits.
CHECK_DEADLOCK FALSE
