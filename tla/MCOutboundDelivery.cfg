SPECIFICATION FairSpec
CONSTANTS
  Deliveries <- MCDeliveries
  MaxAttempts = 2
  BatchSize = 1
  Outages = 2
INVARIANTS
  DeliveryInv
  AttemptsBounded
  DeliveredWasTaken
PROPERTIES
  OnlyDispatchTakesBack
  DueIsResolved
CHECK_DEADLOCK FALSE
