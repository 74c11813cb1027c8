SPECIFICATION FairSpec
CONSTANTS
  Reservation = {r1}
  Tier = {ga}
  Worker = {w1}
  NoOrder = none
  InitialCapacity = 1
  CapacityChoice = {1}
  MaxPerOrder = 1
  MaxAttempt = 1
  MaxChange = 0
  Simulation = FALSE
  AutoRefund = FALSE
  UnclearAnswers = FALSE
PROPERTY DueOrdersAlwaysEnd
CHECK_DEADLOCK FALSE
