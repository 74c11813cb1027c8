SPECIFICATION NotifiedSpec
CONSTANTS
  Reservation = {r1}
  Tier = {ga}
  Worker = {w1}
  NoOrder = none
  InitialCapacity = 1
  CapacityChoice = {1}
  MaxPerOrder = 1
  MaxAttempt = 2
  MaxChange = 0
  Simulation = FALSE
  AutoRefund = FALSE
  UnclearAnswers = FALSE
PROPERTY LateSettlementRecorded
CHECK_DEADLOCK FALSE
