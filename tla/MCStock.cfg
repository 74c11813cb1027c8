SPECIFICATION Spec
CONSTANTS
  Reservation = {r1, r2}
  Tier = {ga}
  Worker = {w1}
  NoOrder = none
  InitialCapacity = 2
  CapacityChoice = {1, 3}
  MaxPerOrder = 2
  MaxAttempt = 0
  MaxChange = 1
  Simulation = TRUE
  AutoRefund = TRUE
  UnclearAnswers = FALSE
SYMMETRY MCSymmetry
INVARIANTS TypeOK StockConserved
PROPERTIES ImplementsLedger
CHECK_DEADLOCK FALSE
