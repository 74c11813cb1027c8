SPECIFICATION Spec
CONSTANTS
  Reservation = {r1}
  Tier = {ga}
  Worker = {w1, w2}
  NoOrder = none
  InitialCapacity = 1
  CapacityChoice = {1}
  MaxPerOrder = 1
  MaxAttempt = 2
  MaxChange = 1
  Simulation = FALSE
  AutoRefund = TRUE
  UnclearAnswers = TRUE
SYMMETRY MCSymmetry
INVARIANTS MoneyMatchesGoods TicketsKeepStock RedirectOfThisAttempt ReleasedIsUncollectable
PROPERTY SettlementIsFinal
CHECK_DEADLOCK FALSE
