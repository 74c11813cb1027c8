SPECIFICATION FairSpec
CONSTANTS
  Reservation = {r1}
  Tier = {ga}
  Worker = {w1}
  NoOrder = none
  InitialCapacity = 1
  CapacityChoice = {1}
  MaxPerOrder = 1
  MaxAttempt = 1
  MaxChange = 2
  Simulation = FALSE
  AutoRefund = TRUE
  UnclearAnswers = TRUE
INVARIANTS SellingMeansDrained ClosedEventOwesRefunds RefundMatchesOrder
PROPERTIES StoppedNeverSold NoEntryOnRefund ReservationsEnd DueOrdersEnd SalesReopen OwedRefundsHandled
CHECK_DEADLOCK FALSE
