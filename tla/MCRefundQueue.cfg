SPECIFICATION FairSpec
CONSTANTS
  Worker = {w1, w2}
  NoWorker = none
INVARIANTS ClaimIsExclusive FailureIsFinal PaidBackOnce SuccessIsPaid
PROPERTY DecisionsAreRecorded
CHECK_DEADLOCK FALSE
