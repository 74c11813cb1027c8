SPECIFICATION Spec
CONSTANTS
  Worker = {w1, w2}
  NoWorker = none
INVARIANT ManualMeansUnpaid
CHECK_DEADLOCK FALSE
