SPECIFICATION FairSpec
CONSTANTS
  Worker = {w1}
  NoWorker = none
PROPERTY RefundsEnd
CHECK_DEADLOCK FALSE
