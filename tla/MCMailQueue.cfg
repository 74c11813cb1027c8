SPECIFICATION FairSpec
CONSTANTS
  Worker = {w1, w2}
  NoWorker = none
  MaxBudget = 2
INVARIANTS SentIsAccepted ThreeMailsAtMost RequestOpensOnce ReplacedStaysDown
PROPERTY MailsEnd
CHECK_DEADLOCK FALSE
