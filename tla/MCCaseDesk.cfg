SPECIFICATION Spec
CONSTANTS
  Candidate = {ana, budi}
  Staff = {sari}
  Token = {t1, t2}
  Nobody = nobody
  MaxPassword = 2
  MaxTruth = 2
INVARIANTS SessionsAreCurrent RevocationWaits OneAdmin
PROPERTIES AnswersInOrder
SYMMETRY Symmetry
