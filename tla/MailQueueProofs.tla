-------------------------- MODULE MailQueueProofs --------------------------
(***************************************************************************)
(* The mail queue sends at most three mails a round and marks what it      *)
(* sent, for any number of workers.                                        *)
(***************************************************************************)
EXTENDS MailQueue, FiniteSetTheorems, TLAPS

\* What InFlight loses or gains when one worker moves.
LEMMA InFlightFinite ==
    IsFiniteSet(InFlight) /\ Cardinality(InFlight) \in Nat
<1>1. InFlight \subseteq Worker
  BY DEF InFlight
<1>2. IsFiniteSet(InFlight)
  BY <1>1, MailAssumption, FS_Subset
<1> QED
  BY <1>2, FS_CardinalityType

LEMMA OneFewer ==
    ASSUME NEW w \in InFlight, InFlight' = InFlight \ {w}
    PROVE  Cardinality(InFlight') = Cardinality(InFlight) - 1
BY InFlightFinite, FS_RemoveElement

LEMMA OneMore ==
    ASSUME NEW w, w \notin InFlight, InFlight' = InFlight \cup {w}
    PROVE  Cardinality(InFlight') = Cardinality(InFlight) + 1
BY InFlightFinite, FS_AddElement

\* The row before it exists.
LEMMA InitMail == Init => TypeOK /\ MailInvariant
<1> SUFFICES ASSUME Init PROVE TypeOK /\ MailInvariant
  OBVIOUS
<1>1. InFlight = {}
  BY DEF Init, InFlight
<1>2. Cardinality(InFlight) = 0
  BY <1>1, FS_EmptySet
<1>3. hand \in [Worker -> [step : Step, attempt : 0..maxAttempts]]
  BY DEF Init, Step, maxAttempts
<1>4. attempts \in 0..maxAttempts
  BY DEF Init, maxAttempts
<1>5. TypeOK
  BY <1>3, <1>4 DEF Init, TypeOK, Status
<1> QED
  BY <1>2, <1>5 DEF Init, MailInvariant, SentIsAccepted, ReplacedStaysDown, Mine, At, maxAttempts

\* Requests, the order, the clock and the sweeps: no worker moves.
LEMMA WorldMail ==
    ASSUME TypeOK, MailInvariant,
           \/ EnqueuePaid \/ RequestRecovery \/ OrderChanges \/ RequestExpires
           \/ LeaseLapses \/ FailExhausted \/ ExpireRecovery
    PROVE  TypeOK' /\ MailInvariant'
<1> USE DEF row, links, sent, EndAs
<1>1. hand' = hand
  BY DEF EnqueuePaid, RequestRecovery, OrderChanges, RequestExpires, LeaseLapses,
         FailExhausted, ExpireRecovery
<1>2. InFlight' = InFlight
  BY <1>1 DEF InFlight
<1>3. TypeOK'
  BY DEF TypeOK, Status, EnqueuePaid, RequestRecovery, OrderChanges, RequestExpires,
         LeaseLapses, FailExhausted, ExpireRecovery
<1>4. MailInvariant'
  BY <1>1, <1>2 DEF MailInvariant, SentIsAccepted, ReplacedStaysDown, Mine, At,
     EnqueuePaid, RequestRecovery, OrderChanges, RequestExpires,
     LeaseLapses, FailExhausted, ExpireRecovery
<1> QED
  BY <1>3, <1>4

\* A claim costs an attempt and puts one worker in flight.
LEMMA ClaimMail ==
    ASSUME TypeOK, MailInvariant, NEW w \in Worker, Claim(w)
    PROVE  TypeOK' /\ MailInvariant'
<1> USE DEF Claim, At, row, links, sent
<1>1. w \notin InFlight
  BY DEF InFlight
<1>2. InFlight' = InFlight \cup {w}
  BY DEF InFlight, TypeOK
<1>3. Cardinality(InFlight') = Cardinality(InFlight) + 1
  BY <1>1, <1>2, OneMore
<1>4. TypeOK'
  BY DEF TypeOK, Status, Step, maxAttempts
<1>5. status' # "PROCESSING" => claim' = NoWorker
  OBVIOUS
<1>6. \A v \in Worker : Mine(v)' /\ At(v, "markSent")' => arrived'
  BY DEF Mine, TypeOK
<1>7. mails' + Cardinality(InFlight') <= maxAttempts * (budgets' - 1) + attempts'
  BY <1>3, InFlightFinite DEF MailInvariant, TypeOK, maxAttempts
<1> QED
  BY <1>4, <1>5, <1>6, <1>7 DEF MailInvariant, SentIsAccepted, ReplacedStaysDown

\* A worker moves on: it stays in flight, or leaves it, and only then a mail may count.
LEMMA SendMail ==
    ASSUME TypeOK, MailInvariant, NEW w \in Worker,
           ReadOrder(w) \/ InsertToken(w) \/ Deliver(w)
    PROVE  TypeOK' /\ MailInvariant'
<1> USE DEF row, links, sent, At, Go
<1>1. TypeOK'
  <2>1. PICK step \in Step : hand' = [hand EXCEPT ![w].step = step]
    BY DEF ReadOrder, InsertToken, Deliver, Step
  <2>2. hand' \in [Worker -> [step : Step, attempt : 0..maxAttempts]]
    BY <2>1 DEF TypeOK
  <2>3. mails' \in Nat /\ arrived' \in BOOLEAN
    <3>1. mails' \in {mails, mails + 1}
      BY DEF ReadOrder, InsertToken, Deliver
    <3>2. arrived' \in {arrived, TRUE}
      BY DEF ReadOrder, InsertToken, Deliver
    <3>3. mails' \in Nat
      BY <3>1 DEF TypeOK
    <3>4. arrived' \in BOOLEAN
      BY <3>2 DEF TypeOK
    <3> QED
      BY <3>3, <3>4
  <2>4. tokens' \subseteq 0..maxAttempts /\ spent' \subseteq tokens' /\ inbox' \subseteq tokens'
    <3>1. CASE ReadOrder(w)
      BY <3>1 DEF TypeOK, ReadOrder
    <3>2. CASE InsertToken(w)
      <4>1. hand[w].attempt \in 0..maxAttempts
        BY DEF TypeOK
      <4> QED
        BY <3>2, <4>1 DEF TypeOK, InsertToken
    <3>3. CASE Deliver(w)
      BY <3>3 DEF TypeOK, Deliver
    <3> QED
      BY <3>1, <3>2, <3>3
  <2> QED
    BY <2>2, <2>3, <2>4 DEF TypeOK, ReadOrder, InsertToken, Deliver
<1>2. UNCHANGED row /\ UNCHANGED <<used, grants, budgets>>
  BY DEF ReadOrder, InsertToken, Deliver
<1>3. (arrived => arrived') /\ (hand'[w].step = "markSent" => arrived')
  BY DEF ReadOrder, InsertToken, Deliver, TypeOK
<1>4. \A v \in Worker : v # w => hand'[v] = hand[v]
  BY DEF ReadOrder, InsertToken, Deliver, TypeOK
<1>5. w \in InFlight
  BY DEF InFlight, ReadOrder, InsertToken, Deliver
<1>6. mails' + Cardinality(InFlight') <= mails + Cardinality(InFlight)
  <2>1. CASE w \in InFlight'
    <3>1. InFlight' = InFlight
      BY <1>4, <1>5, <2>1 DEF InFlight
    <3>2. mails' = mails
      BY <2>1 DEF ReadOrder, InsertToken, Deliver, InFlight, TypeOK
    <3> QED
      BY <3>1, <3>2, InFlightFinite DEF TypeOK
  <2>2. CASE w \notin InFlight'
    <3>1. InFlight' = InFlight \ {w}
      BY <1>4, <2>2 DEF InFlight
    <3>2. mails' \in {mails, mails + 1}
      BY DEF ReadOrder, InsertToken, Deliver
    <3>3. Cardinality(InFlight') = Cardinality(InFlight) - 1
      BY <1>5, <3>1, OneFewer
    <3> QED
      BY <3>2, <3>3, InFlightFinite DEF TypeOK
  <2> QED
    BY <2>1, <2>2
<1>7. mails' + Cardinality(InFlight') <= maxAttempts * (budgets' - 1) + attempts'
  <2>1. Cardinality(InFlight') \in Nat
    BY <1>1, <1>4, <1>5, <1>6, InFlightFinite, FS_Subset, FS_CardinalityType, MailAssumption
    DEF InFlight
  <2> QED
    BY <1>1, <1>2, <1>6, <2>1, InFlightFinite DEF MailInvariant, TypeOK, maxAttempts
<1> QED
  BY <1>1, <1>2, <1>3, <1>4, <1>7 DEF MailInvariant, SentIsAccepted, ReplacedStaysDown, Mine

\* A worker ends its job: it was in flight only if it crashed.
LEMMA EndMail ==
    ASSUME TypeOK, MailInvariant, NEW w \in Worker,
           MarkSent(w) \/ Retry(w) \/ FinishFailure(w) \/ Crash(w)
    PROVE  TypeOK' /\ MailInvariant'
<1> USE DEF row, links, sent, At, Go, EndAs
<1>1. TypeOK'
  <2>1. hand' \in [Worker -> [step : Step, attempt : 0..maxAttempts]]
    BY DEF TypeOK, Step, MarkSent, Retry, FinishFailure, Crash
  <2>2. CASE MarkSent(w)
    BY <2>1, <2>2 DEF TypeOK, Status, MarkSent
  <2>3. CASE Retry(w)
    <3>1. UNCHANGED <<status, claim, leased>> \/ (status' \in Status /\ claim' = NoWorker /\ leased' = FALSE)
      BY <2>3 DEF Retry, Status
    <3> QED
      BY <2>1, <2>3, <3>1 DEF TypeOK, Retry
  <2>4. CASE FinishFailure(w)
    BY <2>1, <2>4 DEF TypeOK, Status, FinishFailure
  <2>5. CASE Crash(w)
    BY <2>1, <2>5 DEF TypeOK, Crash
  <2> QED
    BY <2>2, <2>3, <2>4, <2>5
<1>2. UNCHANGED <<kind, attempts, superseded, used, grants, mails, arrived, budgets>>
  BY DEF MarkSent, Retry, FinishFailure, Crash
<1>3. hand' = [hand EXCEPT ![w].step = "idle"]
  BY DEF MarkSent, Retry, FinishFailure, Crash
<1>4. \/ UNCHANGED <<status, claim>>
      \/ /\ Mine(w) /\ claim' = NoWorker
         /\ status' \in {"SENT", "FAILED", "PENDING"}
         /\ status' = "SENT" => arrived
  BY DEF MarkSent, Retry, FinishFailure, Crash, MailInvariant
<1>5. Cardinality(InFlight') \in Nat /\ Cardinality(InFlight') <= Cardinality(InFlight)
  <2>1. InFlight' \subseteq InFlight
    BY <1>3 DEF InFlight, TypeOK
  <2> QED
    BY <2>1, InFlightFinite, FS_Subset, FS_CardinalityType
<1>6. mails' + Cardinality(InFlight') <= maxAttempts * (budgets' - 1) + attempts'
  BY <1>2, <1>5, InFlightFinite DEF MailInvariant, TypeOK, maxAttempts
<1>7. \A v \in Worker : Mine(v)' /\ At(v, "markSent")' => arrived'
  BY <1>2, <1>3, <1>4 DEF MailInvariant, Mine, TypeOK
<1>8. ReplacedStaysDown' /\ SentIsAccepted'
  BY <1>2, <1>4 DEF MailInvariant, Mine, ReplacedStaysDown, SentIsAccepted
<1>9. status' # "PROCESSING" => claim' = NoWorker
  BY <1>4 DEF MailInvariant
<1> QED
  BY <1>1, <1>2, <1>6, <1>7, <1>8, <1>9 DEF MailInvariant

\* The buyer and the admin: a new round has three attempts of its own.
LEMMA RoundMail ==
    ASSUME TypeOK, MailInvariant,
           \/ Resend \/ RetryTickets \/ RetryRecovery
           \/ \E t \in 1..maxAttempts : Consume(t)
    PROVE  TypeOK' /\ MailInvariant'
<1> USE DEF row, links, sent, Restart
<1>1. hand' = hand /\ mails' = mails
  BY DEF Resend, RetryTickets, RetryRecovery, Consume
<1>2. InFlight' = InFlight
  BY <1>1 DEF InFlight
<1>3. TypeOK'
  <2>1. attempts' \in 0..maxAttempts
    BY DEF TypeOK, maxAttempts, Resend, RetryTickets, RetryRecovery, Consume
  <2>2. budgets' \in Nat
    BY DEF TypeOK, Resend, RetryTickets, RetryRecovery, Consume
  <2>3. CASE Resend
    BY <1>1, <2>1, <2>2, <2>3 DEF TypeOK, Status, Resend
  <2>4. CASE RetryTickets
    BY <1>1, <2>1, <2>2, <2>4 DEF TypeOK, Status, RetryTickets
  <2>5. CASE RetryRecovery
    BY <1>1, <2>1, <2>2, <2>5 DEF TypeOK, RetryRecovery
  <2>6. CASE \E t \in 1..maxAttempts : Consume(t)
    BY <1>1, <2>1, <2>2, <2>6 DEF TypeOK, Consume
  <2> QED
    BY <2>3, <2>4, <2>5, <2>6
<1>4. mails' + Cardinality(InFlight') <= maxAttempts * (budgets' - 1) + attempts'
  BY <1>1, <1>2, InFlightFinite
  DEF MailInvariant, TypeOK, maxAttempts, Resend, RetryTickets, RetryRecovery, Consume
<1>5. MailInvariant'
  BY <1>1, <1>4 DEF MailInvariant, TypeOK, SentIsAccepted, ReplacedStaysDown, Mine, At,
     Resend, RetryTickets, RetryRecovery, Consume
<1> QED
  BY <1>3, <1>5

\* Every column keeps its type, and claims, rounds and links fit together (email.go,
\* recovery/handler.go, adminissues/actions.go).
THEOREM MailInvariantHolds == Spec => [](TypeOK /\ MailInvariant)
<1>1. Init => TypeOK /\ MailInvariant
  BY InitMail
<1>2. TypeOK /\ MailInvariant /\ [Next]_vars => (TypeOK /\ MailInvariant)'
  <2> SUFFICES ASSUME TypeOK, MailInvariant, [Next]_vars
               PROVE  TypeOK' /\ MailInvariant'
    OBVIOUS
  <2>1. CASE \/ EnqueuePaid \/ RequestRecovery \/ OrderChanges \/ RequestExpires
             \/ LeaseLapses \/ FailExhausted \/ ExpireRecovery
    BY <2>1, WorldMail
  <2>2. CASE \E w \in Worker : Claim(w) \/ Work(w)
    BY <2>2, ClaimMail, SendMail, EndMail DEF Work
  <2>3. CASE \/ Resend \/ RetryTickets \/ RetryRecovery
             \/ \E t \in 1..maxAttempts : Consume(t)
    BY <2>3, RoundMail
  <2>4. CASE UNCHANGED vars
    <3>1. InFlight' = InFlight
      BY <2>4 DEF InFlight, vars
    <3> QED
      BY <2>4, <3>1 DEF vars, row, links, sent, TypeOK, MailInvariant, SentIsAccepted,
         ReplacedStaysDown, Mine, At
  <2> QED
    BY <2>1, <2>2, <2>3, <2>4 DEF Next
<1> QED
  BY <1>1, <1>2, PTL DEF Spec

\* SENT always means that the SMTP server took a mail of this round.
THEOREM SentMeansAccepted == Spec => []SentIsAccepted
<1>1. MailInvariant => SentIsAccepted
  BY DEF MailInvariant
<1> QED
  BY <1>1, MailInvariantHolds, PTL

\* No number of slow or restarted workers sends a fourth mail in a round.
THEOREM MailsAreBounded == Spec => []ThreeMailsAtMost
<1>1. TypeOK /\ MailInvariant => ThreeMailsAtMost
  BY InFlightFinite DEF TypeOK, MailInvariant, ThreeMailsAtMost, maxAttempts
<1> QED
  BY <1>1, MailInvariantHolds, PTL

\* The links of one request open the order once.
THEOREM RequestsOpenOnce == Spec => []RequestOpensOnce
<1>1. MailInvariant => RequestOpensOnce
  BY DEF MailInvariant, RequestOpensOnce
<1> QED
  BY <1>1, MailInvariantHolds, PTL

\* A replaced row is never claimed or sent again.
THEOREM ReplacedRowsStayDown == Spec => []ReplacedStaysDown
<1>1. MailInvariant => ReplacedStaysDown
  BY DEF MailInvariant
<1> QED
  BY <1>1, MailInvariantHolds, PTL
=============================================================================
