------------------------- MODULE RefundQueueProofs -------------------------
(***************************************************************************)
(* The refund queue pays back at most once, for any number of workers.     *)
(***************************************************************************)
EXTENDS RefundQueue, TLAPS

\* The tables start typed and with nothing to tell apart.
LEMMA InitQueue == Init => TypeOK /\ QueueInvariant
BY DEF Init, TypeOK, QueueInvariant, SuccessIsPaid, Status, Step, Money

\* The provider and the clock.
LEMMA WorldQueue ==
    ASSUME TypeOK, QueueInvariant,
           ProviderDecides \/ StragglerEnds \/ LeaseLapses \/ RetryDeadlinePasses
    PROVE  TypeOK' /\ QueueInvariant'
<1> USE DEF TypeOK, QueueInvariant, SuccessIsPaid, Status, Step, Money
<1>1. CASE ProviderDecides
  BY <1>1 DEF ProviderDecides
<1>2. CASE StragglerEnds
  BY <1>2 DEF StragglerEnds, Accepted
<1>3. CASE LeaseLapses
  BY <1>3 DEF LeaseLapses
<1>4. CASE RetryDeadlinePasses
  BY <1>4 DEF RetryDeadlinePasses
<1> QED
  BY <1>1, <1>2, <1>3, <1>4

\* A worker takes the row: it is the only one that works on it, if leases outlast work.
LEMMA ClaimQueue ==
    ASSUME TypeOK, QueueInvariant, NEW w \in Worker, Claim(w)
    PROVE  TypeOK' /\ QueueInvariant'
<1> USE DEF TypeOK, QueueInvariant, SuccessIsPaid, Status, Step, Money
<1>1. TypeOK'
  BY DEF Claim, Become
<1>2. prompt => \A v \in Worker : job[v] = "idle"
  BY DEF Claim
<1>3. QueueInvariant'
  BY <1>1, <1>2 DEF Claim, Become
<1> QED
  BY <1>1, <1>3

\* A worker that reads, sends or gives up changes nothing of the row.
LEMMA CallQueue ==
    ASSUME TypeOK, QueueInvariant, NEW w \in Worker,
           \/ ReadProvider(w) \/ Send(w) \/ SendTooLate(w)
           \/ ConfirmRejection(w) \/ StatusFails(w) \/ Crash(w)
    PROVE  TypeOK' /\ QueueInvariant'
<1> USE DEF TypeOK, QueueInvariant, SuccessIsPaid, Status, Step, Money
<1>1. prompt /\ job[w] # "idle" => \A v \in Worker : v # w => job[v] = "idle"
  OBVIOUS
<1>2. CASE ReadProvider(w)
  BY <1>1, <1>2 DEF ReadProvider, Become
<1>3. CASE Send(w)
  <2> USE DEF Send, Become
  <2>1. CASE money' = Accepted /\ Become(w, "release") /\ UNCHANGED underway
    BY <1>1, <1>3, <2>1 DEF Accepted
  <2>2. CASE money' = money /\ Become(w, "release") /\ underway' \in {underway, TRUE}
    BY <1>1, <1>3, <2>2
  <2>3. CASE money' = money /\ Become(w, "confirm") /\ UNCHANGED underway
    BY <1>1, <1>3, <2>3
  <2> QED
    BY <1>3, <2>1, <2>2, <2>3
<1>4. CASE SendTooLate(w)
  BY <1>1, <1>4 DEF SendTooLate, Become
<1>5. CASE ConfirmRejection(w)
  BY <1>1, <1>5 DEF ConfirmRejection, Become
<1>6. CASE StatusFails(w)
  BY <1>1, <1>6 DEF StatusFails, Become
<1>7. CASE Crash(w)
  BY <1>1, <1>7 DEF Crash, Become
<1> QED
  BY <1>2, <1>3, <1>4, <1>5, <1>6, <1>7

\* A worker writes what it has learnt.
LEMMA OutcomeQueue ==
    ASSUME TypeOK, QueueInvariant, NEW w \in Worker,
           Succeed(w) \/ Fail(w) \/ ReleaseClaim(w)
    PROVE  TypeOK' /\ QueueInvariant'
<1> USE DEF TypeOK, QueueInvariant, SuccessIsPaid, Status, Step, Money
<1>1. prompt /\ job[w] # "idle" => \A v \in Worker : v # w => job[v] = "idle"
  OBVIOUS
<1>2. CASE Succeed(w)
  BY <1>1, <1>2 DEF Succeed, Become, FinishAs, Ended
<1>3. CASE Fail(w)
  BY <1>1, <1>3 DEF Fail, Become, FinishAs, Ended
<1>4. CASE ReleaseClaim(w)
  BY <1>1, <1>4 DEF ReleaseClaim, Become
<1> QED
  BY <1>2, <1>3, <1>4

\* The manual queue.
LEMMA ManualQueue ==
    ASSUME TypeOK, QueueInvariant, RequireManual \/ CompleteManual
    PROVE  TypeOK' /\ QueueInvariant'
<1> USE DEF TypeOK, QueueInvariant, SuccessIsPaid, Status, Step, Money
<1>1. CASE RequireManual
  BY <1>1 DEF RequireManual
<1>2. CASE CompleteManual
  BY <1>2 DEF CompleteManual
<1> QED
  BY <1>1, <1>2

\* Every column keeps its type and the steps of the workers fit the row (claimRefunds,
\* deliverRequested, reconcile, finish, CompleteManual).
THEOREM QueueInvariantHolds == Spec => [](TypeOK /\ QueueInvariant)
<1>1. Init => TypeOK /\ QueueInvariant
  BY InitQueue
<1>2. TypeOK /\ QueueInvariant /\ [Next]_vars => (TypeOK /\ QueueInvariant)'
  <2> SUFFICES ASSUME TypeOK, QueueInvariant, [Next]_vars
               PROVE  TypeOK' /\ QueueInvariant'
    OBVIOUS
  <2>1. CASE ProviderDecides \/ StragglerEnds \/ LeaseLapses \/ RetryDeadlinePasses
    BY <2>1, WorldQueue
  <2>2. CASE \E w \in Worker : Claim(w) \/ Work(w)
    BY <2>2, ClaimQueue, CallQueue, OutcomeQueue DEF Work
  <2>3. CASE RequireManual \/ CompleteManual
    BY <2>3, ManualQueue
  <2>4. CASE UNCHANGED vars
    BY <2>4 DEF vars, TypeOK, QueueInvariant, SuccessIsPaid
  <2> QED
    BY <2>1, <2>2, <2>3, <2>4 DEF Next
<1> QED
  BY <1>1, <1>2, PTL DEF Spec

\* With workers that keep within their leases the row's claim excludes all others.
THEOREM ClaimsExclude == Spec => []ClaimIsExclusive
<1>1. QueueInvariant => ClaimIsExclusive
  BY DEF QueueInvariant, ClaimIsExclusive
<1> QED
  BY <1>1, QueueInvariantHolds, PTL

\* A refund that failed, or is about to, leaves nothing the provider could still pay.
THEOREM FailuresAreFinal == Spec => []FailureIsFinal
<1>1. QueueInvariant => FailureIsFinal
  BY DEF QueueInvariant, FailureIsFinal
<1> QED
  BY <1>1, QueueInvariantHolds, PTL

\* Provider and admin never both pay the buyer back.
THEOREM NobodyIsPaidTwice == Spec => []PaidBackOnce
<1>1. QueueInvariant => PaidBackOnce
  BY DEF QueueInvariant, PaidBackOnce
<1> QED
  BY <1>1, QueueInvariantHolds, PTL

\* A refund recorded as successful has been paid, however slow the workers are.
THEOREM SuccessMeansPaid == Spec => []SuccessIsPaid
<1>1. QueueInvariant => SuccessIsPaid
  BY DEF QueueInvariant
<1> QED
  BY <1>1, QueueInvariantHolds, PTL

---------------------------------------------------------------------------
(* The queue as TicketSales sees it *)

InHand == status \in {"REQUESTED", "PROCESSING", "UNKNOWN"}

\* Refunds.FinishRefund, the last case of SubmitEvent, and CompleteManual, on one row
Finished == InHand /\ status' \in Ended
HandedOver == status = "FAILED" /\ status' = "MANUAL_REQUIRED"
PaidByHand == status = "MANUAL_REQUIRED" /\ status' = "SUCCEEDED"

\* Claims, calls, retries and restarts of workers that keep within their leases add up
\* to one step: what is in the worker's hand stays there until it is ended once, and
\* nobody but an admin moves what has ended.
FinishesOnce ==
    [][prompt => \/ status' = status \/ (InHand /\ InHand')
                 \/ Finished \/ HandedOver \/ PaidByHand]_vars

\* TicketSales may take the refund worker's whole work on a row as the one step
\* FinishRefund, guarded by the status the row had.
THEOREM QueueIsOneStep == Spec => FinishesOnce
<1>1. TypeOK /\ QueueInvariant /\ [Next]_vars
        => [prompt => \/ status' = status \/ (InHand /\ InHand')
                      \/ Finished \/ HandedOver \/ PaidByHand]_vars
  <2> SUFFICES ASSUME TypeOK, QueueInvariant, Next, prompt, status' # status
               PROVE  (InHand /\ InHand') \/ Finished \/ HandedOver \/ PaidByHand
    BY DEF vars
  <2>1. CASE ProviderDecides \/ StragglerEnds \/ LeaseLapses \/ RetryDeadlinePasses
    BY <2>1 DEF ProviderDecides, StragglerEnds, LeaseLapses, RetryDeadlinePasses
  <2>2. ASSUME NEW w \in Worker, Claim(w) PROVE InHand /\ InHand'
    BY <2>2 DEF Claim, InHand
  <2>3. ASSUME NEW w \in Worker, Succeed(w) \/ Fail(w) PROVE Finished
    BY <2>3 DEF Succeed, Fail, FinishAs, Finished, InHand, Ended, QueueInvariant
  <2>4. ASSUME NEW w \in Worker, ReleaseClaim(w) PROVE InHand /\ InHand'
    BY <2>4 DEF ReleaseClaim, InHand
  <2>5. ASSUME NEW w \in Worker,
               \/ ReadProvider(w) \/ Send(w) \/ SendTooLate(w)
               \/ ConfirmRejection(w) \/ StatusFails(w) \/ Crash(w)
        PROVE  FALSE
    BY <2>5 DEF ReadProvider, Send, SendTooLate, ConfirmRejection, StatusFails, Crash
  <2>6. CASE RequireManual \/ CompleteManual
    BY <2>6 DEF RequireManual, CompleteManual, HandedOver, PaidByHand
  <2> QED
    BY <2>1, <2>2, <2>3, <2>4, <2>5, <2>6 DEF Next, Work
<1> QED
  BY <1>1, QueueInvariantHolds, PTL DEF Spec, FinishesOnce
============================================================================
