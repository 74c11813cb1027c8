---------------------------- MODULE OrderProofs ----------------------------
(***************************************************************************)
(* What becomes of a reservation and its order, whoever works on it.  The  *)
(* argument rests on one lemma: a step moves at most one row, along one of *)
(* few edges.  From it follow the refinement of StockLedger, what is final *)
(* and what a decision about the event stops; the last part adds what the  *)
(* provider knows.                                                         *)
(***************************************************************************)
EXTENDS StockProofs

---------------------------------------------------------------------------
(* The life of a reservation and its order *)

Same(r) ==
    reservation'[r] = reservation[r] /\ order'[r] = order[r] /\ original'[r] = original[r]

\* The edges an order, or a reservation on its way to one, can go.
GivenBack(r) ==
    /\ reservation[r] = "ACTIVE" /\ reservation'[r] \in {"CANCELLED", "EXPIRED"}
    /\ order[r] = "NONE" /\ order'[r] = "NONE"
Converted(r) ==
    /\ reservation[r] = "ACTIVE" /\ reservation'[r] = "CONVERTED"
    /\ order[r] = "NONE" /\ order'[r] \in {"NONE", "PENDING"}
    /\ CanSell
Sold(r) ==
    /\ UNCHANGED reservation
    /\ order[r] = "PENDING" /\ order'[r] = "PAID"
    /\ ~PaymentBlocked(r)
Ended(r) ==
    /\ UNCHANGED reservation
    /\ order[r] = "PENDING" /\ order'[r] = IF Stopped(r) THEN "CANCELLED" ELSE "EXPIRED"
RefundOpened(r) ==
    /\ UNCHANGED reservation
    /\ order[r] \in {"PAID", "CANCELLED", "EXPIRED"} /\ order'[r] = "REFUND_PENDING"
    /\ original'[r] = order[r]
RefundEnded(r) ==
    /\ UNCHANGED reservation /\ UNCHANGED original
    /\ original[r] \in {"PAID", "CANCELLED", "EXPIRED"}
    /\ order[r] = "REFUND_PENDING" /\ order'[r] \in {"REFUNDED", original[r]}

Moves(r) ==
    \/ GivenBack(r) \/ Converted(r) \/ Sold(r) \/ Ended(r) \/ RefundOpened(r) \/ RefundEnded(r)

NobodyMoves == UNCHANGED <<capacity, items>> /\ \A o \in Reservation : Same(o)
OneMoves(r) ==
    UNCHANGED <<capacity, items>> /\ Moves(r) /\ \A o \in Reservation \ {r} : Same(o)

\* A step that writes no status moves nobody.
LEMMA Unmoved ==
  ASSUME UNCHANGED <<capacity, items, reservation, order, original>>
  PROVE  NobodyMoves
BY DEF NobodyMoves, Same

\* A reservation is given back, or goes over into an order.
LEMMA ReservationMoves ==
  ASSUME TypeOK, RowsAgree, ReservationNext
  PROVE  \/ NobodyMoves \/ \E r \in Reservation : OneMoves(r)
         \/ \E r \in Reservation, q \in Quantities : Reserve(r, q)
         \/ \E t \in Tier, c \in CapacityChoice : SaveTier(t, c)
<1> USE DEF stockVars, orderVars, refundVars
<1>1. ASSUME NEW r \in Reservation, NEW status \in {"CANCELLED", "EXPIRED"},
             ReleaseReservation(r, status)
      PROVE  OneMoves(r)
  BY <1>1 DEF ReleaseReservation, OneMoves, Moves, GivenBack, Same, TypeOK, ReservationsTyped,
              RowsAgree, OrdersAreConverted
<1>2. ASSUME NEW r \in Reservation, Convert(r) \/ Checkout(r) PROVE OneMoves(r)
  BY <1>2 DEF Convert, Checkout, OneMoves, Moves, Converted, Same, TypeOK, ReservationsTyped,
              OrdersTyped, RowsAgree, OrdersAreConverted
<1>3. ASSUME NEW r \in Reservation, DeadlinePasses(r) PROVE NobodyMoves
  BY <1>3, Unmoved DEF DeadlinePasses
<1> QED
  BY <1>1, <1>2, <1>3 DEF ReservationNext, CancelReservation, ExpireReservation

\* An order that is ended.
LEMMA EndedMoves ==
  ASSUME TypeOK, NEW r \in Reservation, order[r] = "PENDING", ExpireLockedOrder(r),
         UNCHANGED <<capacity, items, reservation, original>>
  PROVE  OneMoves(r)
BY DEF ExpireLockedOrder, OneMoves, Moves, Ended, Same, TypeOK, OrdersTyped

\* An order that is paid.
LEMMA SoldMoves ==
  ASSUME TypeOK, NEW r \in Reservation, order[r] = "PENDING", ~PaymentBlocked(r), Pay(r),
         UNCHANGED <<capacity, items, reservation, original>>
  PROVE  OneMoves(r)
BY DEF Pay, OneMoves, Moves, Sold, Same, TypeOK, OrdersTyped

\* A status of the provider moves the order it is about, or none.
LEMMA SettlementMoves ==
  ASSUME TypeOK, NEW r \in Reservation, NEW status \in Answer,
         ApplyGatewayStatus(r, status) \/ UNCHANGED settlementVars,
         UNCHANGED <<capacity, items, reservation, original>>
  PROVE  NobodyMoves \/ OneMoves(r)
<1>1. CASE SettleInTime(r, status)
  BY <1>1, SoldMoves DEF SettleInTime
<1>2. CASE SettleTooLate(r, status)
  BY <1>2, EndedMoves, Unmoved DEF SettleTooLate
<1> QED
  BY <1>1, <1>2, Unmoved DEF ApplyGatewayStatus, IgnoreStatus, RecordFailure, settlementVars

\* Of the requests, notifications and workers only a settlement and a release move an
\* order.
LEMMA PaymentMoves ==
  ASSUME TypeOK, PaymentNext
  PROVE  NobodyMoves \/ \E r \in Reservation : OneMoves(r)
<1> USE DEF stockVars, reservationVars, orderVars, refundVars
<1>1. ASSUME NEW r \in Reservation, BeginSnap(r) PROVE NobodyMoves
  BY <1>1, Unmoved DEF BeginSnap
<1>2. ASSUME NEW r \in Reservation, NEW n \in Attempt,
             \/ CheckMinutesLeft(r, n) \/ CallSnap(r, n) \/ SetSnapURL(r, n) \/ AbandonSnap(r, n)
             \/ ProviderSettles(r, n) \/ ProviderFails(r, n) \/ ProviderUnclear(r, n)
      PROVE  NobodyMoves
  BY <1>2, Unmoved
  DEF CheckMinutesLeft, CallSnap, SetSnapURL, AbandonSnap, ProviderSettles, ProviderFails,
      ProviderUnclear
<1>3. ASSUME NEW r \in Reservation, NEW n \in Attempt, NEW status \in Answer,
             Notify(r, n, status)
      PROVE  NobodyMoves \/ OneMoves(r)
  BY <1>3, SettlementMoves DEF Notify
<1>4. ASSUME NEW r \in Reservation, Simulate(r) PROVE NobodyMoves \/ OneMoves(r)
  BY <1>4, SoldMoves, EndedMoves, Unmoved DEF Simulate
<1>5. ASSUME NEW w \in Worker, OnlyWorkerMoves \/ CancelCharge(w) PROVE NobodyMoves
  BY <1>5, Unmoved DEF OnlyWorkerMoves, CancelCharge
<1>6. ASSUME NEW w \in Worker, ApplySettled(w) \/ ApplyFailed(w)
      PROVE  NobodyMoves \/ \E r \in Reservation : OneMoves(r)
  <2> DEFINE r == worker[w].order
  <2>1. r \in Reservation
    BY <1>6, BusyWorker DEF ApplySettled, ApplyFailed, Task
  <2> HIDE DEF r
  <2>2. PICK status \in Answer : ApplyGatewayStatus(r, status) \/ UNCHANGED settlementVars
    BY <1>6 DEF ApplySettled, ApplyFailed, ApplyRead, Answer, r
  <2> QED
    BY <1>6, <2>1, <2>2, SettlementMoves DEF ApplySettled, ApplyFailed, ApplyRead
<1>7. ASSUME NEW w \in Worker, ReleaseOrder(w)
      PROVE  NobodyMoves \/ \E r \in Reservation : OneMoves(r)
  <2>1. worker[w].order \in Reservation
    BY <1>7, BusyWorker DEF ReleaseOrder, Task
  <2>2. CASE Releasable(w)
    BY <1>7, <2>1, <2>2, EndedMoves DEF ReleaseOrder, Releasable
  <2>3. CASE ~Releasable(w)
    BY <1>7, <2>3, Unmoved DEF ReleaseOrder
  <2> QED
    BY <2>2, <2>3
<1> QED
  BY <1>1, <1>2, <1>3, <1>4, <1>5, <1>6, <1>7
  DEF PaymentNext, WorkerStepTaken, ReadOrder, ReadStatus, ConfirmCancel, GiveUp

\* A refund takes the order out of a final status, and puts it into one.
LEMMA RefundMoves ==
  ASSUME TypeOK, RowsAgree, RefundNext
  PROVE  NobodyMoves \/ \E r \in Reservation : OneMoves(r)
<1> USE DEF stockVars, reservationVars, orderVars, refundVars, untouchedByRefunds
<1>1. ASSUME NEW r \in Reservation, Submit(r) \/ SubmitEvent(r) PROVE OneMoves(r)
  <2>1. CASE refund[r] = "FAILED"
    <3>1. order[r] = original[r] /\ original[r] \in {"PAID", "CANCELLED", "EXPIRED"}
      BY <2>1 DEF RowsAgree, RefundRemembersOrder, TypeOK, RefundsTyped
    <3> QED
      BY <1>1, <2>1, <3>1
      DEF Submit, SubmitEvent, Refundable, OneMoves, Moves, RefundOpened, Same, TypeOK,
          OrdersTyped, RefundsTyped
  <2>2. CASE refund[r] # "FAILED"
    BY <1>1, <2>2
    DEF Submit, SubmitEvent, Refundable, OpenRefund, OneMoves, Moves, RefundOpened, Same,
        TypeOK, OrdersTyped, RefundsTyped
  <2> QED
    BY <2>1, <2>2
<1>2. ASSUME NEW r \in Reservation, FinishRefund(r) \/ CompleteManual(r) PROVE OneMoves(r)
  <2>1. order[r] = "REFUND_PENDING" /\ original[r] \in {"PAID", "CANCELLED", "EXPIRED"}
    BY <1>2 DEF FinishRefund, CompleteManual, RowsAgree, RefundMatchesOrder, RefundRemembersOrder,
                TypeOK, RefundsTyped
  <2> QED
    BY <1>2, <2>1
    DEF FinishRefund, CompleteManual, SucceedRefund, FailRefund, OneMoves, Moves, RefundEnded,
        Same, TypeOK, OrdersTyped
<1>3. ASSUME NEW r \in Reservation, ResolveCase(r) \/ CheckIn(r) PROVE NobodyMoves
  BY <1>3, Unmoved DEF ResolveCase, CheckIn
<1> QED
  BY <1>1, <1>2, <1>3 DEF RefundNext

\* A decision about the event moves nobody itself.
LEMMA EventMoves ==
  ASSUME TypeOK, RowsAgree, EventNext
  PROVE  \/ NobodyMoves \/ \E r \in Reservation : OneMoves(r)
         \/ \E r \in Reservation, q \in Quantities : Reserve(r, q)
         \/ \E t \in Tier, c \in CapacityChoice : SaveTier(t, c)
<1> USE DEF stockVars, reservationVars, orderVars, refundVars
<1>1. ASSUME NEW r \in Reservation, CancelReservation(r) PROVE ReservationNext
  BY <1>1 DEF ReservationNext
<1>2. ASSUME \/ \E action \in {"POSTPONED", "RESCHEDULED", "CANCELLED"} : Commit(action)
             \/ \E r \in Reservation : RequestRefund(r)
             \/ \E r \in Reservation, c \in Change : FinishWork(c, r)
             \/ Reopen
      PROVE  NobodyMoves
  BY <1>2, Unmoved DEF Commit, RequestRefund, FinishWork, Reopen
<1> QED
  BY <1>1, <1>2, ReservationMoves DEF EventNext, CancelClosedReservation

\* The lemma that the rest stands on.
LEMMA OneRowMoves ==
  ASSUME TypeOK, RowsAgree, [Next]_vars
  PROVE  \/ NobodyMoves \/ \E r \in Reservation : OneMoves(r)
         \/ \E r \in Reservation, q \in Quantities : Reserve(r, q)
         \/ \E t \in Tier, c \in CapacityChoice : SaveTier(t, c)
<1>1. CASE UNCHANGED vars
  BY <1>1, Unmoved DEF vars, stockVars, reservationVars, orderVars, refundVars
<1> QED
  BY <1>1, ReservationMoves, PaymentMoves, RefundMoves, EventMoves DEF Next

\* The inductive invariant, in the parts the lemmas name.
LEMMA SalesRows == SalesInvariant => RowsAgree /\ StockConserved
BY DEF SalesInvariant, RowsAgree

---------------------------------------------------------------------------
(* The refinement of StockLedger *)

\* A claim is held or sold exactly as long as the reservation keeps its units.
LEMMA ClaimsHold ==
  ASSUME TypeOK, RowsAgree, NEW r \in Reservation
  PROVE  Claim(r) \in {"held", "sold"} <=> Holds(r)
BY DEF TypeOK, ReservationsTyped, ReservationStatus, RowsAgree, OrdersAreConverted, Claim, Holds

\* The ledger counts as the tables do.
LEMMA SameCount ==
  ASSUME NEW S
  PROVE  Ledger!Cardinality(S) = Cardinality(S)
BY DEF Ledger!Cardinality, Cardinality

\* What is free in the ledger is what the tier counts as available.
LEMMA FreeIsAvailable ==
  ASSUME TypeOK, RowsAgree, StockConserved, NEW t \in Tier
  PROVE  /\ Ledger!Taken(t) = HeldUnits(t)
         /\ Ledger!Free(t) = available[t]
         /\ Ledger!Cardinality(Ledger!Taken(t)) = capacity[t] - available[t]
<1>1. Ledger!Taken(t) = HeldUnits(t)
  BY ClaimsHold DEF Ledger!Taken, HeldUnits
<1>2. Cardinality(HeldUnits(t)) \in Nat
  BY HeldAreUnits, UnitsFinite
<1>3. available[t] \in Nat /\ available[t] + Cardinality(HeldUnits(t)) = capacity[t]
  BY DEF StockConserved, TypeOK, StockTyped
<1> QED
  BY <1>1, <1>2, <1>3, SameCount DEF Ledger!Free

\* Every edge of a row is a step of its claim, or none.
LEMMA MovesAreClaims ==
  ASSUME TypeOK, RowsAgree, NEW r \in Reservation, Moves(r)
  PROVE  \/ Claim(r)' = Claim(r)
         \/ Claim(r) = "held" /\ Claim(r)' = "sold"
         \/ Claim(r) \in {"held", "sold"} /\ Claim(r)' = "gone"
<1>1. order[r] # "NONE" => reservation[r] = "CONVERTED"
  BY DEF RowsAgree, OrdersAreConverted
<1>2. CASE GivenBack(r) \/ Converted(r)
  BY <1>1, <1>2 DEF GivenBack, Converted, Claim, Holds
<1>3. CASE Sold(r) \/ Ended(r)
  BY <1>1, <1>3 DEF Sold, Ended, Claim, Holds
<1>4. CASE RefundOpened(r) \/ RefundEnded(r)
  BY <1>1, <1>4 DEF RefundOpened, RefundEnded, Claim, Holds
<1> QED
  BY <1>2, <1>3, <1>4 DEF Moves

\* A row that nobody touches keeps its claim.
LEMMA SameClaim ==
  ASSUME NEW r \in Reservation, Same(r)
  PROVE  Claim(r)' = Claim(r)
BY DEF Same, Claim, Holds

\* At most one row moves, so the step is one of the ledger's.
LEMMA LedgerStep ==
  ASSUME TypeOK, RowsAgree, StockConserved, [Next]_vars
  PROVE  [Ledger!LedgerNext]_(Ledger!ledgerVars)
<1> DEFINE claim == [r \in Reservation |-> Claim(r)]
<1>1. ASSUME NobodyMoves PROVE UNCHANGED Ledger!ledgerVars
  BY <1>1, SameClaim DEF NobodyMoves, Ledger!ledgerVars
<1>2. ASSUME NEW r \in Reservation, OneMoves(r) PROVE [Ledger!LedgerNext]_(Ledger!ledgerVars)
  <2>1. UNCHANGED <<capacity, items>> /\ \A o \in Reservation \ {r} : Claim(o)' = Claim(o)
    BY <1>2, SameClaim DEF OneMoves
  <2>2. CASE Claim(r)' = Claim(r)
    BY <2>1, <2>2 DEF Ledger!ledgerVars
  <2>3. CASE Claim(r) = "held" /\ Claim(r)' = "sold"
    <3>1. claim' = [claim EXCEPT ![r] = "sold"]
      BY <2>1, <2>3
    <3>2. Ledger!Sell(r)
      BY <2>1, <2>3, <3>1 DEF Ledger!Sell
    <3> QED
      BY <3>2 DEF Ledger!LedgerNext
  <2>4. CASE Claim(r) \in {"held", "sold"} /\ Claim(r)' = "gone"
    <3>1. claim' = [claim EXCEPT ![r] = "gone"]
      BY <2>1, <2>4
    <3>2. Ledger!GiveBack(r)
      BY <2>1, <2>4, <3>1 DEF Ledger!GiveBack
    <3> QED
      BY <3>2 DEF Ledger!LedgerNext
  <2> QED
    BY <1>2, <2>2, <2>3, <2>4, MovesAreClaims DEF OneMoves
<1>3. ASSUME NEW r \in Reservation, NEW q \in Quantities, Reserve(r, q)
      PROVE  Ledger!LedgerNext
  <2>1. /\ reservation[r] = "NONE" /\ reservation'[r] = "ACTIVE" /\ order[r] = "NONE"
        /\ \A o \in Reservation \ {r} : Same(o)
        /\ order'[r] = "NONE"
    BY <1>3 DEF Reserve, orderVars, refundVars, Same, TypeOK, ReservationsTyped, RowsAgree,
                OrdersAreConverted
  <2>2. Claim(r) = "none" /\ Claim(r)' = "held"
    BY <2>1 DEF Claim, Holds
  <2>3. claim' = [claim EXCEPT ![r] = "held"]
    BY <2>1, <2>2, SameClaim
  <2>4. \A t \in Tier : q[t] <= Ledger!Free(t)
    BY <1>3, FreeIsAvailable DEF Reserve
  <2>5. Ledger!Take(r, q)
    BY <1>3, <2>2, <2>3, <2>4 DEF Reserve, Ledger!Take
  <2> QED
    BY <2>5 DEF Ledger!LedgerNext, Quantities
<1>4. ASSUME NEW t \in Tier, NEW c \in CapacityChoice, SaveTier(t, c)
      PROVE  Ledger!LedgerNext
  <2>1. claim' = claim
    BY <1>4, SameClaim DEF SaveTier, reservationVars, orderVars, refundVars, Same
  <2>2. capacity'[t] = c /\ c \in Nat /\ c >= Ledger!Cardinality(Ledger!Taken(t))
    BY <1>4, FreeIsAvailable, CapacityAssumption DEF SaveTier, TypeOK, StockTyped
  <2>3. Ledger!Resize(t)
    BY <1>4, <2>1, <2>2 DEF SaveTier, reservationVars, Ledger!Resize
  <2> QED
    BY <2>3 DEF Ledger!LedgerNext
<1> QED
  BY <1>1, <1>2, <1>3, <1>4, OneRowMoves

\* Every step of the backend is a step of the ledger or does not concern it: what the
\* tier counts as available is what the ledger would count from the claims, each sale
\* and each return happens once.
THEOREM StockLedgerImplemented == Spec => ImplementsLedger
<1>1. Init => Ledger!LedgerInit
  BY DEF Init, Ledger!LedgerInit, Claim
<1>2. TypeOK /\ RowsAgree /\ StockConserved /\ [Next]_vars => [Ledger!LedgerNext]_(Ledger!ledgerVars)
  BY LedgerStep
<1> QED
  BY <1>1, <1>2, SalesRows, TypeCorrect, SalesInvariantHolds, PTL
  DEF Spec, ImplementsLedger, Ledger!LedgerSpec

---------------------------------------------------------------------------
(* What is final *)

\* What a step may make of the status of one order.
LEMMA OrderMoves ==
  ASSUME TypeOK, RowsAgree, [Next]_vars, NEW r \in Reservation
  PROVE  order'[r] = order[r] \/ Moves(r)
BY OneRowMoves DEF NobodyMoves, OneMoves, Same, Reserve, SaveTier, orderVars

\* Where an order may go in one step.
Forward(r) ==
    \/ order[r] = "NONE" /\ order'[r] = "PENDING"
    \/ order[r] = "PENDING" /\ order'[r] \in {"PAID", "EXPIRED", "CANCELLED"}
    \/ order[r] \in {"PAID", "EXPIRED", "CANCELLED"} /\ order'[r] = "REFUND_PENDING"
    \/ order[r] = "REFUND_PENDING" /\ order'[r] \in {"REFUNDED", original[r]}

\* An order goes from its checkout to payment or to its end, from there into a refund,
\* and from the refund to its end or back to what it was; there is no other way,
\* whichever of the handlers and workers acts.
OrdersGoForward ==
    [][\A r \in Reservation : order'[r] # order[r] => Forward(r)]_vars

\* Two handlers never disagree on what an order may become.
THEOREM OrderLifecycle == Spec => OrdersGoForward
<1>1. TypeOK /\ SalesInvariant /\ [Next]_vars
        => [\A r \in Reservation : order'[r] # order[r] => Forward(r)]_vars
  <2> SUFFICES ASSUME TypeOK, SalesInvariant, [Next]_vars,
                      NEW r \in Reservation, order'[r] # order[r]
               PROVE  Forward(r)
    OBVIOUS
  <2>1. Moves(r)
    BY SalesRows, OrderMoves
  <2> QED
    BY <2>1
    DEF Forward, Moves, GivenBack, Converted, Sold, Ended, RefundOpened, RefundEnded
<1> QED
  BY <1>1, TypeCorrect, SalesInvariantHolds, PTL DEF Spec, OrdersGoForward

\* A status of the provider undoes no settlement, and makes one only by writing it.
LEMMA SettlementStays ==
  ASSUME TypeOK, NEW r \in Reservation, NEW status \in Answer, NEW o \in Reservation,
         ApplyGatewayStatus(r, status) \/ UNCHANGED settlementVars,
         payment[o] = "SUCCEEDED"
  PROVE  payment'[o] = "SUCCEEDED"
BY DEF ApplyGatewayStatus, IgnoreStatus, RecordFailure, SettleInTime, SettleTooLate, Pay,
       settlementVars, TypeOK, PaymentsTyped

\* No step undoes a settlement.
LEMMA PaymentStays ==
  ASSUME TypeOK, [Next]_vars, NEW o \in Reservation, payment[o] = "SUCCEEDED"
  PROVE  payment'[o] = "SUCCEEDED"
<1> USE DEF paymentVars
<1>1. CASE ReservationNext \/ EventNext \/ UNCHANGED vars
  BY <1>1
  DEF ReservationNext, Reserve, DeadlinePasses, CancelReservation, ExpireReservation,
      ReleaseReservation, Convert, Checkout, SaveTier, EventNext, Commit,
      CancelClosedReservation, RequestRefund, FinishWork, Reopen, vars
<1>2. CASE RefundNext
  BY <1>2
  DEF RefundNext, Submit, SubmitEvent, FinishRefund, CompleteManual, ResolveCase, CheckIn,
      untouchedByRefunds
<1>3. CASE PaymentNext
  <2>1. ASSUME NEW r \in Reservation, BeginSnap(r) \/ Simulate(r) PROVE payment'[o] = "SUCCEEDED"
    BY <2>1 DEF BeginSnap, Simulate, Pay, TypeOK, PaymentsTyped
  <2>2. ASSUME NEW r \in Reservation, NEW n \in Attempt,
               \/ CheckMinutesLeft(r, n) \/ CallSnap(r, n) \/ SetSnapURL(r, n) \/ AbandonSnap(r, n)
               \/ ProviderSettles(r, n) \/ ProviderFails(r, n) \/ ProviderUnclear(r, n)
        PROVE  payment'[o] = "SUCCEEDED"
    BY <2>2
    DEF CheckMinutesLeft, CallSnap, SetSnapURL, AbandonSnap, ProviderSettles, ProviderFails,
        ProviderUnclear
  <2>3. ASSUME NEW r \in Reservation, NEW n \in Attempt, NEW status \in Answer,
               Notify(r, n, status)
        PROVE  payment'[o] = "SUCCEEDED"
    BY <2>3, SettlementStays DEF Notify
  <2>4. ASSUME NEW w \in Worker, ApplySettled(w) \/ ApplyFailed(w)
        PROVE  payment'[o] = "SUCCEEDED"
    <3>1. worker[w].order \in Reservation
      BY <2>4, BusyWorker DEF ApplySettled, ApplyFailed, Task
    <3> QED
      BY <2>4, <3>1, SettlementStays DEF ApplySettled, ApplyFailed, ApplyRead, Answer
  <2>5. ASSUME NEW w \in Worker,
               OnlyWorkerMoves \/ CancelCharge(w) \/ ReleaseOrder(w)
        PROVE  payment'[o] = "SUCCEEDED"
    BY <2>5 DEF OnlyWorkerMoves, CancelCharge, ReleaseOrder
  <2> QED
    BY <1>3, <2>1, <2>2, <2>3, <2>4, <2>5
    DEF PaymentNext, WorkerStepTaken, ReadOrder, ReadStatus, ConfirmCancel, GiveUp
<1> QED
  BY <1>1, <1>2, <1>3 DEF Next

\* A settlement, and a refund, are final: duplicates, late failures, new attempts and
\* late worker answers never undo them.
THEOREM SettlementsAreFinal == Spec => SettlementIsFinal
<1>1. TypeOK /\ SalesInvariant /\ [Next]_vars
        => [\A r \in Reservation :
              /\ payment[r] = "SUCCEEDED" => payment'[r] = "SUCCEEDED"
              /\ order[r] = "REFUNDED" => order'[r] = "REFUNDED"]_vars
  BY PaymentStays, SalesRows, OrderMoves
  DEF Moves, GivenBack, Converted, Sold, Ended, RefundOpened, RefundEnded
<1> QED
  BY <1>1, TypeCorrect, SalesInvariantHolds, PTL DEF Spec, SettlementIsFinal

\* Nobody enters on a ticket that is being refunded or was refunded.
THEOREM RefundedStayOut == Spec => NoEntryOnRefund
<1>1. TypeOK /\ SalesInvariant /\ [Next]_vars
        => [\A r \in Reservation :
              refund[r] \in {"REQUESTED", "MANUAL_REQUIRED", "SUCCEEDED"} => (used'[r] <=> used[r])]_vars
  <2> SUFFICES ASSUME TypeOK, SalesInvariant, [Next]_vars, NEW r \in Reservation,
                      refund[r] \in {"REQUESTED", "MANUAL_REQUIRED", "SUCCEEDED"}
               PROVE  used'[r] <=> used[r]
    OBVIOUS
  <2>1. order[r] # "PAID"
    BY DEF SalesInvariant, RefundMatchesOrder
  <2>2. CASE UNCHANGED used
    BY <2>2
  <2>3. CASE \E o \in Reservation : CheckIn(o)
    BY <2>1, <2>3 DEF CheckIn, TypeOK, OrdersTyped
  <2> USE DEF orderVars
  <2>4. CASE ReservationNext \/ EventNext \/ UNCHANGED vars
    BY <2>2, <2>4
    DEF ReservationNext, Reserve, DeadlinePasses, CancelReservation, ExpireReservation,
        ReleaseReservation, Convert, Checkout, SaveTier, EventNext, Commit,
        CancelClosedReservation, RequestRefund, FinishWork, Reopen, vars
  <2>5. CASE RefundNext
    BY <2>2, <2>3, <2>5
    DEF RefundNext, Submit, SubmitEvent, FinishRefund, CompleteManual, ResolveCase
  <2>6. CASE PaymentNext
    BY <2>2, <2>6
    DEF PaymentNext, BeginSnap, Simulate, CheckMinutesLeft, CallSnap, SetSnapURL, AbandonSnap,
        ProviderSettles, ProviderFails, ProviderUnclear, Notify, WorkerStepTaken, ReadOrder,
        ReadStatus, CancelCharge, ConfirmCancel, ApplySettled, ApplyFailed, ApplyRead,
        ReleaseOrder, GiveUp, OnlyWorkerMoves
  <2> QED
    BY <2>4, <2>5, <2>6 DEF Next
<1> QED
  BY <1>1, TypeCorrect, SalesInvariantHolds, PTL DEF Spec, NoEntryOnRefund

---------------------------------------------------------------------------
(* Decisions about the event *)

\* A stopped order is never paid afterwards, and ends as CANCELLED.
THEOREM StoppedOrdersAreNeverSold == Spec => StoppedNeverSold
<1>1. TypeOK /\ SalesInvariant /\ [Next]_vars
        => [\A r \in Reservation :
              order[r] = "PENDING" /\ Stopped(r) => order'[r] \in {"PENDING", "CANCELLED"}]_vars
  BY SalesRows, OrderMoves
  DEF Moves, GivenBack, Converted, Sold, PaymentBlocked, Ended, RefundOpened, RefundEnded
<1> QED
  BY <1>1, TypeCorrect, SalesInvariantHolds, PTL DEF Spec, StoppedNeverSold

\* Who writes the event row and the rows of a decision.
LEMMA EventWriters ==
  ASSUME [Next]_vars
  PROVE  \/ UNCHANGED eventVars
         \/ \E action \in {"POSTPONED", "RESCHEDULED", "CANCELLED"} : Commit(action)
         \/ \E r \in Reservation, c \in Change : FinishWork(c, r)
         \/ Reopen
<1>1. CASE ReservationNext \/ EventNext \/ UNCHANGED vars
  BY <1>1
  DEF ReservationNext, Reserve, DeadlinePasses, CancelReservation, ExpireReservation,
      ReleaseReservation, Convert, Checkout, SaveTier, EventNext, CancelClosedReservation,
      RequestRefund, vars
<1>2. CASE RefundNext
  BY <1>2
  DEF RefundNext, Submit, SubmitEvent, FinishRefund, CompleteManual, ResolveCase, CheckIn,
      untouchedByRefunds
<1>3. CASE PaymentNext
  BY <1>3
  DEF PaymentNext, BeginSnap, Simulate, CheckMinutesLeft, CallSnap, SetSnapURL, AbandonSnap,
      ProviderSettles, ProviderFails, ProviderUnclear, Notify, WorkerStepTaken, ReadOrder,
      ReadStatus, CancelCharge, ConfirmCancel, ApplySettled, ApplyFailed, ApplyRead,
      ReleaseOrder, GiveUp, OnlyWorkerMoves
<1> QED
  BY <1>1, <1>2, <1>3 DEF Next

\* A row of event_change_orders stays open until its order is settled.
LEMMA StopsStayTracked ==
  ASSUME TypeOK, RowsAgree, StopsAreTracked, [Next]_vars
  PROVE  StopsAreTracked'
<1> SUFFICES ASSUME NEW c \in Change, NEW r \in Reservation, <<c, r>> \in stopRow'
             PROVE  order'[r] # "NONE" /\ (order'[r] = "PENDING" => <<c, r>> \in openRow')
  BY DEF StopsAreTracked
<1>1. order[r] # "NONE" => order'[r] # "NONE" /\ (order'[r] = "PENDING" => order[r] = "PENDING")
  BY OrderMoves DEF Moves, GivenBack, Converted, Sold, Ended, RefundOpened, RefundEnded
<1>2. CASE UNCHANGED <<stopRow, openRow>>
  BY <1>1, <1>2 DEF StopsAreTracked
<1>3. ASSUME NEW action \in {"POSTPONED", "RESCHEDULED", "CANCELLED"}, Commit(action)
      PROVE  order'[r] # "NONE" /\ (order'[r] = "PENDING" => <<c, r>> \in openRow')
  <2>1. UNCHANGED order
    BY <1>3 DEF Commit, orderVars
  <2>2. CASE <<c, r>> \in stopRow
    BY <1>3, <2>1, <2>2 DEF Commit, StopsAreTracked
  <2>3. CASE <<c, r>> \notin stopRow
    <3>1. order[r] = "PENDING" /\ c = version + 1
      BY <1>3, <2>3 DEF Commit
    <3> QED
      BY <1>3, <2>1, <3>1 DEF Commit
  <2> QED
    BY <2>2, <2>3
<1>4. ASSUME NEW d \in Change, NEW o \in Reservation, FinishWork(d, o)
      PROVE  order'[r] # "NONE" /\ (order'[r] = "PENDING" => <<c, r>> \in openRow')
  <2>1. /\ UNCHANGED <<order, stopRow>> /\ openRow' = openRow \ {<<d, o>>}
        /\ order[o] # "PENDING"
    BY <1>4 DEF FinishWork, orderVars
  <2>2. order[r] = "PENDING" => <<c, r>> # <<d, o>>
    BY <2>1
  <2> QED
    BY <2>1, <2>2 DEF StopsAreTracked
<1>5. CASE Reopen
  BY <1>2, <1>5 DEF Reopen
<1> QED
  BY <1>2, <1>3, <1>4, <1>5, EventWriters DEF eventVars

\* Sales reopen when nothing that was stopped still waits, and an order that is sold
\* then was not there to be stopped.
LEMMA SellingStaysDrained ==
  ASSUME TypeOK, RowsAgree, StopsAreTracked, SellingMeansDrained, [Next]_vars
  PROVE  SellingMeansDrained'
<1> SUFFICES ASSUME CanSell', NEW r \in Reservation, Stopped(r)' PROVE order'[r] # "PENDING"
  BY DEF SellingMeansDrained
<1>1. CASE UNCHANGED <<lifecycle, paused, stopRow>>
  <2>1. CanSell /\ Stopped(r)
    BY <1>1 DEF CanSell, Stopped
  <2>2. order[r] \notin {"NONE", "PENDING"}
    BY <2>1 DEF SellingMeansDrained, StopsAreTracked, Stopped
  <2> QED
    BY <2>2, OrderMoves
    DEF Moves, GivenBack, Converted, Sold, Ended, RefundOpened, RefundEnded
<1>2. ASSUME NEW action \in {"POSTPONED", "RESCHEDULED", "CANCELLED"}, Commit(action)
      PROVE  FALSE
  BY <1>2 DEF Commit, CanSell
<1>3. CASE Reopen
  <2>1. openRow = {} /\ UNCHANGED <<order, stopRow>>
    BY <1>3 DEF Reopen, OldBusiness, orderVars
  <2> QED
    BY <2>1 DEF StopsAreTracked, Stopped
<1> QED
  BY <1>1, <1>2, <1>3, EventWriters DEF eventVars, FinishWork

\* While sales are closed nobody pays without a claim on the money, and no claim is
\* withdrawn.
LEMMA ClosedRights ==
  ASSUME TypeOK, [Next]_vars, ~CanSell, NEW o \in Reservation,
         ~\E action \in {"POSTPONED", "RESCHEDULED", "CANCELLED"} : Commit(action)
  PROVE  \/ right'[o] = "REQUESTED"
         \/ right'[o] = right[o] /\ (payment'[o] = "SUCCEEDED" => payment[o] = "SUCCEEDED")
<1> DEFINE Kept == \/ right'[o] = "REQUESTED"
                   \/ /\ right'[o] = right[o]
                      /\ payment'[o] = "SUCCEEDED" => payment[o] = "SUCCEEDED"
<1>1. CASE UNCHANGED <<right, payment>>
  BY <1>1
<1>2. ASSUME NEW r \in Reservation, NEW status \in Answer,
             ApplyGatewayStatus(r, status) \/ UNCHANGED settlementVars
      PROVE  Kept
  <2>1. PaymentBlocked(r)
    BY DEF PaymentBlocked
  <2> QED
    BY <1>2, <2>1
    DEF ApplyGatewayStatus, IgnoreStatus, RecordFailure, SettleInTime, SettleTooLate,
        settlementVars, TypeOK, PaymentsTyped, RefundsTyped
<1>3. CASE ReservationNext \/ UNCHANGED vars
  BY <1>1, <1>3
  DEF ReservationNext, Reserve, DeadlinePasses, CancelReservation, ExpireReservation,
      ReleaseReservation, Convert, Checkout, SaveTier, vars, paymentVars, refundVars
<1>4. CASE RefundNext
  BY <1>1, <1>4
  DEF RefundNext, Submit, SubmitEvent, FinishRefund, CompleteManual, ResolveCase, CheckIn,
      untouchedByRefunds, paymentVars, refundVars
<1>5. CASE EventNext
  <2>1. ASSUME NEW r \in Reservation, RequestRefund(r) PROVE Kept
    BY <2>1 DEF RequestRefund, TypeOK, RefundsTyped, paymentVars
  <2> QED
    BY <1>1, <1>5, <2>1
    DEF EventNext, CancelClosedReservation, CancelReservation, ReleaseReservation, FinishWork,
        Reopen, paymentVars, refundVars
<1>6. CASE PaymentNext
  <2>1. ASSUME NEW r \in Reservation, BeginSnap(r) \/ Simulate(r) PROVE FALSE
    BY <2>1 DEF BeginSnap, Simulate, PaymentBlocked
  <2>2. ASSUME NEW w \in Worker, ApplySettled(w) \/ ApplyFailed(w) PROVE Kept
    <3>1. worker[w].order \in Reservation
      BY <2>2, BusyWorker DEF ApplySettled, ApplyFailed, Task
    <3> QED
      BY <2>2, <3>1, <1>2 DEF ApplySettled, ApplyFailed, ApplyRead, Answer
  <2>3. ASSUME NEW r \in Reservation, NEW n \in Attempt,
               \/ CheckMinutesLeft(r, n) \/ CallSnap(r, n) \/ SetSnapURL(r, n) \/ AbandonSnap(r, n)
               \/ ProviderSettles(r, n) \/ ProviderFails(r, n) \/ ProviderUnclear(r, n)
               \/ \E status \in Answer : Notify(r, n, status)
        PROVE  Kept
    BY <1>1, <1>2, <2>3
    DEF CheckMinutesLeft, CallSnap, SetSnapURL, AbandonSnap, ProviderSettles, ProviderFails,
        ProviderUnclear, Notify, paymentVars, refundVars
  <2>4. ASSUME NEW w \in Worker,
               OnlyWorkerMoves \/ CancelCharge(w) \/ ReleaseOrder(w)
        PROVE  Kept
    BY <1>1, <2>4 DEF OnlyWorkerMoves, CancelCharge, ReleaseOrder, paymentVars, refundVars
  <2> QED
    BY <1>6, <2>1, <2>2, <2>3, <2>4
    DEF PaymentNext, WorkerStepTaken, ReadOrder, ReadStatus, ConfirmCancel, GiveUp
<1> QED
  BY <1>3, <1>4, <1>5, <1>6 DEF Next

\* A decision gives every order that has paid its right.
LEMMA CommitRights ==
  ASSUME TypeOK, NEW action \in {"POSTPONED", "RESCHEDULED", "CANCELLED"}, Commit(action)
  PROVE  ClosedEventOwesRefunds'
<1> SUFFICES ASSUME NEW r \in Reservation, payment'[r] = "SUCCEEDED", order'[r] # "REFUNDED"
             PROVE  right'[r] # "NONE" /\ (lifecycle' = "CANCELLED" => right'[r] = "REQUESTED")
  BY DEF ClosedEventOwesRefunds
<1>1. OwedRefund(r)
  BY DEF Commit, OwedRefund, paymentVars, orderVars
<1> QED
  BY <1>1 DEF Commit

LEMMA ClosedStillOwes ==
  ASSUME TypeOK, RowsAgree, ClosedEventOwesRefunds, [Next]_vars
  PROVE  ClosedEventOwesRefunds'
<1>1. CASE \E action \in {"POSTPONED", "RESCHEDULED", "CANCELLED"} : Commit(action)
  BY <1>1, CommitRights
<1>2. CASE Reopen
  BY <1>2 DEF Reopen, CanSell, ClosedEventOwesRefunds
<1>3. CASE /\ ~\E action \in {"POSTPONED", "RESCHEDULED", "CANCELLED"} : Commit(action)
           /\ UNCHANGED <<lifecycle, paused>>
  <2> SUFFICES ASSUME ~CanSell, NEW r \in Reservation, payment'[r] = "SUCCEEDED",
                      order'[r] # "REFUNDED"
               PROVE  right'[r] # "NONE" /\ (lifecycle = "CANCELLED" => right'[r] = "REQUESTED")
    BY <1>3 DEF ClosedEventOwesRefunds, CanSell
  <2>1. order[r] # "REFUNDED"
    BY OrderMoves DEF Moves, GivenBack, Converted, Sold, Ended, RefundOpened, RefundEnded
  <2> QED
    BY <1>3, <2>1, ClosedRights DEF ClosedEventOwesRefunds
<1> QED
  BY <1>1, <1>2, <1>3, EventWriters DEF eventVars, FinishWork

\* What decisions about the event leave behind, for any number of them.
THEOREM DecisionsHold == Spec => []DecisionInvariant
<1>1. Init => DecisionInvariant
  BY DEF Init, DecisionInvariant, StopsAreTracked, SellingMeansDrained, Stopped,
         ClosedEventOwesRefunds
<1>2. TypeOK /\ SalesInvariant /\ DecisionInvariant /\ [Next]_vars => DecisionInvariant'
  BY SalesRows, StopsStayTracked, SellingStaysDrained, ClosedStillOwes DEF DecisionInvariant
<1> QED
  BY <1>1, <1>2, TypeCorrect, SalesInvariantHolds, PTL DEF Spec

\* While the event sells, no order stopped by an earlier decision waits for its payment.
THEOREM SellingIsDrained == Spec => []SellingMeansDrained
  BY DecisionsHold, PTL DEF DecisionInvariant

\* While a decision keeps sales closed, everyone whose money is in and not returned has a
\* refund right, and after a cancellation it is requested.
THEOREM ClosedEventsOweRefunds == Spec => []ClosedEventOwesRefunds
  BY DecisionsHold, PTL DEF DecisionInvariant

---------------------------------------------------------------------------
(* What the provider knows *)

\* Outside the payments nobody writes a payment, asks the provider or runs a worker, and
\* an order that waits for its payment goes on waiting.
LEMMA OnlyPaymentsSettle ==
  ASSUME TypeOK, SalesInvariant, ReservationNext \/ RefundNext \/ EventNext \/ UNCHANGED vars
  PROVE  /\ UNCHANGED <<payment, attempt, redirect, providerVars, worker>>
         /\ \A r \in Reservation : order[r] \in {"NONE", "PENDING"} => order'[r] \in {"NONE", "PENDING"}
<1> USE DEF paymentVars, orderVars
<1>1. CASE ReservationNext \/ EventNext \/ UNCHANGED vars
  BY <1>1
  DEF ReservationNext, Reserve, DeadlinePasses, CancelReservation, ExpireReservation,
      ReleaseReservation, Convert, Checkout, SaveTier, EventNext, Commit,
      CancelClosedReservation, RequestRefund, FinishWork, Reopen, vars, TypeOK, OrdersTyped
<1>2. ASSUME NEW o \in Reservation, Submit(o) \/ SubmitEvent(o)
      PROVE  order[o] \notin {"NONE", "PENDING"} /\ order' = [order EXCEPT ![o] = "REFUND_PENDING"]
  BY <1>2
  DEF Submit, SubmitEvent, OpenRefund, Refundable, SalesInvariant, RefundRemembersOrder,
      TypeOK, RefundsTyped
<1>3. ASSUME NEW o \in Reservation, FinishRefund(o) \/ CompleteManual(o)
      PROVE  /\ order[o] = "REFUND_PENDING"
             /\ \E status \in OrderStatus : order' = [order EXCEPT ![o] = status]
  BY <1>3
  DEF FinishRefund, CompleteManual, SucceedRefund, FailRefund, SalesInvariant,
      RefundMatchesOrder, TypeOK, RefundsTyped, OrderStatus
<1>4. CASE RefundNext
  <2>1. \A r \in Reservation : order[r] \in {"NONE", "PENDING"} => order'[r] \in {"NONE", "PENDING"}
    BY <1>2, <1>3, <1>4 DEF RefundNext, ResolveCase, CheckIn, TypeOK, OrdersTyped
  <2> QED
    BY <1>4, <2>1
    DEF RefundNext, Submit, SubmitEvent, FinishRefund, CompleteManual, ResolveCase, CheckIn,
        untouchedByRefunds
<1> QED
  BY <1>1, <1>4

\* A late Snap answer never gives a newer attempt the redirect of an older one.
THEOREM RedirectsAreCurrent == Spec => []RedirectOfThisAttempt
<1>1. Init => RedirectOfThisAttempt
  BY DEF Init, RedirectOfThisAttempt
<1>2. TypeOK /\ SalesInvariant /\ RedirectOfThisAttempt /\ [Next]_vars => RedirectOfThisAttempt'
  <2> SUFFICES ASSUME TypeOK, SalesInvariant, RedirectOfThisAttempt, [Next]_vars
               PROVE  RedirectOfThisAttempt'
    OBVIOUS
  <2> USE DEF RedirectOfThisAttempt, paymentVars, TypeOK, PaymentsTyped
  <2>1. CASE UNCHANGED <<attempt, redirect>> /\ \A r \in Reservation :
                payment'[r] = "PENDING" => payment[r] = "PENDING"
    BY <2>1
  <2>2. ASSUME NEW r \in Reservation, BeginSnap(r) PROVE RedirectOfThisAttempt'
    BY <2>2 DEF BeginSnap
  <2>3. ASSUME NEW r \in Reservation, NEW n \in Attempt, SetSnapURL(r, n)
        PROVE  RedirectOfThisAttempt'
    BY <2>3 DEF SetSnapURL
  <2>4. ASSUME NEW r \in Reservation, NEW status \in Answer,
               ApplyGatewayStatus(r, status) \/ UNCHANGED settlementVars
        PROVE  \A o \in Reservation : payment'[o] = "PENDING" => payment[o] = "PENDING"
    BY <2>4
    DEF ApplyGatewayStatus, IgnoreStatus, RecordFailure, SettleInTime, SettleTooLate, Pay,
        settlementVars
  <2>5. ASSUME NEW w \in Worker, ApplySettled(w) \/ ApplyFailed(w)
        PROVE  RedirectOfThisAttempt'
    <3>1. worker[w].order \in Reservation
      BY <2>5, BusyWorker DEF ApplySettled, ApplyFailed, Task
    <3> QED
      BY <2>1, <2>4, <2>5, <3>1 DEF ApplySettled, ApplyFailed, ApplyRead, Answer
  <2>6. CASE PaymentNext
    <3>1. ASSUME NEW r \in Reservation, NEW n \in Attempt, NEW status \in Answer,
                 Notify(r, n, status)
          PROVE  RedirectOfThisAttempt'
      BY <2>1, <2>4, <3>1 DEF Notify
    <3>2. ASSUME NEW r \in Reservation, NEW n \in Attempt,
                 \/ CheckMinutesLeft(r, n) \/ CallSnap(r, n) \/ AbandonSnap(r, n)
                 \/ ProviderSettles(r, n) \/ ProviderFails(r, n) \/ ProviderUnclear(r, n)
          PROVE  RedirectOfThisAttempt'
      BY <2>1, <3>2
      DEF CheckMinutesLeft, CallSnap, AbandonSnap, ProviderSettles, ProviderFails,
          ProviderUnclear
    <3>3. ASSUME NEW w \in Worker, OnlyWorkerMoves \/ CancelCharge(w) \/ ReleaseOrder(w)
          PROVE  RedirectOfThisAttempt'
      BY <2>1, <3>3 DEF OnlyWorkerMoves, CancelCharge, ReleaseOrder
    <3>4. ASSUME NEW r \in Reservation, Simulate(r) PROVE RedirectOfThisAttempt'
      BY <2>1, <3>4 DEF Simulate, Pay
    <3> QED
      BY <2>2, <2>3, <2>5, <2>6, <3>1, <3>2, <3>3, <3>4
      DEF PaymentNext, WorkerStepTaken, ReadOrder, ReadStatus, ConfirmCancel, GiveUp
  <2> QED
    BY <2>1, <2>6, OnlyPaymentsSettle DEF Next
<1> QED
  BY <1>1, <1>2, TypeCorrect, SalesInvariantHolds, PTL DEF Spec

\* The provider's answers are only ever added to, and attempts only ever replaced.
LEMMA AnswersStay ==
  ASSUME TypeOK, SalesInvariant, [Next]_vars
  PROVE  \A r \in Reservation :
           attempt[r] <= attempt'[r] /\ \A n \in Attempt : charge[r][n] \subseteq charge'[r][n]
<1> USE DEF TypeOK, PaymentsTyped, ProviderTyped, providerVars, paymentVars
<1>1. CASE UNCHANGED <<attempt, charge>>
  BY <1>1
<1>2. ASSUME NEW r \in Reservation, BeginSnap(r) PROVE UNCHANGED charge /\ \A o \in Reservation : attempt[o] <= attempt'[o]
  BY <1>2 DEF BeginSnap
<1>3. ASSUME NEW r \in Reservation, NEW n \in Attempt, NEW status, Report(r, n, status)
      PROVE  \A o \in Reservation, m \in Attempt : charge[o][m] \subseteq charge'[o][m]
  BY <1>3 DEF Report
<1>4. ASSUME NEW r \in Reservation, NEW n \in Attempt,
             CallSnap(r, n) \/ ProviderSettles(r, n) \/ ProviderFails(r, n)
      PROVE  UNCHANGED attempt /\ \A o \in Reservation, m \in Attempt : charge[o][m] \subseteq charge'[o][m]
  BY <1>3, <1>4 DEF CallSnap, ProviderSettles, ProviderFails
<1>5. ASSUME NEW w \in Worker, CancelCharge(w)
      PROVE  UNCHANGED attempt /\ \A o \in Reservation, m \in Attempt : charge[o][m] \subseteq charge'[o][m]
  BY <1>5 DEF CancelCharge, Report
<1>6. CASE PaymentNext
  <2>1. ASSUME NEW r \in Reservation, NEW n \in Attempt,
               \/ CheckMinutesLeft(r, n) \/ SetSnapURL(r, n) \/ AbandonSnap(r, n) \/ Simulate(r)
               \/ ProviderUnclear(r, n) \/ \E status \in Answer : Notify(r, n, status)
        PROVE  UNCHANGED <<attempt, charge>>
    BY <2>1 DEF CheckMinutesLeft, SetSnapURL, AbandonSnap, Simulate, ProviderUnclear, Notify
  <2>2. ASSUME NEW r \in Reservation, Simulate(r) PROVE UNCHANGED <<attempt, charge>>
    BY <2>2 DEF Simulate
  <2>3. ASSUME NEW w \in Worker, OnlyWorkerMoves \/ ApplySettled(w) \/ ApplyFailed(w) \/ ReleaseOrder(w)
        PROVE  UNCHANGED <<attempt, charge>>
    BY <2>3 DEF OnlyWorkerMoves, ApplySettled, ApplyFailed, ApplyRead, ReleaseOrder
  <2> QED
    BY <1>1, <1>2, <1>4, <1>5, <1>6, <2>1, <2>2, <2>3
    DEF PaymentNext, WorkerStepTaken, ReadOrder, ReadStatus, ConfirmCancel, GiveUp
<1> QED
  BY <1>1, <1>6, OnlyPaymentsSettle DEF Next

\* A status that the provider did give is what the payment row then records.
LEMMA SettlementIsKnown ==
  ASSUME TypeOK, ProviderKnows, NEW r \in Reservation, NEW n \in Attempt, NEW status \in Answer,
         attempt[r] = n, status \in charge[r][n], ApplyGatewayStatus(r, status),
         UNCHANGED <<attempt, charge, snap>>
  PROVE  ProviderKnows'
<1> USE DEF TypeOK, OrdersTyped, PaymentsTyped
<1>1. \A o \in Reservation \ {r} : payment'[o] = payment[o] /\ order'[o] = order[o]
  BY DEF ApplyGatewayStatus, IgnoreStatus, RecordFailure, SettleInTime, SettleTooLate, Pay,
         ExpireLockedOrder, settlementVars
<1>2. n # 0 /\ payment[r] # "NONE"
  BY DEF ProviderKnows, Attempt
<1>3. \/ payment'[r] = payment[r] /\ order'[r] = order[r]
      \/ payment'[r] = "FAILED" /\ order'[r] = order[r] /\ status = "failed"
      \/ payment'[r] = "SUCCEEDED" /\ status = "settled"
  BY DEF ApplyGatewayStatus, IgnoreStatus, RecordFailure, SettleInTime, SettleTooLate, Pay,
         settlementVars
<1> QED
  BY <1>1, <1>2, <1>3 DEF ProviderKnows

\* What requests and the provider do for an attempt keeps that knowledge: a new attempt
\* replaces one that has failed, and an answer is about an attempt that was begun.
LEMMA RequestsKeepKnowledge ==
  ASSUME TypeOK, ProviderKnows, NEW r \in Reservation,
         \/ BeginSnap(r)
         \/ \E n \in Attempt :
              \/ CheckMinutesLeft(r, n) \/ CallSnap(r, n) \/ SetSnapURL(r, n) \/ AbandonSnap(r, n)
              \/ ProviderSettles(r, n) \/ ProviderFails(r, n) \/ ProviderUnclear(r, n)
  PROVE  ProviderKnows'
<1> USE DEF orderVars, paymentVars
<1>1. /\ attempt \in [Reservation -> Nat] /\ payment \in [Reservation -> PaymentStatus]
      /\ charge \in [Reservation -> [Attempt -> SUBSET Answer]]
      /\ snap \in [Reservation -> [Attempt -> SnapPhase]]
  BY BoundAssumption DEF TypeOK, PaymentsTyped, ProviderTyped
<1>2. \A n \in Attempt : n \in Nat /\ n > 0
  BY DEF Attempt
<1>3. CASE BeginSnap(r)
  <2>1. UNCHANGED <<charge, order>> /\ order[r] = "PENDING"
    BY <1>3 DEF BeginSnap
  <2>2. \A o \in Reservation \ {r} :
          payment'[o] = payment[o] /\ attempt'[o] = attempt[o] /\ snap'[o] = snap[o]
    BY <1>1, <1>3 DEF BeginSnap
  <2>3. CASE payment[r] # "PENDING"
    <3>1. /\ payment[r] \in {"NONE", "FAILED"} /\ payment'[r] = "PENDING"
          /\ attempt'[r] = attempt[r] + 1
          /\ \A n \in Attempt : n # attempt[r] + 1 => snap'[r][n] = snap[r][n]
      BY <1>1, <1>3, <2>3 DEF BeginSnap
    <3>2. \A n \in Attempt :
            /\ n < attempt'[r] => "failed" \in charge[r][n]
            /\ n > attempt'[r] => charge[r][n] = {} /\ snap'[r][n] = "none"
      <4> TAKE n \in Attempt
      <4>1. n \in Nat /\ n > 0 /\ attempt[r] \in Nat
        BY <1>1, <1>2
      <4>2. n < attempt[r] \/ n = attempt[r] => "failed" \in charge[r][n]
        BY <3>1, <4>1 DEF ProviderKnows
      <4>3. n > attempt[r] + 1 => charge[r][n] = {} /\ snap'[r][n] = "none"
        BY <3>1, <4>1 DEF ProviderKnows
      <4>4. (n < attempt[r] + 1 => n < attempt[r] \/ n = attempt[r])
        BY <4>1
      <4> QED
        BY <3>1, <4>2, <4>3, <4>4
    <3> QED
      BY <1>1, <1>2, <2>1, <2>2, <3>1, <3>2 DEF ProviderKnows
  <2>4. CASE payment[r] = "PENDING"
    <3>1. /\ payment' = payment /\ attempt' = attempt
          /\ \A n \in Attempt : n # attempt[r] => snap'[r][n] = snap[r][n]
      BY <1>1, <1>3, <2>4 DEF BeginSnap
    <3> QED
      BY <1>1, <1>2, <2>1, <2>2, <3>1 DEF ProviderKnows
  <2> QED
    BY <2>3, <2>4
<1>4. ASSUME NEW n \in Attempt,
             \/ CheckMinutesLeft(r, n) \/ CallSnap(r, n) \/ SetSnapURL(r, n) \/ AbandonSnap(r, n)
             \/ ProviderSettles(r, n) \/ ProviderFails(r, n) \/ ProviderUnclear(r, n)
      PROVE  ProviderKnows'
  <2>1. UNCHANGED <<order, payment, attempt>>
    BY <1>4
    DEF CheckMinutesLeft, CallSnap, SetSnapURL, AbandonSnap, ProviderSettles, ProviderFails,
        ProviderUnclear
  <2>2. n <= attempt[r]
    <3>1. charge[r][n] # {} \/ snap[r][n] # "none"
      BY <1>4
      DEF CheckMinutesLeft, CallSnap, SetSnapURL, AbandonSnap, ProviderSettles, ProviderFails,
          ProviderUnclear, Collectable
    <3> QED
      BY <1>1, <1>2, <3>1 DEF ProviderKnows
  <2>3. \A o \in Reservation, m \in Attempt :
          /\ charge[o][m] \subseteq charge'[o][m]
          /\ <<o, m>> # <<r, n>> => charge'[o][m] = charge[o][m] /\ snap'[o][m] = snap[o][m]
    BY <1>1, <1>4
    DEF CheckMinutesLeft, CallSnap, SetSnapURL, AbandonSnap, ProviderSettles, ProviderFails,
        ProviderUnclear, Report
  <2>4. \A o \in Reservation, m \in Attempt :
          /\ "failed" \in charge[o][m] => "failed" \in charge'[o][m]
          /\ "settled" \in charge[o][m] => "settled" \in charge'[o][m]
          /\ m > attempt[o] => charge'[o][m] = charge[o][m] /\ snap'[o][m] = snap[o][m]
    BY <1>1, <1>2, <2>2, <2>3
  <2> QED
    BY <2>1, <2>4 DEF ProviderKnows
<1> QED
  BY <1>3, <1>4

\* What one worker has to know before it acts on the order it read.
Informed(w) ==
    worker[w].step \notin {"idle", "release"} =>
        /\ worker[w].attempt # 0 /\ worker[w].attempt <= attempt[worker[w].order]
        /\ worker[w].step = "settle" => "settled" \in charge[worker[w].order][worker[w].attempt]
        /\ worker[w].step = "fail" => "failed" \in charge[worker[w].order][worker[w].attempt]

\* What a worker knows stays true while others act, however long it sleeps.
LEMMA KnowledgeLasts ==
  ASSUME TypeOK, SalesInvariant, [Next]_vars, NEW w \in Worker, worker'[w] = worker[w], Informed(w)
  PROVE  Informed(w)'
<1> SUFFICES ASSUME worker[w].step \notin {"idle", "release"} PROVE Informed(w)'
  BY DEF Informed
<1>1. worker[w].order \in Reservation /\ worker[w].attempt \in 0..MaxAttempt
  BY BusyWorker DEF Task
<1>2. worker[w].attempt \in Attempt
  BY <1>1, BoundAssumption DEF Informed, Attempt
<1> DEFINE r == worker[w].order
           n == worker[w].attempt
<1>3. attempt[r] \in Nat /\ attempt[r] <= attempt'[r] /\ charge[r][n] \subseteq charge'[r][n]
  BY <1>1, <1>2, AnswersStay, BoundAssumption DEF TypeOK, PaymentsTyped
<1>4. attempt'[r] \in Nat /\ n \in Nat
  BY <1>1, NextTypes, BoundAssumption DEF TypeOK, PaymentsTyped
<1>5. n <= attempt'[r]
  BY <1>3, <1>4 DEF Informed
<1> QED
  BY <1>3, <1>5 DEF Informed

\* A worker advances on what the provider has told it.
LEMMA WorkersStayInformed ==
  ASSUME TypeOK, SalesInvariant, WorkersKnow, [Next]_vars
  PROVE  WorkersKnow'
<1> SUFFICES ASSUME NEW w \in Worker PROVE Informed(w)'
  BY DEF WorkersKnow, Informed
<1>1. Informed(w)
  BY DEF WorkersKnow, Informed
<1>2. CASE worker'[w] = worker[w]
  BY <1>1, <1>2, KnowledgeLasts
<1>3. ASSUME NEW v \in Worker, WorkerStepTaken(v) \/ GiveUp(v), v # w
      PROVE  worker'[w] = worker[w]
  BY <1>3
  DEF WorkerStepTaken, ReadOrder, ReadStatus, CancelCharge, ConfirmCancel, ApplySettled,
      ApplyFailed, ReleaseOrder, GiveUp, Advance, Finish, TypeOK, WorkersTyped
<1>4. CASE WorkerStepTaken(w) \/ GiveUp(w)
  <2>1. ASSUME worker'[w].step \in {"idle", "release"} PROVE Informed(w)'
    BY <2>1 DEF Informed
  <2>2. CASE \E r \in Reservation : ReadOrder(w, r)
    <3> PICK r \in Reservation : ReadOrder(w, r)
      BY <2>2
    <3>1. attempt' = attempt /\ attempt[r] \in Nat
      BY BoundAssumption DEF ReadOrder, OnlyWorkerMoves, paymentVars, TypeOK, PaymentsTyped
    <3>2. worker'[w] = [step |-> IF attempt[r] # 0 /\ payment[r] = "PENDING"
                                  THEN "status" ELSE "release",
                        order |-> r, attempt |-> attempt[r]]
      BY DEF ReadOrder, TypeOK, WorkersTyped
    <3> QED
      BY <3>1, <3>2 DEF Informed
  <2>3. ASSUME worker[w].step \in {"status", "cancel", "confirm"}
        PROVE  worker[w] \in Task /\ worker[w].attempt # 0
               /\ worker[w].attempt <= attempt[worker[w].order]
    BY <1>1, <2>3, BusyWorker DEF Informed
  <2>4. ASSUME NEW step \in WorkerStep, Advance(w, step)
        PROVE  worker'[w] = [worker[w] EXCEPT !.step = step]
    BY <2>4 DEF Advance, TypeOK, WorkersTyped
  <2>5. ASSUME Finish(w) PROVE Informed(w)'
    BY <2>1, <2>5 DEF Finish, Idle, TypeOK, WorkersTyped
  <2>6. CASE ReadStatus(w)
    <3> DEFINE r == worker[w].order
               n == worker[w].attempt
    <3>1. CASE Finish(w)
      BY <2>5, <3>1
    <3>2. ASSUME ~Finish(w)
          PROVE  /\ UNCHANGED <<attempt, charge>>
                 /\ \E step \in {"settle", "fail", "cancel"} :
                      /\ Advance(w, step)
                      /\ step = "settle" => "settled" \in charge[r][n]
                      /\ step = "fail" => "failed" \in charge[r][n]
      BY <2>6, <3>2 DEF ReadStatus, CurrentStatus, OnlyWorkerMoves, paymentVars, providerVars
    <3> QED
      BY <2>3, <2>4, <2>6, <3>1, <3>2 DEF ReadStatus, Informed, Task, WorkerStep
  <2>7. CASE CancelCharge(w)
    <3>1. attempt' = attempt /\ Advance(w, "confirm") /\ worker[w].step = "cancel"
      BY <2>7 DEF CancelCharge, paymentVars
    <3> QED
      BY <2>3, <2>4, <3>1 DEF Informed, Task, WorkerStep
  <2>8. CASE ConfirmCancel(w)
    <3> DEFINE r == worker[w].order
               n == worker[w].attempt
    <3>1. CASE Finish(w)
      BY <2>5, <3>1
    <3>2. ASSUME ~Finish(w)
          PROVE  /\ UNCHANGED <<attempt, charge>>
                 /\ \E step \in {"settle", "fail"} :
                      /\ Advance(w, step)
                      /\ step = "settle" => "settled" \in charge[r][n]
                      /\ step = "fail" => "failed" \in charge[r][n]
      BY <2>8, <3>2 DEF ConfirmCancel, CurrentStatus, OnlyWorkerMoves, paymentVars, providerVars
    <3> QED
      BY <2>3, <2>4, <2>8, <3>1, <3>2 DEF ConfirmCancel, Informed, Task, WorkerStep
  <2>9. CASE ApplySettled(w) \/ ReleaseOrder(w) \/ GiveUp(w)
    BY <2>1, <2>9
    DEF ApplySettled, ReleaseOrder, GiveUp, Finish, Idle, TypeOK, WorkersTyped
  <2>10. CASE ApplyFailed(w)
    <3>1. worker[w] \in Task
      BY <2>10, BusyWorker DEF ApplyFailed
    <3> QED
      BY <2>1, <2>10, <3>1
      DEF ApplyFailed, Advance, Finish, Idle, Task, TypeOK, WorkersTyped
  <2> QED
    BY <1>4, <2>2, <2>6, <2>7, <2>8, <2>9, <2>10 DEF WorkerStepTaken
<1>5. CASE UNCHANGED worker
  BY <1>2, <1>5
<1>6. CASE PaymentNext
  BY <1>2, <1>3, <1>4, <1>5, <1>6
  DEF PaymentNext, BeginSnap, Simulate, CheckMinutesLeft, CallSnap, SetSnapURL, AbandonSnap,
      ProviderSettles, ProviderFails, ProviderUnclear, Notify
<1> QED
  BY <1>5, <1>6, OnlyPaymentsSettle DEF Next

\* What a worker does to an order agrees with what the provider knows: it applies an
\* answer only to the attempt that answer is about, and releases no pending attempt.
LEMMA WorkersKeepKnowledge ==
  ASSUME TypeOK, ProviderKnows, WorkersKnow, NEW w \in Worker, WorkerStepTaken(w) \/ GiveUp(w)
  PROVE  ProviderKnows'
<1> USE DEF paymentVars, orderVars, providerVars
<1> DEFINE r == worker[w].order
           n == worker[w].attempt
<1>1. worker[w].step # "idle" => r \in Reservation /\ n \in 0..MaxAttempt
  BY BusyWorker DEF Task
<1>2. CASE UNCHANGED <<order, payment, attempt, providerVars>>
  BY <1>2 DEF ProviderKnows
<1>3. CASE CancelCharge(w)
  <2>1. r \in Reservation /\ n \in Attempt /\ n \in Nat /\ attempt[r] \in Nat /\ n <= attempt[r]
    BY <1>1, <1>3, BoundAssumption
    DEF CancelCharge, WorkersKnow, Attempt, TypeOK, PaymentsTyped
  <2>2. /\ UNCHANGED <<order, payment, attempt, snap>>
        /\ charge' = [charge EXCEPT ![r][n] = @ \cup {"failed"}]
    BY <1>3 DEF CancelCharge, Report
  <2>3. \A o \in Reservation, m \in Attempt :
          /\ charge[o][m] \subseteq charge'[o][m]
          /\ <<o, m>> # <<r, n>> => charge'[o][m] = charge[o][m]
    BY <2>1, <2>2 DEF TypeOK, ProviderTyped
  <2>4. \A o \in Reservation, m \in Attempt :
          /\ "failed" \in charge[o][m] => "failed" \in charge'[o][m]
          /\ "settled" \in charge[o][m] => "settled" \in charge'[o][m]
          /\ m > attempt[o] => charge'[o][m] = charge[o][m]
    BY <2>1, <2>3
  <2> QED
    BY <2>2, <2>4 DEF ProviderKnows
<1>4. ASSUME NEW status \in {"settled", "failed"}, ApplyRead(w, status),
             worker[w].step = IF status = "settled" THEN "settle" ELSE "fail"
      PROVE  ProviderKnows'
  <2>1. /\ r \in Reservation /\ n \in Attempt /\ n \in Nat
        /\ attempt[r] = n => status \in charge[r][n]
    BY <1>1, <1>4, BoundAssumption DEF WorkersKnow, Attempt
  <2>2. CASE attempt[r] = n
    <3>1. ApplyGatewayStatus(r, status) /\ UNCHANGED <<attempt, charge, snap>>
      BY <1>4, <2>2 DEF ApplyRead
    <3> QED
      BY <2>1, <2>2, <3>1, SettlementIsKnown DEF Answer
  <2>3. CASE attempt[r] # n
    BY <1>2, <1>4, <2>3 DEF ApplyRead, settlementVars
  <2> QED
    BY <2>2, <2>3
<1>5. CASE ReleaseOrder(w)
  <2>1. UNCHANGED <<payment, attempt, providerVars>>
    BY <1>5 DEF ReleaseOrder
  <2>2. CASE UNCHANGED order
    BY <1>2, <2>1, <2>2
  <2>3. CASE Releasable(w) /\ ExpireLockedOrder(r)
    <3>1. r \in Reservation
      BY <1>1, <1>5 DEF ReleaseOrder
    <3>2. payment[r] # "PENDING"
      BY <2>3, <3>1 DEF Releasable, ProviderKnows
    <3>3. \A o \in Reservation \ {r} : order'[o] = order[o]
      BY <2>3, <3>1 DEF ExpireLockedOrder, TypeOK, OrdersTyped
    <3> QED
      BY <2>1, <3>2, <3>3 DEF ProviderKnows
  <2> QED
    BY <1>5, <2>2, <2>3 DEF ReleaseOrder
<1> QED
  BY <1>2, <1>3, <1>4, <1>5
  DEF WorkerStepTaken, ReadOrder, ReadStatus, ConfirmCancel, GiveUp, OnlyWorkerMoves,
      ApplySettled, ApplyFailed

\* What was released was not to be had any more: in production a worker knows the
\* provider's last word on an attempt before the order's stock is given back, also when
\* the buyer starts a new attempt, the provider fails or another worker is faster.
THEOREM ReleaseInvariantHolds == Spec => []ReleaseInvariant
<1>1. Init => ReleaseInvariant
  BY DEF Init, ReleaseInvariant, ProviderKnows, WorkersKnow, Idle, Attempt
<1>2. TypeOK /\ SalesInvariant /\ ReleaseInvariant /\ [Next]_vars => ReleaseInvariant'
  <2> SUFFICES ASSUME TypeOK, SalesInvariant, ~Simulation, ProviderKnows, WorkersKnow, [Next]_vars
               PROVE  ProviderKnows'
    BY WorkersStayInformed DEF ReleaseInvariant
  <2>1. CASE ReservationNext \/ RefundNext \/ EventNext \/ UNCHANGED vars
    BY <2>1, OnlyPaymentsSettle DEF ProviderKnows, providerVars
  <2>2. ASSUME NEW r \in Reservation, Simulate(r) PROVE FALSE
    BY <2>2 DEF Simulate
  <2>3. ASSUME NEW r \in Reservation, NEW n \in Attempt, NEW status \in Answer,
               Notify(r, n, status)
        PROVE  ProviderKnows'
    BY <2>3, SettlementIsKnown DEF Notify, providerVars
  <2>4. CASE PaymentNext
    BY <2>2, <2>3, <2>4, RequestsKeepKnowledge, WorkersKeepKnowledge DEF PaymentNext
  <2> QED
    BY <2>1, <2>4 DEF Next
<1> QED
  BY <1>1, <1>2, TypeCorrect, SalesInvariantHolds, PTL DEF Spec

\* When an order's stock is released, no attempt of it can still be collected.
THEOREM ReleasedOrdersAreUncollectable == Spec => []ReleasedIsUncollectable
<1>1. TypeOK /\ ReleaseInvariant => ReleasedIsUncollectable
  <2> SUFFICES ASSUME TypeOK, ProviderKnows, NEW r \in Reservation, NEW n \in Attempt,
                      order[r] \in {"EXPIRED", "CANCELLED"}
               PROVE  ~Collectable(r, n)
    BY DEF ReleaseInvariant, ReleasedIsUncollectable
  <2>1. n \in Nat /\ n > 0 /\ attempt[r] \in Nat /\ payment[r] \in {"NONE", "FAILED", "SUCCEEDED"}
    BY BoundAssumption DEF Attempt, TypeOK, PaymentsTyped, PaymentStatus, ProviderKnows
  <2>2. CASE n < attempt[r]
    BY <2>2 DEF ProviderKnows, Collectable
  <2>3. CASE n > attempt[r]
    BY <2>3 DEF ProviderKnows, Collectable
  <2>4. CASE n = attempt[r]
    BY <2>1, <2>4 DEF ProviderKnows, Collectable
  <2> QED
    BY <2>1, <2>2, <2>3, <2>4
<1> QED
  BY <1>1, TypeCorrect, ReleaseInvariantHolds, PTL
============================================================================
