------------------------- MODULE TicketSalesProofs -------------------------
(***************************************************************************)
(* Proofs about TicketSales for every set of reservations, tiers and       *)
(* workers and every value of the bounds.                                  *)
(***************************************************************************)
EXTENDS TicketSales, TLAPS, FiniteSetTheorems

USE DEF Attempt, Change

---------------------------------------------------------------------------
(* Types *)

\* The initial tables are well-typed.
LEMMA InitTypes == Init => TypeOK
<1> SUFFICES ASSUME Init PROVE TypeOK
  OBVIOUS
<1>1. StockTyped
  BY CapacityAssumption DEF Init, StockTyped
<1>2. ReservationsTyped
  BY BoundAssumption DEF Init, ReservationsTyped, Quantities, ReservationStatus
<1>3. OrdersTyped
  BY DEF Init, OrdersTyped, OrderStatus
<1>4. PaymentsTyped
  BY BoundAssumption DEF Init, PaymentsTyped, PaymentStatus
<1>5. RefundsTyped
  BY DEF Init, RefundsTyped, RefundStatus
<1>6. EventTyped
  <2>1. lifecycle \in Lifecycle /\ version \in 0..MaxChange
    BY BoundAssumption DEF Init, Lifecycle
  <2>2. paused \in BOOLEAN /\ stopRow \subseteq Change \X Reservation /\ openRow \subseteq stopRow
    BY Zenon DEF Init
  <2> QED
    BY <2>1, <2>2 DEF EventTyped
<1>7. ProviderTyped
  BY DEF Init, ProviderTyped, SnapPhase
<1>8. WorkersTyped
  BY DEF Init, WorkersTyped
<1> QED
  BY <1>1, <1>2, <1>3, <1>4, <1>5, <1>6, <1>7, <1>8 DEF TypeOK

\* Reservations, checkout and capacity edits keep the tables well-typed.
LEMMA ReservationTypes ==
  ASSUME TypeOK, ReservationNext
  PROVE  TypeOK'
<1> USE DEF TypeOK, stockVars, reservationVars, orderVars, paymentVars, refundVars, eventVars,
            providerVars
<1>0. /\ UNCHANGED paymentVars => PaymentsTyped'
      /\ UNCHANGED refundVars => RefundsTyped'
      /\ UNCHANGED eventVars => EventTyped'
      /\ UNCHANGED providerVars => ProviderTyped'
      /\ UNCHANGED worker => WorkersTyped'
      /\ UNCHANGED orderVars => OrdersTyped'
  BY DEF PaymentsTyped, RefundsTyped, EventTyped, ProviderTyped, WorkersTyped, OrdersTyped
<1>1. ASSUME NEW r \in Reservation, NEW q \in Quantities, Reserve(r, q) PROVE TypeOK'
  <2>1. StockTyped'
    BY <1>1, BoundAssumption DEF Reserve, StockTyped, Quantities
  <2>2. ReservationsTyped'
    BY <1>1 DEF Reserve, ReservationsTyped, ReservationStatus
  <2> QED
    BY <1>0, <1>1, <2>1, <2>2 DEF Reserve
<1>2. ASSUME NEW r \in Reservation, DeadlinePasses(r) PROVE TypeOK'
  <2>1. StockTyped' /\ ReservationsTyped'
    BY <1>2 DEF DeadlinePasses, StockTyped, ReservationsTyped
  <2> QED
    BY <1>0, <1>2, <2>1 DEF DeadlinePasses
<1>3. ASSUME NEW r \in Reservation, NEW s \in {"CANCELLED", "EXPIRED"},
             ReleaseReservation(r, s)
      PROVE  TypeOK'
  <2>1. StockTyped'
    BY <1>3, BoundAssumption
    DEF ReleaseReservation, RestoreItems, Least, StockTyped, ReservationsTyped, Quantities
  <2>2. ReservationsTyped'
    BY <1>3 DEF ReleaseReservation, ReservationsTyped, ReservationStatus
  <2> QED
    BY <1>0, <1>3, <2>1, <2>2 DEF ReleaseReservation
<1>4. ASSUME NEW r \in Reservation, Convert(r) PROVE TypeOK'
  <2>1. StockTyped' /\ ReservationsTyped'
    BY <1>4 DEF Convert, StockTyped, ReservationsTyped, ReservationStatus
  <2> QED
    BY <1>0, <1>4, <2>1 DEF Convert
<1>5. ASSUME NEW r \in Reservation, Checkout(r) PROVE TypeOK'
  <2>1. StockTyped' /\ ReservationsTyped'
    BY <1>5 DEF Checkout, StockTyped, ReservationsTyped, ReservationStatus
  <2>2. OrdersTyped'
    BY <1>5 DEF Checkout, OrdersTyped, OrderStatus
  <2> QED
    BY <1>0, <1>5, <2>1, <2>2 DEF Checkout
<1>6. ASSUME NEW t \in Tier, NEW c \in CapacityChoice, SaveTier(t, c) PROVE TypeOK'
  <2>1. StockTyped'
    BY <1>6, CapacityAssumption DEF SaveTier, StockTyped
  <2>2. ReservationsTyped'
    BY <1>6 DEF SaveTier, ReservationsTyped
  <2> QED
    BY <1>0, <1>6, <2>1, <2>2 DEF SaveTier
<1> QED
  BY <1>1, <1>2, <1>3, <1>4, <1>5, <1>6
  DEF ReservationNext, CancelReservation, ExpireReservation

\* A report adds an answer to those of a charge.
LEMMA ReportTypes ==
  ASSUME ProviderTyped, NEW r \in Reservation, NEW n \in Attempt, NEW status \in Answer,
         Report(r, n, status)
  PROVE  charge' \in [Reservation -> [Attempt -> SUBSET Answer]]
  BY DEF Report, ProviderTyped

\* A new request to the provider keeps the tables well-typed.
LEMMA BeginSnapTypes ==
  ASSUME TypeOK, NEW r \in Reservation, BeginSnap(r)
  PROVE  TypeOK'
<1> USE DEF TypeOK, stockVars, reservationVars, orderVars, refundVars, eventVars
<1>1. PaymentsTyped'
  BY BoundAssumption DEF BeginSnap, PaymentsTyped, PaymentStatus
<1>2. PICK k \in Int : snap' = [snap EXCEPT ![r][k] = "begun"]
  BY BoundAssumption DEF BeginSnap, PaymentsTyped
<1>3. snap' \in [Reservation -> [Attempt -> SnapPhase]]
  BY <1>2 DEF ProviderTyped, SnapPhase
<1> QED
  BY <1>1, <1>3
  DEF BeginSnap, StockTyped, ReservationsTyped, OrdersTyped, WorkersTyped, RefundsTyped,
      EventTyped, ProviderTyped

\* The rest of the request, and the provider's answers, keep the tables well-typed.
LEMMA SnapTypes ==
  ASSUME TypeOK, NEW r \in Reservation, NEW n \in Attempt,
         \/ CheckMinutesLeft(r, n) \/ CallSnap(r, n) \/ SetSnapURL(r, n) \/ AbandonSnap(r, n)
         \/ ProviderSettles(r, n) \/ ProviderFails(r, n) \/ ProviderUnclear(r, n)
  PROVE  TypeOK'
<1> USE DEF TypeOK, stockVars, reservationVars, orderVars, paymentVars, refundVars, eventVars,
            CheckMinutesLeft, CallSnap, SetSnapURL, AbandonSnap, ProviderSettles, ProviderFails,
            ProviderUnclear
<1>1. StockTyped' /\ ReservationsTyped' /\ OrdersTyped' /\ WorkersTyped'
  BY DEF StockTyped, ReservationsTyped, OrdersTyped, WorkersTyped
<1>2. RefundsTyped' /\ EventTyped' /\ PaymentsTyped'
  BY BoundAssumption DEF RefundsTyped, EventTyped, PaymentsTyped
<1>3. snap' \in [Reservation -> [Attempt -> SnapPhase]]
  <2>1. CASE UNCHANGED snap
    BY <2>1 DEF ProviderTyped
  <2>2. CASE \E phase \in SnapPhase : snap' = [snap EXCEPT ![r][n] = phase]
    BY <2>2 DEF ProviderTyped
  <2> QED
    BY <2>1, <2>2 DEF SnapPhase
<1>4. charge' \in [Reservation -> [Attempt -> SUBSET Answer]]
  BY ReportTypes DEF ProviderTyped, Answer
<1>5. unclear' \subseteq Reservation \X Attempt
  BY DEF ProviderTyped
<1> QED
  BY <1>1, <1>2, <1>3, <1>4, <1>5 DEF ProviderTyped

\* Ending an order returns stock and writes a status.
LEMMA ExpireTypes ==
  ASSUME TypeOK, NEW r \in Reservation, ExpireLockedOrder(r)
  PROVE  available' \in [Tier -> Nat] /\ order' \in [Reservation -> OrderStatus]
BY BoundAssumption
DEF ExpireLockedOrder, TypeOK, StockTyped, ReservationsTyped, OrdersTyped, OrderStatus, Quantities

\* Applying a status, from whichever handler, keeps the tables it writes well-typed.
LEMMA SettlementTypes ==
  ASSUME TypeOK, NEW r \in Reservation, NEW status \in Answer,
         ApplyGatewayStatus(r, status) \/ UNCHANGED settlementVars
  PROVE  /\ available' \in [Tier -> Nat]
         /\ order' \in [Reservation -> OrderStatus]
         /\ ticketed' \in [Reservation -> BOOLEAN]
         /\ payment' \in [Reservation -> PaymentStatus]
         /\ reconCase' \in [Reservation -> {"NONE", "OPEN", "RESOLVED"}]
         /\ right' \in [Reservation -> {"NONE", "OPEN", "REQUESTED"}]
<1> USE DEF TypeOK, settlementVars
<1>1. CASE UNCHANGED settlementVars
  BY <1>1 DEF StockTyped, OrdersTyped, PaymentsTyped, RefundsTyped
<1>2. CASE RecordFailure(r, status)
  BY <1>2 DEF RecordFailure, StockTyped, OrdersTyped, PaymentsTyped, PaymentStatus, RefundsTyped
<1>3. CASE SettleInTime(r, status)
  BY <1>3 DEF SettleInTime, Pay, StockTyped, OrdersTyped, OrderStatus, PaymentsTyped,
              PaymentStatus, RefundsTyped
<1>4. CASE SettleTooLate(r, status)
  <2>1. available' \in [Tier -> Nat] /\ order' \in [Reservation -> OrderStatus]
    BY <1>4, ExpireTypes, BoundAssumption DEF SettleTooLate, StockTyped, OrdersTyped
  <2>2. ticketed' \in [Reservation -> BOOLEAN] /\ payment' \in [Reservation -> PaymentStatus]
    BY <1>4 DEF SettleTooLate, OrdersTyped, PaymentsTyped, PaymentStatus
  <2>3. /\ reconCase' \in [Reservation -> {"NONE", "OPEN", "RESOLVED"}]
        /\ right' \in [Reservation -> {"NONE", "OPEN", "REQUESTED"}]
    BY <1>4 DEF SettleTooLate, PaymentsTyped, RefundsTyped
  <2> QED
    BY <2>1, <2>2, <2>3
<1> QED
  BY <1>1, <1>2, <1>3, <1>4 DEF ApplyGatewayStatus, IgnoreStatus

\* Notifications and the development simulation keep the tables well-typed.
LEMMA NotifyTypes ==
  ASSUME TypeOK, NEW r \in Reservation, NEW n \in Attempt, NEW status \in Answer,
         Notify(r, n, status)
  PROVE  TypeOK'
BY SettlementTypes
DEF Notify, TypeOK, StockTyped, ReservationsTyped, OrdersTyped, PaymentsTyped, RefundsTyped,
    EventTyped, ProviderTyped, WorkersTyped, reservationVars, eventVars, providerVars

LEMMA SimulateTypes ==
  ASSUME TypeOK, NEW r \in Reservation, Simulate(r)
  PROVE  TypeOK'
<1>1. StockTyped' /\ order' \in [Reservation -> OrderStatus]
  BY ExpireTypes DEF Simulate, Pay, TypeOK, StockTyped, OrdersTyped, OrderStatus
<1>2. ticketed' \in [Reservation -> BOOLEAN] /\ payment' \in [Reservation -> PaymentStatus]
  BY DEF Simulate, Pay, TypeOK, OrdersTyped, PaymentsTyped, PaymentStatus
<1> QED
  BY <1>1, <1>2
  DEF Simulate, TypeOK, ReservationsTyped, OrdersTyped, PaymentsTyped, RefundsTyped,
      EventTyped, ProviderTyped, WorkersTyped, reservationVars, refundVars, eventVars, providerVars

\* A worker that is not idle has a task.
LEMMA BusyWorker ==
  ASSUME TypeOK, NEW w \in Worker, worker[w].step # "idle"
  PROVE  worker[w] \in Task
BY DEF TypeOK, WorkersTyped, Idle

\* The steps of a worker keep the tables well-typed.
LEMMA WorkerTypes ==
  ASSUME TypeOK, NEW w \in Worker, WorkerStepTaken(w) \/ GiveUp(w)
  PROVE  TypeOK'
<1> DEFINE r == worker[w].order
<1> USE DEF stockVars, reservationVars, orderVars, paymentVars, refundVars, eventVars, providerVars
<1>1. ASSUME OnlyWorkerMoves, WorkersTyped' PROVE TypeOK'
  BY <1>1 DEF OnlyWorkerMoves, TypeOK, StockTyped, ReservationsTyped, OrdersTyped,
              PaymentsTyped, RefundsTyped, EventTyped, ProviderTyped
<1>2. ASSUME Finish(w) PROVE WorkersTyped'
  BY <1>2 DEF Finish, TypeOK, WorkersTyped
<1>3. ASSUME worker[w].step # "idle", NEW step \in WorkerStep, Advance(w, step)
      PROVE  WorkersTyped'
  BY <1>3, BusyWorker DEF Advance, TypeOK, WorkersTyped, Task
<1>4. CASE \E o \in Reservation : ReadOrder(w, o)
  <2>1. PICK o \in Reservation : ReadOrder(w, o)
    BY <1>4
  <2>2. attempt[o] \in 0..MaxAttempt
    BY DEF TypeOK, PaymentsTyped
  <2>3. WorkersTyped'
    BY <2>1, <2>2 DEF ReadOrder, TypeOK, WorkersTyped, Task, WorkerStep
  <2> QED
    BY <1>1, <2>1, <2>3 DEF ReadOrder
<1>5. CASE ReadStatus(w)
  BY <1>5, <1>1, <1>2, <1>3 DEF ReadStatus, WorkerStep
<1>6. CASE CancelCharge(w)
  <2>1. WorkersTyped'
    BY <1>6, <1>3 DEF CancelCharge, WorkerStep
  <2>2. charge' \in [Reservation -> [Attempt -> SUBSET Answer]]
    BY <1>6 DEF CancelCharge, Report, TypeOK, ProviderTyped, Answer
  <2> QED
    BY <1>6, <2>1, <2>2 
    DEF CancelCharge, TypeOK, StockTyped, ReservationsTyped, OrdersTyped,
        PaymentsTyped, RefundsTyped, EventTyped, ProviderTyped
<1>7. CASE ConfirmCancel(w)
  BY <1>7, <1>1, <1>2, <1>3 DEF ConfirmCancel, WorkerStep
<1>8. ASSUME worker[w].step # "idle", NEW status \in Answer, ApplyRead(w, status), WorkersTyped'
      PROVE  TypeOK'
  <2>1. r \in Reservation
    BY <1>8, BusyWorker DEF Task
  <2> HIDE DEF r
  <2>2. ApplyGatewayStatus(r, status) \/ UNCHANGED settlementVars
    BY <1>8 DEF ApplyRead, r
  <2> QED
    BY <1>8, <2>1, <2>2, SettlementTypes
    DEF ApplyRead, TypeOK, StockTyped, ReservationsTyped, OrdersTyped, PaymentsTyped,
        RefundsTyped, EventTyped, ProviderTyped
<1>9. CASE ApplySettled(w)
  BY <1>9, <1>2, <1>8 DEF ApplySettled, Answer
<1>10. CASE ApplyFailed(w)
  <2>1. WorkersTyped'
    BY <1>10, <1>2, <1>3 DEF ApplyFailed, WorkerStep
  <2> QED
    BY <1>10, <1>8, <2>1 DEF ApplyFailed, Answer
<1>11. CASE ReleaseOrder(w)
  <2>1. r \in Reservation
    BY <1>11, BusyWorker DEF ReleaseOrder, Task
  <2>2. StockTyped' /\ order' \in [Reservation -> OrderStatus]
    BY <1>11, <2>1, ExpireTypes DEF ReleaseOrder, TypeOK, StockTyped, OrdersTyped
  <2> QED
    BY <1>11, <1>2, <2>2
    DEF ReleaseOrder, TypeOK, ReservationsTyped, OrdersTyped, PaymentsTyped,
        RefundsTyped, EventTyped, ProviderTyped
<1> QED
  BY <1>1, <1>2, <1>4, <1>5, <1>6, <1>7, <1>9, <1>10, <1>11 DEF WorkerStepTaken, GiveUp
\* Refunds, cases and the gate keep the tables well-typed.  The status a refund puts
\* aside is one a refundable order has.
LEMMA RefundTypes ==
  ASSUME TypeOK, RefundNext
  PROVE  TypeOK'
<1> USE DEF TypeOK, untouchedByRefunds, stockVars, reservationVars, orderVars, paymentVars,
            refundVars, eventVars, providerVars
<1> PICK r \in Reservation :
           \/ Submit(r) \/ SubmitEvent(r) \/ FinishRefund(r) \/ CompleteManual(r)
           \/ ResolveCase(r) \/ CheckIn(r)
  BY DEF RefundNext
<1>1. StockTyped'
  BY BoundAssumption
  DEF Submit, SubmitEvent, FinishRefund, CompleteManual, ResolveCase, CheckIn, SucceedRefund,
      FailRefund, RestoreItems, Least, StockTyped, ReservationsTyped, Quantities
<1>2. ReservationsTyped' /\ EventTyped' /\ ProviderTyped' /\ WorkersTyped'
  BY DEF Submit, SubmitEvent, FinishRefund, CompleteManual, ResolveCase, CheckIn,
         ReservationsTyped, EventTyped, ProviderTyped, WorkersTyped
<1>3. OrdersTyped' /\ RefundsTyped'
  <2>1. CASE Submit(r) \/ SubmitEvent(r)
    BY <2>1 DEF Submit, SubmitEvent, Refundable, OpenRefund, OrdersTyped, OrderStatus,
                RefundsTyped, RefundStatus
  <2>2. CASE FinishRefund(r) \/ CompleteManual(r)
    BY <2>2 DEF FinishRefund, CompleteManual, SucceedRefund, FailRefund, OrdersTyped,
                OrderStatus, RefundsTyped, RefundStatus
  <2>3. CASE ResolveCase(r) \/ CheckIn(r)
    BY <2>3 DEF ResolveCase, CheckIn, OrdersTyped, RefundsTyped
  <2> QED
    BY <2>1, <2>2, <2>3
<1>4. PaymentsTyped'
  <2>1. CASE FinishRefund(r) \/ CompleteManual(r) \/ ResolveCase(r)
    BY <2>1 DEF FinishRefund, CompleteManual, SucceedRefund, FailRefund, ResolveCase, PaymentsTyped
  <2>2. CASE Submit(r) \/ SubmitEvent(r) \/ CheckIn(r)
    BY <2>2 DEF Submit, SubmitEvent, CheckIn, PaymentsTyped
  <2> QED
    BY <2>1, <2>2
<1> QED
  BY <1>1, <1>2, <1>3, <1>4

\* Decisions about the event, and the work they leave, keep the tables well-typed.
LEMMA EventTypes ==
  ASSUME TypeOK, EventNext
  PROVE  TypeOK'
<1> USE DEF TypeOK, stockVars, reservationVars, orderVars, paymentVars, eventVars, providerVars
<1>1. ASSUME NEW action \in {"POSTPONED", "RESCHEDULED", "CANCELLED"}, Commit(action)
      PROVE  TypeOK'
  <2>1. /\ StockTyped' /\ ReservationsTyped' /\ OrdersTyped' /\ PaymentsTyped'
        /\ ProviderTyped' /\ WorkersTyped'
    BY <1>1 DEF Commit, StockTyped, ReservationsTyped, OrdersTyped, PaymentsTyped,
                ProviderTyped, WorkersTyped
  <2>2. RefundsTyped'
    BY <1>1 DEF Commit, RefundsTyped
  <2>3. lifecycle' \in Lifecycle /\ version' \in 0..MaxChange /\ version + 1 \in Change
    BY <1>1, BoundAssumption DEF Commit, EventTyped, Lifecycle
  <2>4. paused' \in BOOLEAN /\ openRow' \subseteq stopRow' /\ stopRow' \subseteq Change \X Reservation
    BY <1>1, <2>3, Zenon DEF Commit, EventTyped
  <2> QED
    BY <2>1, <2>2, <2>3, <2>4 DEF EventTyped
<1>2. ASSUME NEW r \in Reservation, CancelReservation(r) PROVE TypeOK'
  BY <1>2, ReservationTypes DEF ReservationNext
<1>3. ASSUME NEW r \in Reservation, RequestRefund(r) PROVE TypeOK'
  BY <1>3
  DEF RequestRefund, StockTyped, ReservationsTyped, OrdersTyped, PaymentsTyped, RefundsTyped,
      EventTyped, ProviderTyped, WorkersTyped
<1>4. ASSUME NEW r \in Reservation, NEW c \in Change, FinishWork(c, r) PROVE TypeOK'
  BY <1>4
  DEF FinishWork, StockTyped, ReservationsTyped, OrdersTyped, PaymentsTyped, RefundsTyped,
      refundVars, EventTyped, ProviderTyped, WorkersTyped
<1>5. CASE Reopen
  BY <1>5
  DEF Reopen, StockTyped, ReservationsTyped, OrdersTyped, PaymentsTyped, RefundsTyped,
      refundVars, EventTyped, ProviderTyped, WorkersTyped
<1> QED
  BY <1>1, <1>2, <1>3, <1>4, <1>5 DEF EventNext, CancelClosedReservation

LEMMA NextTypes ==
  ASSUME TypeOK, [Next]_vars
  PROVE  TypeOK'
<1>1. CASE PaymentNext
  BY <1>1, BeginSnapTypes, SnapTypes, NotifyTypes, SimulateTypes, WorkerTypes DEF PaymentNext
<1>2. CASE UNCHANGED vars
  BY <1>2
  DEF vars, stockVars, reservationVars, orderVars, paymentVars, refundVars, eventVars,
      providerVars, TypeOK, StockTyped, ReservationsTyped, OrdersTyped, PaymentsTyped,
      RefundsTyped, EventTyped, ProviderTyped, WorkersTyped
<1> QED
  BY <1>1, <1>2, ReservationTypes, RefundTypes, EventTypes DEF Next

\* Every value the handlers and workers write fits its column, whatever the
\* interleaving: in particular no counter of stock becomes negative.
THEOREM TypeCorrect == Spec => []TypeOK
  BY InitTypes, NextTypes, PTL DEF Spec
============================================================================
