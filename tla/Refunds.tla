------------------------------ MODULE Refunds ------------------------------
(***************************************************************************)
(* Full refunds of settled payments, and what competes with them: the gate *)
(* scanning the tickets, and admins closing reconciliation cases.  A       *)
(* refund is asked for by an admin or by the event-change worker, carried  *)
(* out by the refund worker or by hand, and is kept one per order.         *)
(***************************************************************************)
EXTENDS SalesStore

untouchedByRefunds == <<capacity, reservationVars, ticketed, payment, attempt, redirect,
                        eventVars, providerVars, worker>>

\* What submit asks of an order without a refund.
Refundable(r) ==
    /\ refund[r] = "NONE"
    /\ \/ order[r] = "PAID"
       \/ order[r] \in {"CANCELLED", "EXPIRED"} /\ reconCase[r] = "OPEN"
    /\ payment[r] = "SUCCEEDED"

\* The provider confirms the settlement it would refund.
AutomaticallyRefundable(r) ==
    AutoRefund /\ attempt[r] # 0 /\ "settled" \in charge[r][attempt[r]]

OpenRefund(r, status) ==
    /\ refund' = [refund EXCEPT ![r] = status]
    /\ original' = [original EXCEPT ![r] = order[r]]
    /\ order' = [order EXCEPT ![r] = "REFUND_PENDING"]

\* Submit, by an admin: automatic refunds only, and not once a ticket was used.
Submit(r) ==
    /\ Refundable(r) /\ AutomaticallyRefundable(r) /\ ~used[r]
    /\ OpenRefund(r, "REQUESTED")
    /\ UNCHANGED <<available, used, reconCase, right, untouchedByRefunds>>

\* A slip: a refund that failed stays failed.
SubmitEventOnce(r) ==
    /\ right[r] = "REQUESTED"
    /\ Refundable(r)
    /\ \/ AutomaticallyRefundable(r) /\ OpenRefund(r, "REQUESTED")
       \/ OpenRefund(r, "MANUAL_REQUIRED")
    /\ UNCHANGED <<available, used, reconCase, right, untouchedByRefunds>>

\* SubmitEvent, for a requested right: what the provider cannot refund goes to the
\* manual queue, and so does a refund that failed before.
SubmitEvent(r) ==
    /\ right[r] = "REQUESTED"
    /\ \/ /\ Refundable(r) /\ AutomaticallyRefundable(r)
          /\ OpenRefund(r, "REQUESTED")
       \/ /\ Refundable(r)
          /\ OpenRefund(r, "MANUAL_REQUIRED")
       \/ /\ refund[r] = "FAILED"
          /\ refund' = [refund EXCEPT ![r] = "MANUAL_REQUIRED"]
          /\ order' = [order EXCEPT ![r] = "REFUND_PENDING"]
          /\ UNCHANGED original
    /\ UNCHANGED <<available, used, reconCase, right, untouchedByRefunds>>

\* finishTx, success: the stock of an order that was paid comes back.
SucceedRefund(r) ==
    /\ IF original[r] = "PAID" THEN RestoreItems(r) ELSE UNCHANGED available
    /\ refund' = [refund EXCEPT ![r] = "SUCCEEDED"]
    /\ order' = [order EXCEPT ![r] = "REFUNDED"]
    /\ reconCase' = [reconCase EXCEPT ![r] = IF @ = "OPEN" THEN "RESOLVED" ELSE @]

\* A slip: the order keeps waiting for a refund that has failed.
FailRefundOnly(r) ==
    /\ refund' = [refund EXCEPT ![r] = "FAILED"]
    /\ UNCHANGED <<order, available, reconCase>>

\* finishTx, failure: the order is again what it was.
FailRefund(r) ==
    /\ refund' = [refund EXCEPT ![r] = "FAILED"]
    /\ order' = [order EXCEPT ![r] = original[r]]
    /\ UNCHANGED <<available, reconCase>>

\* finish, from the refund worker: an ended refund is left alone.  RefundQueue shows the
\* steps behind it; that nothing else has moved the row on meanwhile, as the guard says,
\* is its ClaimIsExclusive, so it holds while workers keep within their leases.
FinishRefund(r) ==
    /\ refund[r] = "REQUESTED"
    /\ SucceedRefund(r) \/ FailRefund(r)
    /\ UNCHANGED <<used, original, right, untouchedByRefunds>>

\* CompleteManual
CompleteManual(r) ==
    /\ refund[r] = "MANUAL_REQUIRED"
    /\ payment[r] = "SUCCEEDED"
    /\ SucceedRefund(r)
    /\ UNCHANGED <<used, original, right, untouchedByRefunds>>

\* ResolveCase: a note is all it takes.
ResolveCase(r) ==
    /\ reconCase[r] = "OPEN"
    /\ reconCase' = [reconCase EXCEPT ![r] = "RESOLVED"]
    /\ UNCHANGED <<available, orderVars, refundVars, capacity, reservationVars, payment,
                   attempt, redirect, eventVars, providerVars, worker>>

\* A slip: the ticket alone opens the gate.
CheckInByTicket(r) ==
    /\ ticketed[r] /\ ~used[r]
    /\ lifecycle \in {"SCHEDULED", "RESCHEDULED"}
    /\ used' = [used EXCEPT ![r] = TRUE]
    /\ UNCHANGED <<stockVars, reservationVars, order, ticketed, paymentVars, refundVars,
                   eventVars, providerVars, worker>>

\* CheckIn.  After a change of schedule the date decides too; whether it is the
\* day of the event is left open.
CheckIn(r) ==
    /\ ticketed[r] /\ ~used[r]
    /\ order[r] = "PAID"
    /\ right[r] # "REQUESTED"
    /\ lifecycle \in {"SCHEDULED", "RESCHEDULED"}
    /\ used' = [used EXCEPT ![r] = TRUE]
    /\ UNCHANGED <<stockVars, reservationVars, order, ticketed, paymentVars, refundVars,
                   eventVars, providerVars, worker>>

RefundNext ==
    \E r \in Reservation :
        \/ Submit(r) \/ SubmitEvent(r)
        \/ FinishRefund(r) \/ CompleteManual(r)
        \/ ResolveCase(r) \/ CheckIn(r)
===========================================================================
