--------------------------- MODULE EventChanges ---------------------------
(***************************************************************************)
(* An admin postpones, reschedules or cancels the event.  The decision     *)
(* pauses sales and ends the pending orders' deadlines in one transaction; *)
(* a worker then drains what was open, and reopens sales of a rescheduled  *)
(* event when nothing old is left.                                         *)
(***************************************************************************)
EXTENDS Reservations

\* A slip: work that was done counts as open.
OldBusinessEver == (\E r \in Reservation : reservation[r] = "ACTIVE") \/ stopRow # {}

OldBusiness == (\E r \in Reservation : reservation[r] = "ACTIVE") \/ openRow # {}

\* Orders that the decision owes a refund right.
OwedRefund(r) ==
    /\ order[r] \in {"PAID", "REFUND_PENDING"} \/ payment[r] = "SUCCEEDED"
    /\ order[r] # "REFUNDED"

\* commit, with a snapshot that still matches.
Commit(action) ==
    LET pendingOrders == {r \in Reservation : order[r] = "PENDING"}
        rows == {version + 1} \X pendingOrders
    IN
    /\ version < MaxChange
    /\ lifecycle # "CANCELLED"
    /\ paused /\ action # "CANCELLED" => ~OldBusiness
    /\ lifecycle' = action
    /\ version' = version + 1
    /\ paused' = TRUE
    /\ stopRow' = stopRow \cup rows
    /\ openRow' = openRow \cup rows
    /\ due' = [r \in Reservation |-> due[r] \/ r \in pendingOrders]
    /\ right' = [r \in Reservation |->
          IF ~OwedRefund(r) THEN right[r]
          ELSE IF action = "CANCELLED" \/ right[r] = "REQUESTED" THEN "REQUESTED" ELSE "OPEN"]
    /\ UNCHANGED <<stockVars, reservation, items, orderVars, paymentVars, refund,
                   original, providerVars, worker>>

\* Process, first batch: reservations of a paused event.
CancelClosedReservation(r) == paused /\ CancelReservation(r)

\* A slip: the row is done as soon as the worker has looked at it.
FinishAnyWork(c, r) ==
    /\ <<c, r>> \in openRow
    /\ openRow' = openRow \ {<<c, r>>}
    /\ UNCHANGED <<stockVars, reservationVars, orderVars, paymentVars, refundVars,
                   lifecycle, paused, version, stopRow, providerVars, worker>>

\* finishWork: an order that still waits for the provider keeps its row open.
FinishWork(c, r) ==
    /\ <<c, r>> \in openRow
    /\ order[r] # "PENDING"
    /\ openRow' = openRow \ {<<c, r>>}
    /\ UNCHANGED <<stockVars, reservationVars, orderVars, paymentVars, refundVars,
                   lifecycle, paused, version, stopRow, providerVars, worker>>

\* reopen
Reopen ==
    /\ lifecycle = "RESCHEDULED" /\ paused
    /\ ~OldBusiness
    /\ paused' = FALSE
    /\ UNCHANGED <<stockVars, reservationVars, orderVars, paymentVars, refundVars,
                   lifecycle, version, stopRow, openRow, providerVars, worker>>

\* requestRefund, by the buyer while the right lasts.
RequestRefund(r) ==
    /\ right[r] = "OPEN"
    /\ right' = [right EXCEPT ![r] = "REQUESTED"]
    /\ UNCHANGED <<stockVars, reservationVars, orderVars, paymentVars, refund, original,
                   eventVars, providerVars, worker>>

EventNext ==
    \/ \E action \in {"POSTPONED", "RESCHEDULED", "CANCELLED"} : Commit(action)
    \/ \E r \in Reservation :
         \/ CancelClosedReservation(r)
         \/ RequestRefund(r)
         \/ \E c \in Change : FinishWork(c, r)
    \/ Reopen
===========================================================================
