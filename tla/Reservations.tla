--------------------------- MODULE Reservations ---------------------------
(***************************************************************************)
(* Taking stock and giving it back before payment: the reservation         *)
(* repository, the checkout that turns a reservation into an order, the    *)
(* passing of their shared deadline, and the catalog's capacity edit.      *)
(***************************************************************************)
EXTENDS SalesStore

\* Create: published event, sales open, every tier has the stock.  Unpublishing
\* only closes this action and is not modelled: a Reserve need never happen.
Reserve(r, q) ==
    /\ reservation[r] = "NONE"
    /\ CanSell
    /\ \E t \in Tier : q[t] > 0
    /\ \A t \in Tier : q[t] <= available[t]
    /\ reservation' = [reservation EXCEPT ![r] = "ACTIVE"]
    /\ items' = [items EXCEPT ![r] = q]
    /\ available' = [t \in Tier |-> available[t] - q[t]]
    /\ UNCHANGED <<capacity, due, orderVars, paymentVars, refundVars, eventVars,
                   providerVars, worker>>

\* expires_at goes by.  An order inherits the reservation's deadline.
DeadlinePasses(r) ==
    /\ ~due[r]
    /\ reservation[r] = "ACTIVE" \/ order[r] = "PENDING"
    /\ due' = [due EXCEPT ![r] = TRUE]
    /\ UNCHANGED <<stockVars, reservation, items, orderVars, paymentVars, refundVars,
                   eventVars, providerVars, worker>>

\* A slip: the status is not read again under the lock.
ReleaseUnchecked(r, status) ==
    /\ reservation[r] \in {"ACTIVE", "CANCELLED", "EXPIRED"}
    /\ reservation' = [reservation EXCEPT ![r] = status]
    /\ RestoreItems(r)
    /\ UNCHANGED <<capacity, items, due, orderVars, paymentVars, refundVars, eventVars,
                   providerVars, worker>>

ReleaseReservation(r, status) ==
    /\ reservation[r] = "ACTIVE"
    /\ reservation' = [reservation EXCEPT ![r] = status]
    /\ RestoreItems(r)
    /\ UNCHANGED <<capacity, items, due, orderVars, paymentVars, refundVars, eventVars,
                   providerVars, worker>>

\* Cancel: past the deadline it expires the reservation instead.
CancelReservation(r) ==
    ReleaseReservation(r, IF due[r] THEN "EXPIRED" ELSE "CANCELLED")

\* A slip: the deadline is compared the wrong way round.
ExpireEarly(r) == ~due[r] /\ ReleaseReservation(r, "EXPIRED")

\* expireOne, from the reservation worker or from Get.
ExpireReservation(r) == due[r] /\ ReleaseReservation(r, "EXPIRED")

\* Convert: the compatibility endpoint makes no order.  Past the deadline it
\* rolls back what it wrote, so that case changes nothing.
Convert(r) ==
    /\ CanSell
    /\ reservation[r] = "ACTIVE" /\ ~due[r]
    /\ reservation' = [reservation EXCEPT ![r] = "CONVERTED"]
    /\ UNCHANGED <<stockVars, items, due, orderVars, paymentVars, refundVars,
                   eventVars, providerVars, worker>>

\* A slip: checkout trusts the reservation it read before the lock.
CheckoutStale(r) ==
    /\ order[r] = "NONE"
    /\ CanSell
    /\ reservation[r] \in {"ACTIVE", "EXPIRED"}
    /\ order' = [order EXCEPT ![r] = "PENDING"]
    /\ reservation' = [reservation EXCEPT ![r] = "CONVERTED"]
    /\ UNCHANGED <<stockVars, items, due, ticketed, used, paymentVars, refundVars,
                   eventVars, providerVars, worker>>

\* checkout.Create: a replay finds the order and changes nothing.
Checkout(r) ==
    /\ order[r] = "NONE"
    /\ CanSell
    /\ reservation[r] = "ACTIVE" /\ ~due[r]
    /\ order' = [order EXCEPT ![r] = "PENDING"]
    /\ reservation' = [reservation EXCEPT ![r] = "CONVERTED"]
    /\ UNCHANGED <<stockVars, items, due, ticketed, used, paymentVars, refundVars,
                   eventVars, providerVars, worker>>

\* A slip: the units in use do not bound the new capacity.
SaveTierUnbounded(t, newCapacity) ==
    /\ capacity' = [capacity EXCEPT ![t] = newCapacity]
    /\ available' = [available EXCEPT ![t] = newCapacity - (capacity[t] - @)]
    /\ UNCHANGED <<reservationVars, orderVars, paymentVars, refundVars, eventVars,
                   providerVars, worker>>

\* SaveTier on an existing tier: the units in use bound the new capacity.
SaveTier(t, newCapacity) ==
    LET bound == capacity[t] - available[t] IN
    /\ newCapacity >= bound
    /\ capacity' = [capacity EXCEPT ![t] = newCapacity]
    /\ available' = [available EXCEPT ![t] = newCapacity - bound]
    /\ UNCHANGED <<reservationVars, orderVars, paymentVars, refundVars, eventVars,
                   providerVars, worker>>

ReservationNext ==
    \/ \E r \in Reservation :
         \/ \E q \in Quantities : Reserve(r, q)
         \/ DeadlinePasses(r)
         \/ CancelReservation(r)
         \/ ExpireReservation(r)
         \/ Convert(r)
         \/ Checkout(r)
    \/ \E t \in Tier, c \in CapacityChoice : SaveTier(t, c)
===========================================================================
