---------------------------- MODULE SalesStore ----------------------------
(***************************************************************************)
(* The MySQL tables that ticket sales of one event live in, and the        *)
(* outside world those tables are reconciled with.  Every handler of the   *)
(* backend runs one READ COMMITTED transaction that locks the event row    *)
(* first, then the reservation or order row, so a transaction is one       *)
(* atomic action of the modules that extend this one; what interleaves is  *)
(* whole transactions, calls to the payment provider between them, and     *)
(* values a worker read before it took a lock.                             *)
(*                                                                         *)
(* orders.reservation_id is UNIQUE and payments, refunds and refund rights *)
(* are unique per order, so all of them are indexed by the reservation.    *)
(***************************************************************************)
EXTENDS Integers, FiniteSets

CONSTANTS
    Reservation,      \* reservation ids, each used at most once
    Tier,             \* the event's ticket tiers
    Worker,           \* goroutines that run expireOrderWithMidtrans
    NoOrder,          \* the order of a worker that has none
    InitialCapacity,  \* capacity of every tier when sales start
    CapacityChoice,   \* capacities an admin may save later
    MaxPerOrder,      \* max_per_order of every tier
    MaxAttempt,       \* bound: payment attempts per order
    MaxChange,        \* bound: admin decisions about the event
    Simulation,       \* TRUE in development: the simulate-payment route exists
    AutoRefund,       \* TRUE if the refund allowlist has the payment method
    UnclearAnswers    \* TRUE if the provider may answer what the code cannot use

ASSUME ReservationAssumption == IsFiniteSet(Reservation) /\ NoOrder \notin Reservation
ASSUME CapacityAssumption == InitialCapacity \in Nat /\ CapacityChoice \subseteq Nat
ASSUME BoundAssumption ==
    MaxPerOrder \in Nat \ {0} /\ MaxAttempt \in Nat /\ MaxChange \in Nat
ASSUME ModeAssumption ==
    Simulation \in BOOLEAN /\ AutoRefund \in BOOLEAN /\ UnclearAnswers \in BOOLEAN

Attempt == 1..MaxAttempt
Change == 1..MaxChange

VARIABLES
    capacity, available,          \* ticket_tiers
    reservation, items, due,      \* reservations; due: expires_at has passed
    order, ticketed, used,        \* orders, etickets, ticket_checkins
    payment, attempt, redirect,   \* payments: status, gateway_order_id, redirect_url
    reconCase,                    \* payment_reconciliation_cases
    refund, original, right,      \* order_refunds, event_refund_rights
    lifecycle, paused, version,   \* events
    stopRow, openRow,             \* event_change_orders with stop_pending; unprocessed ones
    charge,                       \* what the provider has said of each attempt
    unclear,                      \* attempts whose status is at present unclear
    snap,                         \* CreateSnap requests in flight
    worker                        \* progress of each expiry worker

stockVars == <<capacity, available>>
reservationVars == <<reservation, items, due>>
orderVars == <<order, ticketed, used>>
paymentVars == <<payment, attempt, redirect, reconCase>>
refundVars == <<refund, original, right>>
eventVars == <<lifecycle, paused, version, stopRow, openRow>>
providerVars == <<charge, unclear, snap>>
vars == <<stockVars, reservationVars, orderVars, paymentVars, refundVars,
          eventVars, providerVars, worker>>

ReservationStatus == {"NONE", "ACTIVE", "CANCELLED", "EXPIRED", "CONVERTED"}
OrderStatus == {"NONE", "PENDING", "PAID", "EXPIRED", "CANCELLED",
                "REFUND_PENDING", "REFUNDED"}
PaymentStatus == {"NONE", "PENDING", "FAILED", "SUCCEEDED"}
\* REQUESTED stands for REQUESTED, PROCESSING and UNKNOWN: the refund worker has it.
RefundStatus == {"NONE", "REQUESTED", "MANUAL_REQUIRED", "SUCCEEDED", "FAILED"}
Lifecycle == {"SCHEDULED", "POSTPONED", "RESCHEDULED", "CANCELLED"}
SnapPhase == {"none", "begun", "calling", "created"}
Answer == {"pending", "failed", "settled"}
WorkerStep == {"status", "cancel", "confirm", "settle", "fail", "release"}

Quantities == [Tier -> 0..MaxPerOrder]
Idle == [step |-> "idle", order |-> NoOrder, attempt |-> 0]
Task == [step : WorkerStep, order : Reservation, attempt : 0..MaxAttempt]

---------------------------------------------------------------------------
(* The event row, as every transaction reads it under its lock. *)

CanSell == lifecycle \in {"SCHEDULED", "RESCHEDULED"} /\ ~paused
Stopped(r) == \E c \in Change : <<c, r>> \in stopRow
PaymentBlocked(r) == ~CanSell \/ Stopped(r)

---------------------------------------------------------------------------
(* Stock.  A reservation keeps its units out of available_quantity until    *)
(* it is cancelled, expired or, once sold, refunded.                       *)

Holds(r) ==
    \/ reservation[r] = "ACTIVE"
    \/ reservation[r] = "CONVERTED" /\ order[r] = "NONE"
    \/ order[r] \in {"PENDING", "PAID"}
    \/ order[r] = "REFUND_PENDING" /\ original[r] = "PAID"

HeldUnits(t) ==
    {u \in Reservation \X (1..MaxPerOrder) : Holds(u[1]) /\ u[2] <= items[u[1]][t]}

Least(a, b) == IF a <= b THEN a ELSE b

\* restoreItems and finishTx: LEAST(capacity, available_quantity + quantity)
RestoreItems(r) ==
    available' = [t \in Tier |-> Least(capacity[t], available[t] + items[r][t])]

\* expireLockedOrder: no cap on the stock it returns, and the status says
\* whether an admin decision or the deadline ended the order
ExpireLockedOrder(r) ==
    /\ available' = [t \in Tier |-> available[t] + items[r][t]]
    /\ order' = [order EXCEPT ![r] = IF Stopped(r) THEN "CANCELLED" ELSE "EXPIRED"]

---------------------------------------------------------------------------
StockTyped == capacity \in [Tier -> Nat] /\ available \in [Tier -> Nat]
ReservationsTyped ==
    /\ reservation \in [Reservation -> ReservationStatus]
    /\ items \in [Reservation -> Quantities]
    /\ due \in [Reservation -> BOOLEAN]
OrdersTyped ==
    /\ order \in [Reservation -> OrderStatus]
    /\ ticketed \in [Reservation -> BOOLEAN] /\ used \in [Reservation -> BOOLEAN]
PaymentsTyped ==
    /\ payment \in [Reservation -> PaymentStatus]
    /\ attempt \in [Reservation -> 0..MaxAttempt]
    /\ redirect \in [Reservation -> 0..MaxAttempt]
    /\ reconCase \in [Reservation -> {"NONE", "OPEN", "RESOLVED"}]
RefundsTyped ==
    /\ refund \in [Reservation -> RefundStatus]
    /\ original \in [Reservation -> {"NONE", "PAID", "CANCELLED", "EXPIRED"}]
    /\ right \in [Reservation -> {"NONE", "OPEN", "REQUESTED"}]
EventTyped ==
    /\ lifecycle \in Lifecycle /\ paused \in BOOLEAN /\ version \in 0..MaxChange
    /\ stopRow \subseteq Change \X Reservation /\ openRow \subseteq stopRow
ProviderTyped ==
    /\ charge \in [Reservation -> [Attempt -> SUBSET Answer]]
    /\ snap \in [Reservation -> [Attempt -> SnapPhase]]
    /\ unclear \subseteq Reservation \X Attempt
WorkersTyped == worker \in [Worker -> Task \cup {Idle}]

\* Every column holds a value of its type; an open row belongs to a stopped order.
TypeOK ==
    /\ StockTyped /\ ReservationsTyped /\ OrdersTyped /\ PaymentsTyped
    /\ RefundsTyped /\ EventTyped /\ ProviderTyped /\ WorkersTyped

Init ==
    /\ capacity = [t \in Tier |-> InitialCapacity]
    /\ available = [t \in Tier |-> InitialCapacity]
    /\ reservation = [r \in Reservation |-> "NONE"]
    /\ items = [r \in Reservation |-> [t \in Tier |-> 0]]
    /\ due = [r \in Reservation |-> FALSE]
    /\ order = [r \in Reservation |-> "NONE"]
    /\ ticketed = [r \in Reservation |-> FALSE]
    /\ used = [r \in Reservation |-> FALSE]
    /\ payment = [r \in Reservation |-> "NONE"]
    /\ attempt = [r \in Reservation |-> 0]
    /\ redirect = [r \in Reservation |-> 0]
    /\ reconCase = [r \in Reservation |-> "NONE"]
    /\ refund = [r \in Reservation |-> "NONE"]
    /\ original = [r \in Reservation |-> "NONE"]
    /\ right = [r \in Reservation |-> "NONE"]
    /\ lifecycle = "SCHEDULED" /\ paused = FALSE /\ version = 0
    /\ stopRow = {} /\ openRow = {}
    /\ charge = [r \in Reservation |-> [n \in Attempt |-> {}]]
    /\ snap = [r \in Reservation |-> [n \in Attempt |-> "none"]]
    /\ unclear = {}
    /\ worker = [w \in Worker |-> Idle]
===========================================================================
