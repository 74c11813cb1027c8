---------------------------- MODULE StockProofs ----------------------------
(***************************************************************************)
(* Stock, tickets, money and refunds of TicketSales agree, for every set   *)
(* of reservations and tiers and every value of the bounds.  The argument: *)
(* every handler that writes available_quantity moves exactly one          *)
(* reservation into or out of the reservations that hold stock.            *)
(***************************************************************************)
EXTENDS TicketSalesProofs

---------------------------------------------------------------------------
(* Counting units *)

\* The units that the reservations in H hold, when r holds quantity[r] of them.
Units(H, quantity) ==
    {u \in Reservation \X (1..MaxPerOrder) : u[1] \in H /\ u[2] <= quantity[u[1]]}

\* Units are counted in the natural numbers.
LEMMA UnitsFinite ==
  ASSUME NEW H, NEW quantity
  PROVE  IsFiniteSet(Units(H, quantity)) /\ Cardinality(Units(H, quantity)) \in Nat
<1>1. IsFiniteSet(Reservation \X (1..MaxPerOrder))
  <2>1. IsFiniteSet(1..MaxPerOrder)
    BY FS_Interval, BoundAssumption
  <2> QED
    BY <2>1, FS_Product, ReservationAssumption
<1> QED
  BY <1>1, FS_Subset, FS_CardinalityType DEF Units

\* One more reservation among the holders adds what it holds.
LEMMA OneMoreHolder ==
  ASSUME NEW H \in SUBSET Reservation, NEW r \in Reservation, r \notin H,
         NEW quantity \in [Reservation -> 0..MaxPerOrder]
  PROVE  Cardinality(Units(H \cup {r}, quantity)) = Cardinality(Units(H, quantity)) + quantity[r]
<1> DEFINE own == {r} \X (1..quantity[r])
<1>1. quantity[r] \in Nat /\ quantity[r] <= MaxPerOrder /\ MaxPerOrder \in Nat
  BY BoundAssumption
<1>2. IsFiniteSet(own) /\ Cardinality(own) = quantity[r]
  <2>1. IsFiniteSet(1..quantity[r]) /\ Cardinality(1..quantity[r]) = quantity[r]
    BY <1>1, FS_Interval
  <2>2. IsFiniteSet({r}) /\ Cardinality({r}) = 1
    BY FS_Singleton
  <2>3. IsFiniteSet(own) /\ Cardinality(own) = 1 * quantity[r]
    BY <2>1, <2>2, FS_Product
  <2> QED
    BY <2>3, <1>1
<1>3. Units(H \cup {r}, quantity) = Units(H, quantity) \cup own
  BY <1>1 DEF Units
<1>4. Units(H, quantity) \cap own = {}
  BY DEF Units
<1> HIDE DEF own
<1>5. Cardinality({}) = 0
  BY FS_EmptySet
<1>6. IsFiniteSet(Units(H, quantity)) /\ Cardinality(Units(H, quantity)) \in Nat
  BY UnitsFinite
<1>7. Cardinality(Units(H, quantity) \cup own)
         = Cardinality(Units(H, quantity)) + Cardinality(own) - Cardinality(Units(H, quantity) \cap own)
  BY <1>2, <1>6, FS_Union
<1>8. Cardinality(Units(H, quantity) \cap own) = 0
  BY <1>4, <1>5
<1>9. Cardinality(Units(H \cup {r}, quantity)) = Cardinality(Units(H, quantity) \cup own)
  BY <1>3
<1> QED
  BY <1>1, <1>2, <1>6, <1>7, <1>8, <1>9

---------------------------------------------------------------------------
(* The ledger of available_quantity *)

Holders == {r \in Reservation : Holds(r)}
QuantityOf(t) == [r \in Reservation |-> items[r][t]]

\* What is counted for a tier are the units of the reservations that hold stock.
LEMMA HeldAreUnits ==
  ASSUME NEW t \in Tier
  PROVE  /\ HeldUnits(t) = Units(Holders, QuantityOf(t))
         /\ HeldUnits(t)' = Units(Holders', QuantityOf(t)')
  BY DEF HeldUnits, Units, Holders, QuantityOf

\* A step that moves nobody, and writes no stock, keeps the balance.
LEMMA StockKept ==
  ASSUME StockConserved, UNCHANGED <<capacity, available, items>>, Holders' = Holders
  PROVE  StockConserved'
<1>1. \A t \in Tier : QuantityOf(t)' = QuantityOf(t)
  BY DEF QuantityOf
<1>2. \A t \in Tier : HeldUnits(t)' = HeldUnits(t)
  BY <1>1, HeldAreUnits
<1> QED
  BY <1>2 DEF StockConserved

\* A step that gives the units of r back, capped at the capacity or not, keeps it.
LEMMA StockReturned ==
  ASSUME TypeOK, StockConserved, NEW r \in Reservation, r \in Holders,
         Holders' = Holders \ {r}, UNCHANGED <<capacity, items>>,
         \/ RestoreItems(r)
         \/ available' = [t \in Tier |-> available[t] + items[r][t]]
  PROVE  StockConserved'
<1> SUFFICES ASSUME NEW t \in Tier
             PROVE  available'[t] + Cardinality(HeldUnits(t)') = capacity'[t]
  BY DEF StockConserved
<1> DEFINE rest == Cardinality(Units(Holders', QuantityOf(t)))
<1>1. /\ available[t] \in Nat /\ capacity[t] \in Nat
      /\ items[r][t] \in Nat
      /\ QuantityOf(t) \in [Reservation -> 0..MaxPerOrder]
  BY BoundAssumption DEF TypeOK, StockTyped, ReservationsTyped, Quantities, QuantityOf
<1>2. rest \in Nat
  BY UnitsFinite
<1>3. Cardinality(HeldUnits(t)) = rest + items[r][t]
  <2>1. Holders = Holders' \cup {r} /\ Holders' \in SUBSET Reservation /\ r \notin Holders'
    BY DEF Holders
  <2>2. Cardinality(Units(Holders' \cup {r}, QuantityOf(t)))
          = Cardinality(Units(Holders', QuantityOf(t))) + QuantityOf(t)[r]
    BY <1>1, <2>1, OneMoreHolder
  <2>3. QuantityOf(t)[r] = items[r][t]
    BY DEF QuantityOf
  <2> QED
    BY <2>1, <2>2, <2>3, HeldAreUnits
<1>4. Cardinality(HeldUnits(t)') = rest
  <2>1. QuantityOf(t)' = QuantityOf(t)
    BY DEF QuantityOf
  <2> QED
    BY <2>1, HeldAreUnits
<1>5. available[t] + rest + items[r][t] = capacity[t]
  BY <1>1, <1>2, <1>3 DEF StockConserved
<1>6. available'[t] = available[t] + items[r][t]
  BY <1>1, <1>2, <1>5 DEF RestoreItems, Least
<1> QED
  BY <1>1, <1>2, <1>4, <1>5, <1>6

\* Reserve takes the units it records.
LEMMA StockTaken ==
  ASSUME TypeOK, StockConserved, NEW r \in Reservation, NEW q \in Quantities,
         r \notin Holders, Holders' = Holders \cup {r},
         items' = [items EXCEPT ![r] = q], UNCHANGED capacity,
         available' = [t \in Tier |-> available[t] - q[t]]
  PROVE  StockConserved'
<1> SUFFICES ASSUME NEW t \in Tier
             PROVE  available'[t] + Cardinality(HeldUnits(t)') = capacity'[t]
  BY DEF StockConserved
<1> DEFINE before == Cardinality(HeldUnits(t))
<1>1. /\ available[t] \in Nat /\ capacity[t] \in Nat
      /\ q[t] \in Nat
      /\ QuantityOf(t)' \in [Reservation -> 0..MaxPerOrder]
      /\ QuantityOf(t)'[r] = q[t]
      /\ Holders \in SUBSET Reservation
  BY BoundAssumption DEF TypeOK, StockTyped, ReservationsTyped, Quantities, QuantityOf, Holders
<1>2. Units(Holders, QuantityOf(t)') = Units(Holders, QuantityOf(t))
  BY DEF Units, QuantityOf, TypeOK, ReservationsTyped
<1>3. before = Cardinality(Units(Holders, QuantityOf(t)')) /\ before \in Nat
  BY <1>2, HeldAreUnits, UnitsFinite
<1> HIDE DEF before
<1>4. Cardinality(Units(Holders \cup {r}, QuantityOf(t)')) = before + q[t]
  BY <1>1, <1>3, OneMoreHolder
<1>5. Cardinality(HeldUnits(t)') = before + q[t]
  BY <1>4, HeldAreUnits
<1>6. available[t] + before = capacity[t]
  BY DEF StockConserved, before
<1> QED
  BY <1>1, <1>3, <1>5, <1>6
---------------------------------------------------------------------------
(* Rows that agree *)

RowsAgree ==
    /\ OrdersAreConverted /\ RefundRemembersOrder /\ RefundMatchesOrder
    /\ TicketsKeepStock /\ MoneyMatchesGoods

rowVars == <<reservation, order, ticketed, payment, reconCase, refund, original>>

\* A step that writes none of these rows keeps both.
LEMMA RowsKept ==
  ASSUME RowsAgree, StockConserved, UNCHANGED rowVars, UNCHANGED <<capacity, available, items>>
  PROVE  RowsAgree' /\ StockConserved'
<1>1. RowsAgree'
  BY DEF RowsAgree, rowVars, OrdersAreConverted, RefundRemembersOrder, RefundMatchesOrder,
         TicketsKeepStock, MoneyMatchesGoods
<1>2. Holders' = Holders
  BY DEF Holders, Holds, rowVars
<1> QED
  BY <1>1, <1>2, StockKept

\* An order that is ended leaves the holders, and agrees with its refund.
LEMMA ExpiredRows ==
  ASSUME TypeOK, RowsAgree, StockConserved, NEW r \in Reservation,
         order[r] = "PENDING", ExpireLockedOrder(r),
         UNCHANGED <<capacity, items, reservation, ticketed, refund, original>>
  PROVE  /\ StockConserved'
         /\ OrdersAreConverted' /\ RefundMatchesOrder' /\ TicketsKeepStock'
         /\ \A o \in Reservation : refund[o] = "FAILED" => order'[o] = original'[o]
<1>1. /\ order' \in [Reservation -> OrderStatus]
      /\ order'[r] \in {"CANCELLED", "EXPIRED"}
      /\ \A o \in Reservation \ {r} : order'[o] = order[o]
  BY DEF ExpireLockedOrder, TypeOK, OrdersTyped, OrderStatus
<1>2. r \in Holders /\ Holders' = Holders \ {r}
  <2>1. reservation[r] = "CONVERTED"
    BY DEF RowsAgree, OrdersAreConverted
  <2> QED
    BY <1>1, <2>1 DEF Holders, Holds
<1>3. StockConserved'
  BY <1>2, StockReturned DEF ExpireLockedOrder
<1>4. /\ refund[r] \notin {"REQUESTED", "MANUAL_REQUIRED", "SUCCEEDED"}
      /\ refund[r] = "FAILED" => order[r] = original[r]
  BY DEF RowsAgree, RefundMatchesOrder, RefundRemembersOrder
<1>5. refund[r] = "NONE"
  BY <1>4 DEF TypeOK, RefundsTyped, RefundStatus
<1>6. OrdersAreConverted'
  BY <1>1 DEF RowsAgree, OrdersAreConverted
<1>7. RefundMatchesOrder'
  BY <1>1 DEF RowsAgree, RefundMatchesOrder
<1>8. TicketsKeepStock'
  BY <1>1 DEF RowsAgree, TicketsKeepStock
<1> QED
  BY <1>1, <1>3, <1>5, <1>6, <1>7, <1>8 DEF RowsAgree, RefundRemembersOrder

\* An order that is paid stays among the holders, with a ticket for its money.
LEMMA PaidRows ==
  ASSUME TypeOK, RowsAgree, StockConserved, NEW r \in Reservation,
         order[r] = "PENDING", payment[r] # "SUCCEEDED", Pay(r),
         UNCHANGED <<capacity, available, items, reservation, reconCase, refund, original>>
  PROVE  RowsAgree' /\ StockConserved'
<1>1. /\ order'[r] = "PAID" /\ ticketed'[r] = TRUE /\ payment'[r] = "SUCCEEDED"
      /\ \A o \in Reservation \ {r} :
            order'[o] = order[o] /\ ticketed'[o] = ticketed[o] /\ payment'[o] = payment[o]
  BY DEF Pay, TypeOK, OrdersTyped, PaymentsTyped
<1>2. Holders' = Holders
  BY <1>1 DEF Holders, Holds
<1>3. refund[r] = "NONE"
  BY DEF RowsAgree, RefundRemembersOrder
<1>4. OrdersAreConverted' /\ RefundRemembersOrder' /\ RefundMatchesOrder'
  BY <1>1, <1>3 DEF RowsAgree, OrdersAreConverted, RefundRemembersOrder, RefundMatchesOrder
<1>5. TicketsKeepStock' /\ MoneyMatchesGoods'
  BY <1>1 DEF RowsAgree, TicketsKeepStock, MoneyMatchesGoods
<1> QED
  BY <1>2, <1>4, <1>5, StockKept DEF RowsAgree

\* A payment that is not settled may change in any other way.
LEMMA UnsettledRows ==
  ASSUME TypeOK, RowsAgree, StockConserved, NEW r \in Reservation, NEW status,
         payment[r] # "SUCCEEDED", status # "SUCCEEDED",
         payment' = [payment EXCEPT ![r] = status],
         UNCHANGED <<capacity, available, items, reservation, order, ticketed, reconCase,
                     refund, original>>
  PROVE  RowsAgree' /\ StockConserved'
<1>1. payment'[r] = status /\ \A o \in Reservation \ {r} : payment'[o] = payment[o]
  BY DEF TypeOK, PaymentsTyped
<1>2. Holders' = Holders
  BY DEF Holders, Holds
<1>3. OrdersAreConverted' /\ RefundRemembersOrder' /\ RefundMatchesOrder'
  BY <1>1 DEF RowsAgree, OrdersAreConverted, RefundRemembersOrder, RefundMatchesOrder
<1>4. TicketsKeepStock' /\ MoneyMatchesGoods'
  BY <1>1 DEF RowsAgree, TicketsKeepStock, MoneyMatchesGoods
<1> QED
  BY <1>2, <1>3, <1>4, StockKept DEF RowsAgree

\* Every handler applies a status to rows that agree, and leaves rows that agree.
LEMMA SettlementRows ==
  ASSUME TypeOK, RowsAgree, StockConserved, NEW r \in Reservation, NEW status \in Answer,
         ApplyGatewayStatus(r, status) \/ UNCHANGED settlementVars,
         UNCHANGED <<capacity, items, reservation, refund, original>>
  PROVE  RowsAgree' /\ StockConserved'
<1>1. CASE IgnoreStatus(r, status) \/ UNCHANGED settlementVars
  BY <1>1, RowsKept DEF IgnoreStatus, settlementVars, rowVars
<1>2. CASE RecordFailure(r, status)
  BY <1>2, UnsettledRows DEF RecordFailure
<1>3. CASE SettleInTime(r, status)
  BY <1>3, PaidRows DEF SettleInTime
<1>4. CASE SettleTooLate(r, status)
  <2>1. /\ payment'[r] = "SUCCEEDED" /\ reconCase'[r] # "NONE"
        /\ \A o \in Reservation \ {r} : payment'[o] = payment[o] /\ reconCase'[o] = reconCase[o]
        /\ UNCHANGED ticketed
    BY <1>4 DEF SettleTooLate, TypeOK, PaymentsTyped
  <2>2. MoneyMatchesGoods'
    BY <1>4, <2>1 DEF SettleTooLate, RowsAgree, MoneyMatchesGoods
  <2>3. /\ StockConserved' /\ OrdersAreConverted' /\ RefundMatchesOrder' /\ TicketsKeepStock'
        /\ \A o \in Reservation : refund[o] = "FAILED" => order'[o] = original'[o]
    <3>1. CASE order[r] = "PENDING"
      BY <1>4, <2>1, <3>1, ExpiredRows DEF SettleTooLate
    <3>2. CASE order[r] # "PENDING"
      <4>1. UNCHANGED <<order, available>>
        BY <1>4, <3>2 DEF SettleTooLate
      <4>2. Holders' = Holders
        BY <4>1 DEF Holders, Holds
      <4> QED
        BY <2>1, <4>1, <4>2, StockKept
        DEF RowsAgree, OrdersAreConverted, RefundMatchesOrder, TicketsKeepStock, RefundRemembersOrder
    <3> QED
      BY <3>1, <3>2
  <2>4. RefundRemembersOrder'
    BY <2>1, <2>3 DEF RowsAgree, RefundRemembersOrder
  <2> QED
    BY <2>2, <2>3, <2>4 DEF RowsAgree
<1> QED
  BY <1>1, <1>2, <1>3, <1>4 DEF ApplyGatewayStatus
\* Taking a reservation, giving it back, selling it.
LEMMA ReservationRows ==
  ASSUME TypeOK, RowsAgree, StockConserved, ReservationNext
  PROVE  RowsAgree' /\ StockConserved'
<1> USE DEF orderVars, paymentVars, refundVars, stockVars, reservationVars, rowVars
<1>1. ASSUME NEW r \in Reservation, NEW q \in Quantities, Reserve(r, q)
      PROVE  RowsAgree' /\ StockConserved'
  <2>1. /\ reservation'[r] = "ACTIVE" /\ order[r] = "NONE"
        /\ \A o \in Reservation \ {r} : reservation'[o] = reservation[o]
    BY <1>1 DEF Reserve, TypeOK, ReservationsTyped, RowsAgree, OrdersAreConverted
  <2>2. r \notin Holders /\ Holders' = Holders \cup {r}
    BY <1>1, <2>1 DEF Reserve, Holders, Holds
  <2>3. StockConserved'
    BY <1>1, <2>2, StockTaken DEF Reserve
  <2> QED
    BY <1>1, <2>1, <2>3
    DEF Reserve, RowsAgree, OrdersAreConverted, RefundRemembersOrder, RefundMatchesOrder,
        TicketsKeepStock, MoneyMatchesGoods
<1>2. ASSUME NEW r \in Reservation, NEW status \in {"CANCELLED", "EXPIRED"},
             ReleaseReservation(r, status)
      PROVE  RowsAgree' /\ StockConserved'
  <2>1. /\ reservation[r] = "ACTIVE" /\ reservation'[r] = status /\ order[r] = "NONE"
        /\ \A o \in Reservation \ {r} : reservation'[o] = reservation[o]
    BY <1>2 DEF ReleaseReservation, TypeOK, ReservationsTyped, RowsAgree, OrdersAreConverted
  <2>2. r \in Holders /\ Holders' = Holders \ {r}
    BY <1>2, <2>1 DEF ReleaseReservation, Holders, Holds
  <2>3. StockConserved'
    BY <1>2, <2>2, StockReturned DEF ReleaseReservation
  <2> QED
    BY <1>2, <2>1, <2>3
    DEF ReleaseReservation, RowsAgree, OrdersAreConverted, RefundRemembersOrder,
        RefundMatchesOrder, TicketsKeepStock, MoneyMatchesGoods
<1>3. ASSUME NEW r \in Reservation, DeadlinePasses(r) PROVE RowsAgree' /\ StockConserved'
  BY <1>3, RowsKept DEF DeadlinePasses
<1>4. ASSUME NEW r \in Reservation, Convert(r) \/ Checkout(r)
      PROVE  RowsAgree' /\ StockConserved'
  <2>1. /\ reservation[r] = "ACTIVE" /\ order[r] = "NONE" /\ reservation'[r] = "CONVERTED"
        /\ order'[r] \in {"NONE", "PENDING"}
        /\ \A o \in Reservation \ {r} :
              reservation'[o] = reservation[o] /\ order'[o] = order[o]
    BY <1>4 DEF Convert, Checkout, TypeOK, ReservationsTyped, OrdersTyped, RowsAgree,
                OrdersAreConverted
  <2>2. Holders' = Holders
    BY <1>4, <2>1 DEF Convert, Checkout, Holders, Holds
  <2>3. StockConserved'
    BY <1>4, <2>2, StockKept DEF Convert, Checkout
  <2>4. OrdersAreConverted' /\ RefundMatchesOrder'
    BY <1>4, <2>1 DEF Convert, Checkout, RowsAgree, OrdersAreConverted, RefundMatchesOrder
  <2>5. refund[r] # "FAILED"
    BY <2>1 DEF RowsAgree, RefundRemembersOrder
  <2>6. RefundRemembersOrder'
    BY <1>4, <2>1, <2>5 DEF Convert, Checkout, RowsAgree, RefundRemembersOrder
  <2>7. TicketsKeepStock' /\ MoneyMatchesGoods'
    BY <1>4, <2>1 DEF Convert, Checkout, RowsAgree, TicketsKeepStock, MoneyMatchesGoods
  <2> QED
    BY <2>3, <2>4, <2>6, <2>7 DEF RowsAgree
<1>5. ASSUME NEW t \in Tier, NEW c \in CapacityChoice, SaveTier(t, c)
      PROVE  RowsAgree' /\ StockConserved'
  <2>1. Holders' = Holders /\ \A s \in Tier : QuantityOf(s)' = QuantityOf(s)
    BY <1>5 DEF SaveTier, Holders, Holds, QuantityOf
  <2>2. \A s \in Tier : HeldUnits(s)' = HeldUnits(s)
    BY <2>1, HeldAreUnits
  <2>3. \A s \in Tier : Cardinality(HeldUnits(s)) \in Nat
    BY HeldAreUnits, UnitsFinite
  <2>4. StockConserved'
    BY <1>5, <2>2, <2>3, CapacityAssumption DEF SaveTier, StockConserved, TypeOK, StockTyped
  <2> QED
    BY <1>5, <2>4
    DEF SaveTier, RowsAgree, OrdersAreConverted, RefundRemembersOrder, RefundMatchesOrder,
        TicketsKeepStock, MoneyMatchesGoods
<1> QED
  BY <1>1, <1>2, <1>3, <1>4, <1>5
  DEF ReservationNext, CancelReservation, ExpireReservation

\* Requests to the provider, its notifications, the simulation and the workers.
LEMMA PaymentRows ==
  ASSUME TypeOK, RowsAgree, StockConserved, PaymentNext
  PROVE  RowsAgree' /\ StockConserved'
<1> USE DEF orderVars, paymentVars, refundVars, stockVars, reservationVars, rowVars
<1>1. ASSUME NEW r \in Reservation, BeginSnap(r) PROVE RowsAgree' /\ StockConserved'
  <2>1. CASE payment[r] \in {"NONE", "FAILED"} /\ payment' = [payment EXCEPT ![r] = "PENDING"]
    BY <1>1, <2>1, UnsettledRows DEF BeginSnap
  <2>2. CASE UNCHANGED payment
    BY <1>1, <2>2, RowsKept DEF BeginSnap
  <2> QED
    BY <1>1, <2>1, <2>2 DEF BeginSnap
<1>2. ASSUME NEW r \in Reservation, NEW n \in Attempt,
             \/ CheckMinutesLeft(r, n) \/ CallSnap(r, n) \/ SetSnapURL(r, n) \/ AbandonSnap(r, n)
             \/ ProviderSettles(r, n) \/ ProviderFails(r, n) \/ ProviderUnclear(r, n)
      PROVE  RowsAgree' /\ StockConserved'
  BY <1>2, RowsKept
  DEF CheckMinutesLeft, CallSnap, SetSnapURL, AbandonSnap, ProviderSettles, ProviderFails,
      ProviderUnclear
<1>3. ASSUME NEW r \in Reservation, NEW n \in Attempt, NEW status \in Answer,
             Notify(r, n, status)
      PROVE  RowsAgree' /\ StockConserved'
  BY <1>3, SettlementRows DEF Notify
<1>4. ASSUME NEW r \in Reservation, Simulate(r) PROVE RowsAgree' /\ StockConserved'
  <2>1. CASE ExpireLockedOrder(r) /\ UNCHANGED <<ticketed, payment>>
    BY <1>4, <2>1, ExpiredRows
    DEF Simulate, RowsAgree, RefundRemembersOrder, MoneyMatchesGoods
  <2>2. CASE payment[r] # "SUCCEEDED" /\ Pay(r) /\ UNCHANGED available
    BY <1>4, <2>2, PaidRows DEF Simulate
  <2>3. CASE /\ payment[r] # "SUCCEEDED" /\ payment' = [payment EXCEPT ![r] = "FAILED"]
             /\ UNCHANGED <<available, order, ticketed>>
    BY <1>4, <2>3, UnsettledRows DEF Simulate
  <2> QED
    BY <1>4, <2>1, <2>2, <2>3 DEF Simulate
<1>5. ASSUME NEW w \in Worker, OnlyWorkerMoves \/ CancelCharge(w)
      PROVE  RowsAgree' /\ StockConserved'
  BY <1>5, RowsKept DEF OnlyWorkerMoves, CancelCharge
<1>6. ASSUME NEW w \in Worker, worker[w].step # "idle",
             ApplyRead(w, "settled") \/ ApplyRead(w, "failed")
      PROVE  RowsAgree' /\ StockConserved'
  <2> DEFINE r == worker[w].order
  <2>1. r \in Reservation
    BY <1>6, BusyWorker DEF Task
  <2> HIDE DEF r
  <2>2. ASSUME NEW status \in Answer, ApplyRead(w, status) PROVE RowsAgree' /\ StockConserved'
    <3>1. ApplyGatewayStatus(r, status) \/ UNCHANGED settlementVars
      BY <2>2 DEF ApplyRead, r
    <3> QED
      BY <2>1, <2>2, <3>1, SettlementRows DEF ApplyRead
  <2> QED
    BY <1>6, <2>2 DEF Answer
<1>7. ASSUME NEW w \in Worker, ReleaseOrder(w) PROVE RowsAgree' /\ StockConserved'
  <2> DEFINE r == worker[w].order
  <2>1. r \in Reservation
    BY <1>7, BusyWorker DEF ReleaseOrder, Task
  <2> HIDE DEF r
  <2>2. CASE Releasable(w)
    <3>1. order[r] = "PENDING" /\ ExpireLockedOrder(r)
      BY <1>7, <2>2 DEF ReleaseOrder, Releasable, r
    <3> QED
      BY <1>7, <2>1, <3>1, ExpiredRows
      DEF ReleaseOrder, RowsAgree, RefundRemembersOrder, MoneyMatchesGoods
  <2>3. CASE ~Releasable(w)
    BY <1>7, <2>3, RowsKept DEF ReleaseOrder
  <2> QED
    BY <2>2, <2>3
<1> QED
  BY <1>1, <1>2, <1>3, <1>4, <1>5, <1>6, <1>7
  DEF PaymentNext, WorkerStepTaken, ReadOrder, ReadStatus, ConfirmCancel, ApplySettled,
      ApplyFailed, GiveUp
\* Refunds: the units of a paid order leave the holders when the refund succeeds.
LEMMA RefundRows ==
  ASSUME TypeOK, RowsAgree, StockConserved, RefundNext
  PROVE  RowsAgree' /\ StockConserved'
<1> USE DEF untouchedByRefunds, reservationVars, orderVars, paymentVars, refundVars, stockVars
<1>1. ASSUME NEW r \in Reservation, NEW status \in {"REQUESTED", "MANUAL_REQUIRED"},
             Refundable(r), OpenRefund(r, status),
             UNCHANGED <<capacity, available, reservation, items, ticketed, payment, reconCase>>
      PROVE  RowsAgree' /\ StockConserved'
  <2>1. /\ order[r] \in {"PAID", "CANCELLED", "EXPIRED"} /\ refund[r] = "NONE"
        /\ payment[r] = "SUCCEEDED"
        /\ order'[r] = "REFUND_PENDING" /\ original'[r] = order[r] /\ refund'[r] = status
        /\ \A o \in Reservation \ {r} :
              order'[o] = order[o] /\ original'[o] = original[o] /\ refund'[o] = refund[o]
    BY <1>1 DEF Refundable, OpenRefund, TypeOK, OrdersTyped, RefundsTyped
  <2>2. Holders' = Holders
    BY <1>1, <2>1 DEF Holders, Holds, RowsAgree, OrdersAreConverted
  <2>3. StockConserved' /\ OrdersAreConverted' /\ MoneyMatchesGoods'
    BY <1>1, <2>1, <2>2, StockKept DEF RowsAgree, OrdersAreConverted, MoneyMatchesGoods
  <2>4. RefundRemembersOrder' /\ RefundMatchesOrder'
    BY <1>1, <2>1 DEF RowsAgree, RefundRemembersOrder, RefundMatchesOrder
  <2>5. TicketsKeepStock'
    BY <1>1, <2>1 DEF RowsAgree, TicketsKeepStock
  <2> QED
    BY <2>3, <2>4, <2>5 DEF RowsAgree
<1>2. ASSUME NEW r \in Reservation, refund[r] = "FAILED", SubmitEvent(r)
      PROVE  RowsAgree' /\ StockConserved'
  <2>1. /\ refund'[r] = "MANUAL_REQUIRED" /\ order'[r] = "REFUND_PENDING" /\ UNCHANGED original
        /\ \A o \in Reservation \ {r} : order'[o] = order[o] /\ refund'[o] = refund[o]
    BY <1>2 DEF SubmitEvent, Refundable, TypeOK, OrdersTyped, RefundsTyped
  <2>2. order[r] = original[r] /\ original[r] \in {"PAID", "CANCELLED", "EXPIRED"}
        /\ payment[r] = "SUCCEEDED"
    BY <1>2 DEF RowsAgree, RefundRemembersOrder, TypeOK, RefundsTyped
  <2>3. Holders' = Holders
    BY <1>2, <2>1, <2>2 DEF SubmitEvent, Holders, Holds, RowsAgree, OrdersAreConverted
  <2>4. StockConserved' /\ OrdersAreConverted' /\ MoneyMatchesGoods'
    BY <1>2, <2>1, <2>2, <2>3, StockKept
    DEF SubmitEvent, RowsAgree, OrdersAreConverted, MoneyMatchesGoods
  <2>5. RefundRemembersOrder' /\ RefundMatchesOrder'
    BY <1>2, <2>1, <2>2 DEF SubmitEvent, RowsAgree, RefundRemembersOrder, RefundMatchesOrder
  <2>6. TicketsKeepStock'
    BY <1>2, <2>1, <2>2 DEF SubmitEvent, RowsAgree, TicketsKeepStock
  <2> QED
    BY <2>4, <2>5, <2>6 DEF RowsAgree
<1>3. ASSUME NEW r \in Reservation, refund[r] \in {"REQUESTED", "MANUAL_REQUIRED"},
             SucceedRefund(r) \/ FailRefund(r),
             UNCHANGED <<capacity, reservation, items, ticketed, payment, original>>
      PROVE  RowsAgree' /\ StockConserved'
  <2>1. /\ order[r] = "REFUND_PENDING" /\ original[r] \in {"PAID", "CANCELLED", "EXPIRED"}
        /\ payment[r] = "SUCCEEDED"
    BY <1>3 DEF RowsAgree, RefundMatchesOrder, RefundRemembersOrder, TypeOK, RefundsTyped
  <2>2. \A o \in Reservation \ {r} :
           order'[o] = order[o] /\ refund'[o] = refund[o] /\ reconCase'[o] = reconCase[o]
    BY <1>3 DEF SucceedRefund, FailRefund, TypeOK, OrdersTyped, RefundsTyped, PaymentsTyped
  <2>3. reconCase'[r] = "NONE" <=> reconCase[r] = "NONE"
    BY <1>3 DEF SucceedRefund, FailRefund, TypeOK, PaymentsTyped
  <2>4. OrdersAreConverted' /\ MoneyMatchesGoods'
    BY <1>3, <2>1, <2>2, <2>3 DEF RowsAgree, OrdersAreConverted, MoneyMatchesGoods
  <2>5. CASE SucceedRefund(r)
    <3>1. order'[r] = "REFUNDED" /\ refund'[r] = "SUCCEEDED"
      BY <2>5 DEF SucceedRefund, TypeOK, OrdersTyped, RefundsTyped
    <3>2. StockConserved'
      <4>1. CASE original[r] = "PAID"
        <5>1. r \in Holders /\ Holders' = Holders \ {r}
          BY <1>3, <2>1, <2>2, <3>1, <4>1 DEF Holders, Holds, RowsAgree, OrdersAreConverted
        <5> QED
          BY <1>3, <2>5, <4>1, <5>1, StockReturned DEF SucceedRefund
      <4>2. CASE original[r] # "PAID"
        <5>1. Holders' = Holders
          BY <1>3, <2>1, <2>2, <3>1, <4>2 DEF Holders, Holds, RowsAgree, OrdersAreConverted
        <5> QED
          BY <1>3, <2>5, <4>2, <5>1, StockKept DEF SucceedRefund
      <4> QED
        BY <4>1, <4>2
    <3>3. RefundRemembersOrder' /\ RefundMatchesOrder' /\ TicketsKeepStock'
      BY <1>3, <2>1, <2>2, <3>1
      DEF RowsAgree, RefundRemembersOrder, RefundMatchesOrder, TicketsKeepStock
    <3> QED
      BY <2>4, <3>2, <3>3 DEF RowsAgree
  <2>6. CASE FailRefund(r)
    <3>1. order'[r] = original[r] /\ refund'[r] = "FAILED"
      BY <2>6 DEF FailRefund, TypeOK, OrdersTyped, RefundsTyped
    <3>2. Holders' = Holders
      BY <1>3, <2>1, <2>2, <3>1 DEF Holders, Holds, RowsAgree, OrdersAreConverted
    <3>3. StockConserved'
      BY <1>3, <2>6, <3>2, StockKept DEF FailRefund
    <3>4. RefundRemembersOrder' /\ RefundMatchesOrder' /\ TicketsKeepStock'
      BY <1>3, <2>1, <2>2, <3>1
      DEF RowsAgree, RefundRemembersOrder, RefundMatchesOrder, TicketsKeepStock
    <3> QED
      BY <2>4, <3>3, <3>4 DEF RowsAgree
  <2> QED
    BY <1>3, <2>5, <2>6
<1>4. ASSUME NEW r \in Reservation, ResolveCase(r) \/ CheckIn(r)
      PROVE  RowsAgree' /\ StockConserved'
  <2>1. Holders' = Holders
    BY <1>4 DEF ResolveCase, CheckIn, Holders, Holds
  <2>2. \A o \in Reservation : reconCase'[o] = "NONE" <=> reconCase[o] = "NONE"
    BY <1>4 DEF ResolveCase, CheckIn, TypeOK, PaymentsTyped
  <2>3. StockConserved'
    BY <1>4, <2>1, StockKept DEF ResolveCase, CheckIn
  <2> QED
    BY <1>4, <2>2, <2>3
    DEF ResolveCase, CheckIn, RowsAgree, OrdersAreConverted, RefundRemembersOrder,
        RefundMatchesOrder, TicketsKeepStock, MoneyMatchesGoods
<1> QED
  BY <1>1, <1>2, <1>3, <1>4
  DEF RefundNext, Submit, SubmitEvent, FinishRefund, CompleteManual

\* Decisions about the event move no stock themselves.
LEMMA EventRows ==
  ASSUME TypeOK, RowsAgree, StockConserved, EventNext
  PROVE  RowsAgree' /\ StockConserved'
<1>1. ASSUME NEW r \in Reservation, CancelReservation(r) PROVE RowsAgree' /\ StockConserved'
  BY <1>1, ReservationRows DEF ReservationNext
<1>2. ASSUME \/ \E action \in {"POSTPONED", "RESCHEDULED", "CANCELLED"} : Commit(action)
             \/ \E r \in Reservation : RequestRefund(r)
             \/ \E r \in Reservation, c \in Change : FinishWork(c, r)
             \/ Reopen
      PROVE  RowsAgree' /\ StockConserved'
  BY <1>2, RowsKept
  DEF Commit, RequestRefund, FinishWork, Reopen, rowVars, stockVars, reservationVars, orderVars,
      paymentVars, refundVars
<1> QED
  BY <1>1, <1>2 DEF EventNext, CancelClosedReservation

LEMMA InitRows == Init => RowsAgree /\ StockConserved
<1> SUFFICES ASSUME Init PROVE RowsAgree /\ StockConserved
  OBVIOUS
<1>1. RowsAgree
  BY DEF Init, RowsAgree, OrdersAreConverted, RefundRemembersOrder, RefundMatchesOrder,
         TicketsKeepStock, MoneyMatchesGoods
<1>2. StockConserved
  <2> SUFFICES ASSUME NEW t \in Tier
               PROVE  available[t] + Cardinality(HeldUnits(t)) = capacity[t]
    BY DEF StockConserved
  <2>1. HeldUnits(t) = {}
    BY DEF Init, HeldUnits, Holds
  <2>2. Cardinality({}) = 0
    BY FS_EmptySet
  <2> QED
    BY <2>1, <2>2, CapacityAssumption DEF Init
<1> QED
  BY <1>1, <1>2

LEMMA NextRows ==
  ASSUME TypeOK, RowsAgree, StockConserved, [Next]_vars
  PROVE  RowsAgree' /\ StockConserved'
<1>1. CASE UNCHANGED vars
  BY <1>1, RowsKept
  DEF vars, rowVars, stockVars, reservationVars, orderVars, paymentVars, refundVars
<1> QED
  BY <1>1, ReservationRows, PaymentRows, RefundRows, EventRows DEF Next

---------------------------------------------------------------------------
(* Theorems *)

\* The invariant that the following theorems rest on.
THEOREM SalesInvariantHolds == Spec => []SalesInvariant
<1>1. Init => TypeOK /\ RowsAgree /\ StockConserved
  BY InitTypes, InitRows
<1>2. TypeOK /\ RowsAgree /\ StockConserved /\ [Next]_vars
        => (TypeOK /\ RowsAgree /\ StockConserved)'
  BY NextTypes, NextRows
<1>3. TypeOK /\ RowsAgree /\ StockConserved => SalesInvariant
  BY DEF RowsAgree, SalesInvariant
<1> QED
  BY <1>1, <1>2, <1>3, PTL DEF Spec

\* Whatever buyers, admins, the gate, the provider and the workers do, and in whatever
\* order, the units for sale and the units held add up to the capacity of every tier.
THEOREM StockIsConserved == Spec => []StockConserved
  BY SalesInvariantHolds, PTL DEF SalesInvariant

\* A settled payment has produced tickets or a reconciliation case, and not both.
THEOREM MoneyIsMatched == Spec => []MoneyMatchesGoods
  BY SalesInvariantHolds, PTL DEF SalesInvariant

\* Tickets exist exactly for the orders that kept their stock.
THEOREM TicketsAreBacked == Spec => []TicketsKeepStock
  BY SalesInvariantHolds, PTL DEF SalesInvariant

\* An order waits for a refund, or was refunded, exactly when its refund row says so.
THEOREM RefundsAreMatched == Spec => []RefundMatchesOrder
  BY SalesInvariantHolds, PTL DEF SalesInvariant
============================================================================
