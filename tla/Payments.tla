----------------------------- MODULE Payments -----------------------------
(***************************************************************************)
(* Paying an order through Midtrans Snap, and ending the orders whose      *)
(* deadline passed.  A CreateSnap request commits an attempt, calls the    *)
(* provider, and stores the answer in a second transaction; a worker reads *)
(* an order without a lock, asks the provider, and only then locks it.     *)
(* In development simulate-payment settles an order without a provider.    *)
(***************************************************************************)
EXTENDS SalesStore

---------------------------------------------------------------------------
(* The provider, as far as the code can tell.  A charge can be collected    *)
(* until it fails or settles, and the code expects that a settlement may    *)
(* still follow a failure.                                                 *)

Collectable(r, n) == charge[r][n] = {"pending"}

\* What the worker makes of an answer to its status request.  One whose amount is not
\* the order's, or whose status it does not know, it cannot use.
CurrentStatus(r, n) ==
    IF <<r, n>> \in unclear THEN "unclear"
    ELSE IF "settled" \in charge[r][n] THEN "settled"
    ELSE IF "failed" \in charge[r][n] THEN "failed" ELSE "pending"

Report(r, n, status) == charge' = [charge EXCEPT ![r][n] = @ \cup {status}]

ProviderSettles(r, n) ==
    /\ "pending" \in charge[r][n] /\ "settled" \notin charge[r][n]
    /\ Report(r, n, "settled")
    /\ UNCHANGED <<stockVars, reservationVars, orderVars, paymentVars, refundVars,
                   eventVars, unclear, snap, worker>>

ProviderFails(r, n) ==
    /\ Collectable(r, n)
    /\ Report(r, n, "failed")
    /\ UNCHANGED <<stockVars, reservationVars, orderVars, paymentVars, refundVars,
                   eventVars, unclear, snap, worker>>

\* For as long as the provider likes, its answers about an attempt are unclear.
ProviderUnclear(r, n) ==
    /\ UnclearAnswers /\ charge[r][n] # {}
    /\ unclear' \in {unclear \cup {<<r, n>>}, unclear \ {<<r, n>>}}
    /\ UNCHANGED <<stockVars, reservationVars, orderVars, paymentVars, refundVars,
                   eventVars, charge, snap, worker>>

---------------------------------------------------------------------------
(* CreateSnap *)

\* BeginSnap: a failed payment gets a new gateway order id; a pending one without
\* a redirect keeps its id and calls the provider again.
BeginSnap(r) ==
    /\ ~PaymentBlocked(r)
    /\ order[r] = "PENDING" /\ ~due[r]
    /\ \/ /\ payment[r] \in {"NONE", "FAILED"}
          /\ attempt[r] < MaxAttempt
          /\ attempt' = [attempt EXCEPT ![r] = @ + 1]
          /\ payment' = [payment EXCEPT ![r] = "PENDING"]
          /\ redirect' = [redirect EXCEPT ![r] = 0]
          /\ snap' = [snap EXCEPT ![r][attempt[r] + 1] = "begun"]
       \/ /\ payment[r] = "PENDING" /\ redirect[r] = 0
          /\ snap[r][attempt[r]] = "none"
          /\ snap' = [snap EXCEPT ![r][attempt[r]] = "begun"]
          /\ UNCHANGED <<attempt, payment, redirect>>
    /\ UNCHANGED <<stockVars, reservationVars, orderVars, reconCase, refundVars,
                   eventVars, charge, unclear, worker>>

\* CreateSnap reads expires_at again, outside the transaction of BeginSnap.
CheckMinutesLeft(r, n) ==
    /\ snap[r][n] = "begun" /\ ~due[r]
    /\ snap' = [snap EXCEPT ![r][n] = "calling"]
    /\ UNCHANGED <<stockVars, reservationVars, orderVars, paymentVars, refundVars,
                   eventVars, charge, unclear, worker>>

\* callSnap succeeds: the provider now has the charge.
CallSnap(r, n) ==
    /\ snap[r][n] = "calling"
    /\ snap' = [snap EXCEPT ![r][n] = "created"]
    /\ Report(r, n, "pending")
    /\ UNCHANGED <<stockVars, reservationVars, orderVars, paymentVars, refundVars,
                   eventVars, unclear, worker>>

\* A slip: the answer is stored whatever attempt it belongs to.
SetAnySnapURL(r, n) ==
    /\ snap[r][n] = "created"
    /\ ~PaymentBlocked(r) /\ payment[r] = "PENDING"
    /\ redirect' = [redirect EXCEPT ![r] = IF @ = 0 THEN n ELSE @]
    /\ snap' = [snap EXCEPT ![r][n] = "none"]
    /\ UNCHANGED <<stockVars, reservationVars, orderVars, payment, attempt, reconCase,
                   refundVars, eventVars, charge, unclear, worker>>

\* SetSnapURL: refused when blocked, or when the attempt is no longer the pending one.
SetSnapURL(r, n) ==
    /\ snap[r][n] = "created"
    /\ ~PaymentBlocked(r)
    /\ attempt[r] = n /\ payment[r] = "PENDING"
    /\ redirect' = [redirect EXCEPT ![r] = IF @ = 0 THEN n ELSE @]
    /\ snap' = [snap EXCEPT ![r][n] = "none"]
    /\ UNCHANGED <<stockVars, reservationVars, orderVars, payment, attempt, reconCase,
                   refundVars, eventVars, charge, unclear, worker>>

\* The request ends early: under a minute left, provider error, refusal, or crash.
AbandonSnap(r, n) ==
    /\ snap[r][n] # "none"
    /\ snap' = [snap EXCEPT ![r][n] = "none"]
    /\ UNCHANGED <<stockVars, reservationVars, orderVars, paymentVars, refundVars,
                   eventVars, charge, unclear, worker>>

---------------------------------------------------------------------------
(* ApplyGatewayStatusTx, for the payment whose gateway id was found. *)

settlementVars == <<available, order, ticketed, payment, reconCase, right>>

Pay(r) ==
    /\ order' = [order EXCEPT ![r] = "PAID"]
    /\ ticketed' = [ticketed EXCEPT ![r] = TRUE]
    /\ payment' = [payment EXCEPT ![r] = "SUCCEEDED"]

\* The status changes nothing: already settled, or a pending one.
IgnoreStatus(r, status) ==
    /\ payment[r] = "SUCCEEDED" \/ status = "pending"
    /\ UNCHANGED settlementVars

\* A slip: a late failure is recorded over a settlement.
RecordAnyFailure(r, status) ==
    /\ status = "failed"
    /\ payment' = [payment EXCEPT ![r] = "FAILED"]
    /\ UNCHANGED <<available, order, ticketed, reconCase, right>>

RecordFailure(r, status) ==
    /\ payment[r] # "SUCCEEDED" /\ status = "failed"
    /\ payment' = [payment EXCEPT ![r] = "FAILED"]
    /\ UNCHANGED <<available, order, ticketed, reconCase, right>>

\* A slip: whether the order still waits is not asked.
SettleAnyOrder(r, status) ==
    /\ payment[r] # "SUCCEEDED" /\ status = "settled"
    /\ ~PaymentBlocked(r)
    /\ Pay(r)
    /\ UNCHANGED <<available, reconCase, right>>

\* A slip: whether a decision has stopped the order is not asked.
SettleStopped(r, status) ==
    /\ payment[r] # "SUCCEEDED" /\ status = "settled"
    /\ order[r] = "PENDING"
    /\ Pay(r)
    /\ UNCHANGED <<available, reconCase, right>>

SettleInTime(r, status) ==
    /\ payment[r] # "SUCCEEDED" /\ status = "settled"
    /\ order[r] = "PENDING" /\ ~PaymentBlocked(r)
    /\ Pay(r)
    /\ UNCHANGED <<available, reconCase, right>>

\* A slip: the settlement opens a case and leaves the refund to whoever reads it.
SettleWithoutRight(r, status) ==
    /\ payment[r] # "SUCCEEDED" /\ status = "settled"
    /\ order[r] # "PENDING" \/ PaymentBlocked(r)
    /\ IF order[r] = "PENDING" THEN ExpireLockedOrder(r) ELSE UNCHANGED <<available, order>>
    /\ reconCase' = [reconCase EXCEPT ![r] = IF @ = "NONE" THEN "OPEN" ELSE @]
    /\ payment' = [payment EXCEPT ![r] = "SUCCEEDED"]
    /\ UNCHANGED <<ticketed, right>>

\* The order was ended, or sales closed: money without tickets opens a case, and
\* after a decision about the event the buyer's refund is requested as well.
SettleTooLate(r, status) ==
    /\ payment[r] # "SUCCEEDED" /\ status = "settled"
    /\ order[r] # "PENDING" \/ PaymentBlocked(r)
    /\ IF order[r] = "PENDING" THEN ExpireLockedOrder(r) ELSE UNCHANGED <<available, order>>
    /\ reconCase' = [reconCase EXCEPT ![r] = IF @ = "NONE" THEN "OPEN" ELSE @]
    /\ payment' = [payment EXCEPT ![r] = "SUCCEEDED"]
    /\ right' = [right EXCEPT ![r] = IF PaymentBlocked(r) THEN "REQUESTED" ELSE @]
    /\ UNCHANGED ticketed

ApplyGatewayStatus(r, status) ==
    \/ IgnoreStatus(r, status)
    \/ RecordFailure(r, status)
    \/ SettleInTime(r, status)
    \/ SettleTooLate(r, status)

\* MidtransNotification: anything the provider ever said, in any order, any number
\* of times.  An attempt that was replaced is not found and changes nothing.
Notify(r, n, status) ==
    /\ status \in charge[r][n]
    /\ attempt[r] = n
    /\ ApplyGatewayStatus(r, status)
    /\ UNCHANGED <<capacity, reservationVars, used, attempt, redirect, refund, original,
                   eventVars, providerVars, worker>>

\* Simulate (development only)
Simulate(r) ==
    /\ Simulation
    /\ ~PaymentBlocked(r)
    /\ order[r] = "PENDING"
    /\ \/ due[r] /\ ExpireLockedOrder(r) /\ UNCHANGED <<ticketed, payment>>
       \/ ~due[r] /\ payment[r] # "SUCCEEDED" /\ Pay(r) /\ UNCHANGED available
       \/ /\ ~due[r] /\ payment[r] # "SUCCEEDED"
          /\ payment' = [payment EXCEPT ![r] = "FAILED"]
          /\ UNCHANGED <<available, order, ticketed>>
    /\ UNCHANGED <<capacity, reservationVars, used, attempt, redirect, reconCase,
                   refundVars, eventVars, providerVars, worker>>

---------------------------------------------------------------------------
(* expireOrderWithMidtrans, run by the payment-expiry worker for due orders and *)
(* by the event-change worker for stopped ones.                                 *)

Advance(w, step) == worker' = [worker EXCEPT ![w].step = step]
Finish(w) == worker' = [worker EXCEPT ![w] = Idle]
OnlyWorkerMoves == UNCHANGED <<stockVars, reservationVars, orderVars, paymentVars,
                               refundVars, eventVars, providerVars>>

\* The unlocked read: only a pending attempt at the gateway needs the provider.
ReadOrder(w, r) ==
    /\ worker[w].step = "idle"
    /\ order[r] = "PENDING" /\ due[r]
    /\ worker' = [worker EXCEPT ![w] =
           [step |-> IF attempt[r] # 0 /\ payment[r] = "PENDING" THEN "status" ELSE "release",
            order |-> r, attempt |-> attempt[r]]]
    /\ OnlyWorkerMoves

\* A slip: what is not settled is taken for failed.
ReadStatusImpatiently(w) ==
    /\ worker[w].step = "status"
    /\ charge[worker[w].order][worker[w].attempt] # {}
    /\ Advance(w, IF CurrentStatus(worker[w].order, worker[w].attempt) = "settled"
                  THEN "settle" ELSE "fail")
    /\ OnlyWorkerMoves

\* The status request fails for an attempt the provider never received.  An answer
\* the worker cannot use preserves the order and its stock until the next tick.
ReadStatus(w) ==
    /\ worker[w].step = "status"
    /\ LET r == worker[w].order
           n == worker[w].attempt
       IN  /\ charge[r][n] # {}
           /\ \/ CurrentStatus(r, n) = "settled" /\ Advance(w, "settle")
              \/ CurrentStatus(r, n) = "failed"  /\ Advance(w, "fail")
              \/ CurrentStatus(r, n) = "pending" /\ Advance(w, "cancel")
              \/ CurrentStatus(r, n) = "unclear" /\ Finish(w)
    /\ OnlyWorkerMoves

\* The provider refuses to cancel a charge that has ended meanwhile.
CancelCharge(w) ==
    /\ worker[w].step = "cancel"
    /\ Collectable(worker[w].order, worker[w].attempt)
    /\ Report(worker[w].order, worker[w].attempt, "failed")
    /\ Advance(w, "confirm")
    /\ UNCHANGED <<stockVars, reservationVars, orderVars, paymentVars, refundVars,
                   eventVars, unclear, snap>>

\* Only a failure or a settlement confirms the cancellation: anything else, a charge
\* that is still pending included, preserves the order and its stock.
ConfirmCancel(w) ==
    /\ worker[w].step = "confirm"
    /\ LET status == CurrentStatus(worker[w].order, worker[w].attempt) IN
       \/ status = "settled" /\ Advance(w, "settle")
       \/ status = "failed"  /\ Advance(w, "fail")
       \/ status \in {"pending", "unclear"} /\ Finish(w)
    /\ OnlyWorkerMoves

\* applyGatewayStatus for the attempt the worker read, if it is still the order's.
ApplyRead(w, status) ==
    LET r == worker[w].order IN
    /\ IF attempt[r] = worker[w].attempt
       THEN ApplyGatewayStatus(r, status) ELSE UNCHANGED settlementVars
    /\ UNCHANGED <<capacity, reservationVars, used, attempt, redirect, refund, original,
                   eventVars, providerVars>>

ApplySettled(w) ==
    /\ worker[w].step = "settle"
    /\ ApplyRead(w, "settled")
    /\ Finish(w)

ApplyFailed(w) ==
    /\ worker[w].step = "fail"
    /\ ApplyRead(w, "failed")
    /\ IF attempt[worker[w].order] = worker[w].attempt
       THEN Advance(w, "release") ELSE Finish(w)

\* Slips: the release trusts what the worker read, or forgets that an attempt may fail.
ReleasableAsRead(w) == attempt[worker[w].order] = worker[w].attempt
ReleasableUntried(w) ==
    LET r == worker[w].order IN order[r] = "PENDING" /\ due[r] /\ attempt[r] = 0

\* expireOrderLocally's check under the lock
Releasable(w) ==
    LET r == worker[w].order IN
    /\ order[r] = "PENDING" /\ due[r]
    /\ attempt[r] = worker[w].attempt
    /\ ~(attempt[r] # 0 /\ payment[r] = "PENDING")
    /\ payment[r] # "SUCCEEDED"

ReleaseOrder(w) ==
    /\ worker[w].step = "release"
    /\ IF Releasable(w) THEN ExpireLockedOrder(worker[w].order)
                        ELSE UNCHANGED <<available, order>>
    /\ Finish(w)
    /\ UNCHANGED <<capacity, reservationVars, ticketed, used, paymentVars, refundVars,
                   eventVars, providerVars>>

\* A provider call fails, or the process restarts.
GiveUp(w) ==
    /\ worker[w].step # "idle"
    /\ Finish(w)
    /\ OnlyWorkerMoves

WorkerStepTaken(w) ==
    \/ \E r \in Reservation : ReadOrder(w, r)
    \/ ReadStatus(w) \/ CancelCharge(w) \/ ConfirmCancel(w)
    \/ ApplySettled(w) \/ ApplyFailed(w) \/ ReleaseOrder(w)

PaymentNext ==
    \/ \E r \in Reservation : BeginSnap(r) \/ Simulate(r)
    \/ \E r \in Reservation, n \in Attempt :
         \/ CheckMinutesLeft(r, n) \/ CallSnap(r, n) \/ SetSnapURL(r, n) \/ AbandonSnap(r, n)
         \/ ProviderSettles(r, n) \/ ProviderFails(r, n) \/ ProviderUnclear(r, n)
         \/ \E status \in Answer : Notify(r, n, status)
    \/ \E w \in Worker : WorkerStepTaken(w) \/ GiveUp(w)
===========================================================================
