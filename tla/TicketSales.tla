---------------------------- MODULE TicketSales ----------------------------
(***************************************************************************)
(* Ticket sales of one event: buyers, admins, the gate, the payment        *)
(* provider and the background workers, all at work on the same tables.    *)
(***************************************************************************)
EXTENDS EventChanges, Payments, Refunds

Next == ReservationNext \/ PaymentNext \/ RefundNext \/ EventNext

Spec == Init /\ [][Next]_vars

---------------------------------------------------------------------------
(* Safety *)

\* Units for sale and units some reservation holds add up to the capacity, for every
\* tier: no release path gives stock back twice or never (restoreItems,
\* expireLockedOrder and finishTx all write available_quantity on their own).
StockConserved ==
    \A t \in Tier : available[t] + Cardinality(HeldUnits(t)) = capacity[t]

\* Money and goods match: a settled payment has produced tickets or a reconciliation
\* case, never both and never neither, whatever order notifications, worker answers,
\* expiry and event decisions arrived in (ApplyGatewayStatusTx).
MoneyMatchesGoods ==
    \A r \in Reservation :
        /\ payment[r] = "SUCCEEDED" <=> (ticketed[r] \/ reconCase[r] # "NONE")
        /\ ~(ticketed[r] /\ reconCase[r] # "NONE")

\* Tickets exist for orders that kept their stock until a refund returned it, and for
\* those only: stock released by expiry is never ticketed (expireLockedOrder against
\* issueAndLoadTickets).
TicketsKeepStock ==
    \A r \in Reservation :
        ticketed[r] <=> \/ order[r] = "PAID"
                        \/ order[r] \in {"REFUND_PENDING", "REFUNDED"} /\ original[r] = "PAID"

\* A Snap answer that comes late never gives a newer attempt the redirect of an older
\* one (SetSnapURL against BeginSnap).
RedirectOfThisAttempt ==
    \A r \in Reservation :
        payment[r] = "PENDING" /\ redirect[r] # 0 => redirect[r] = attempt[r]

\* When an order's stock is released, no attempt of it can still be collected: the
\* worker asked the provider first, and the answer is not stale by the time of the
\* release (expireOrderWithMidtrans; production, where simulate-payment is not routed).
ReleasedIsUncollectable ==
    ~Simulation => \A r \in Reservation :
        order[r] \in {"EXPIRED", "CANCELLED"} =>
            \A n \in Attempt : ~Collectable(r, n)

\* While the event sells, no order stopped by an earlier decision is still waiting for
\* its payment (reopen against finishWork and the worker's reconciliation).
SellingMeansDrained ==
    CanSell => \A r \in Reservation : Stopped(r) => order[r] # "PENDING"

\* While sales are closed by a decision, everyone whose money is in and not returned
\* has a refund right, and after a cancellation it is already requested, also when the
\* money came in after the decision (commit and ApplyGatewayStatusTx).
ClosedEventOwesRefunds ==
    ~CanSell => \A r \in Reservation :
        payment[r] = "SUCCEEDED" /\ order[r] # "REFUNDED" =>
            /\ right[r] # "NONE"
            /\ lifecycle = "CANCELLED" => right[r] = "REQUESTED"

\* The refund row and the order tell the same story: an order waits for a refund or is
\* refunded exactly when its refund says so (submit, finishTx, CompleteManual and the
\* payment handlers that also write orders.status).
RefundMatchesOrder ==
    \A r \in Reservation :
        /\ order[r] = "REFUND_PENDING" <=> refund[r] \in {"REQUESTED", "MANUAL_REQUIRED"}
        /\ order[r] = "REFUNDED" <=> refund[r] = "SUCCEEDED"

---------------------------------------------------------------------------
(* What makes the safety properties inductive *)

\* orders.reservation_id: checkout converts the reservation it sells, and nothing
\* touches a converted reservation again.
OrdersAreConverted ==
    \A r \in Reservation : order[r] # "NONE" => reservation[r] = "CONVERTED"

\* A refund remembers what its order was, and a failed one has put it back.
RefundRemembersOrder ==
    \A r \in Reservation :
        /\ refund[r] # "NONE" => original[r] # "NONE" /\ payment[r] = "SUCCEEDED"
        /\ refund[r] = "FAILED" => order[r] = original[r]

\* The inductive invariant behind stock, tickets, refunds and refund rights.
SalesInvariant ==
    /\ OrdersAreConverted /\ RefundRemembersOrder /\ RefundMatchesOrder
    /\ StockConserved /\ TicketsKeepStock /\ MoneyMatchesGoods

\* What the provider has been told and has said, attempt by attempt: an attempt that
\* was replaced, or whose failure or settlement the payment row records, has ended at
\* the provider, and so has the one a worker is about to record.
ProviderKnows ==
    \A r \in Reservation :
        /\ attempt[r] = 0 <=> payment[r] = "NONE"
        /\ \A n \in Attempt :
             /\ n < attempt[r] => "failed" \in charge[r][n]
             /\ n > attempt[r] => charge[r][n] = {} /\ snap[r][n] = "none"
             /\ n = attempt[r] /\ payment[r] = "FAILED" => "failed" \in charge[r][n]
             /\ n = attempt[r] /\ payment[r] = "SUCCEEDED" => "settled" \in charge[r][n]
        /\ order[r] \notin {"NONE", "PENDING"} => payment[r] # "PENDING"
WorkersKnow ==
    \A w \in Worker : worker[w].step \notin {"idle", "release"} =>
        /\ worker[w].attempt # 0 /\ worker[w].attempt <= attempt[worker[w].order]
        /\ worker[w].step = "settle" => "settled" \in charge[worker[w].order][worker[w].attempt]
        /\ worker[w].step = "fail" => "failed" \in charge[worker[w].order][worker[w].attempt]

\* The inductive invariant behind the release of stock, without the simulation.
ReleaseInvariant ==
    ~Simulation => ProviderKnows /\ WorkersKnow

\* What event_change_orders knows: an order that was stopped exists, and as long as it
\* waits for its payment every row that stopped it is open (commit, finishWork).
StopsAreTracked ==
    \A c \in Change, r \in Reservation :
        <<c, r>> \in stopRow =>
            /\ order[r] # "NONE"
            /\ order[r] = "PENDING" => <<c, r>> \in openRow

\* The inductive invariant behind the decisions about the event.
DecisionInvariant == StopsAreTracked /\ SellingMeansDrained /\ ClosedEventOwesRefunds

---------------------------------------------------------------------------
(* What a step may never do *)

\* An order stopped by a decision is never paid afterwards, and ends as CANCELLED, not
\* as EXPIRED: also when sales have reopened, and when a settlement arrives first
\* (PaymentBlocked, expireLockedOrder).
StoppedNeverSold ==
    [][\A r \in Reservation :
          order[r] = "PENDING" /\ Stopped(r) => order'[r] \in {"PENDING", "CANCELLED"}]_vars

\* A settlement, and a refund, are final: duplicates, late failures, new attempts and
\* late worker answers never undo them (ApplyGatewayStatusTx, BeginSnap, finishTx).
SettlementIsFinal ==
    [][\A r \in Reservation :
          /\ payment[r] = "SUCCEEDED" => payment'[r] = "SUCCEEDED"
          /\ order[r] = "REFUNDED" => order'[r] = "REFUNDED"]_vars

\* Nobody enters on a ticket that is being refunded or was refunded, while the gate and
\* the refund desk work on the same order (CheckIn against submit and finishTx).
NoEntryOnRefund ==
    [][\A r \in Reservation :
          refund[r] \in {"REQUESTED", "MANUAL_REQUIRED", "SUCCEEDED"} => (used'[r] <=> used[r])]_vars

---------------------------------------------------------------------------
(* Refinement: the tables implement the ledger. *)

Claim(r) ==
    IF reservation[r] = "NONE" THEN "none"
    ELSE IF order[r] = "PAID" \/ (order[r] = "REFUND_PENDING" /\ original[r] = "PAID") THEN "sold"
    ELSE IF Holds(r) THEN "held"
    ELSE "gone"

Ledger == INSTANCE StockLedger WITH
    Request <- Reservation, MaxQuantity <- MaxPerOrder, InitialTotal <- InitialCapacity,
    total <- capacity, quantity <- items,
    claim <- [r \in Reservation |-> Claim(r)]

\* Every step of the backend is a step of the ledger or does not concern it.
ImplementsLedger == Ledger!LedgerSpec

---------------------------------------------------------------------------
(* Liveness.  The workers run on a ticker for ever and retry what failed, and a     *)
(* provider that is down comes back: a step of a worker that is enabled again and   *)
(* again is taken; a call that gets no answer times out.  Buyers, admins, the gate, *)
(* the provider, and whoever ends a refund, owe nothing.                            *)

WorkerFairness ==
    /\ \A w \in Worker :
        /\ \A r \in Reservation : SF_vars(ReadOrder(w, r))
        /\ SF_vars(ReadStatus(w)) /\ SF_vars(CancelCharge(w)) /\ SF_vars(ConfirmCancel(w))
        /\ SF_vars(ApplySettled(w)) /\ SF_vars(ApplyFailed(w)) /\ SF_vars(ReleaseOrder(w))
        /\ WF_vars(GiveUp(w))
    /\ \A r \in Reservation :
        /\ WF_vars(ExpireReservation(r))
        /\ WF_vars(CancelClosedReservation(r))
        /\ \A c \in Change : WF_vars(FinishWork(c, r))
        /\ WF_vars(SubmitEvent(r))
    /\ WF_vars(Reopen)

FairSpec == Spec /\ WorkerFairness

\* A reservation whose deadline passed, or whose event was paused, gives its stock back.
ReservationsEnd ==
    \A r \in Reservation :
        reservation[r] = "ACTIVE" /\ (due[r] \/ paused) ~> reservation[r] # "ACTIVE"

\* The provider has no word of the order's current attempt.
UnknownToProvider(r) ==
    payment[r] = "PENDING" /\ charge[r][attempt[r]] = {}

\* The provider's answer about the order's current attempt is one the worker cannot use:
\* another amount, a status it does not know, or no end after a cancellation.
AnsweredUnclearly(r) ==
    payment[r] = "PENDING" /\ <<r, attempt[r]>> \in unclear

\* An order past its deadline ends, in spite of failing calls, restarts, settlements and
\* cancellations on the way, unless its attempt never reached the provider, or the
\* provider again and again gives an answer the worker cannot use: an order that is
\* still due when such an answer has passed must end as well (RunExpiryWorker,
\* ReconcileClosedOrder, expireOrderWithMidtrans).
DueOrdersEnd ==
    \A r \in Reservation :
        order[r] = "PENDING" /\ due[r]
            ~> order[r] # "PENDING" \/ UnknownToProvider(r) \/ AnsweredUnclearly(r)

\* A rescheduled event sells again once its old orders are settled, or there is another
\* decision, or an order that the decision stopped waits for an attempt that never
\* reached the provider or about which it keeps giving answers the worker cannot use
\* (Process, reopen).
SalesReopen ==
    lifecycle = "RESCHEDULED" /\ paused
        ~> \/ ~paused \/ lifecycle # "RESCHEDULED"
           \/ \E r \in Reservation :
                 /\ order[r] = "PENDING" /\ Stopped(r)
                 /\ UnknownToProvider(r) \/ AnsweredUnclearly(r)

\* A requested refund right of a settled payment always leads to a refund that somebody
\* works on or has ended, also after an earlier refund that failed, unless an admin has
\* closed the case without one (Process's third batch, submit).
OwedRefundsHandled ==
    \A r \in Reservation :
        right[r] = "REQUESTED" /\ payment[r] = "SUCCEEDED"
            ~> \/ refund[r] \in {"REQUESTED", "MANUAL_REQUIRED", "SUCCEEDED"}
               \/ refund[r] = "NONE" /\ reconCase[r] = "RESOLVED"
===========================================================================
