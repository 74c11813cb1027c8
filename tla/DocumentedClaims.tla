-------------------------- MODULE DocumentedClaims --------------------------
(***************************************************************************)
(* Sentences of the repository's documents about late payments, as         *)
(* properties of TicketSales.  TLC refutes each of them; the README says   *)
(* what the code does instead.                                             *)
(***************************************************************************)
EXTENDS TicketSales

\* README.md:20 "Worker mengubah order yang lewat deadline menjadi EXPIRED dan
\* mengembalikan stok": every order past its deadline ends (RunExpiryWorker).
DueOrdersAlwaysEnd ==
    \A r \in Reservation : order[r] = "PENDING" /\ due[r] ~> order[r] # "PENDING"

\* The provider repeats a settlement until the backend has taken note of it.
NotifyFairness ==
    \A r \in Reservation, n \in Attempt : WF_vars(Notify(r, n, "settled"))
NotifiedSpec == FairSpec /\ NotifyFairness

\* README.md:105 "Settlement setelah stok dilepas dicatat sebagai kasus rekonsiliasi":
\* a settlement of an order whose stock was released opens a case (ApplyGatewayStatusTx).
LateSettlementRecorded ==
    \A r \in Reservation, n \in Attempt :
        order[r] \in {"EXPIRED", "CANCELLED"} /\ "settled" \in charge[r][n]
            ~> reconCase[r] # "NONE"
=============================================================================
