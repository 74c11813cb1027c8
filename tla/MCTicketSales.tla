-------------------------- MODULE MCTicketSales --------------------------
(* TicketSales on small instances; the symmetry is for runs without liveness. *)
EXTENDS DocumentedClaims, TLC

MCSymmetry == Permutations(Reservation) \cup Permutations(Worker)
==========================================================================
