---------------------------- MODULE MCVouchers ----------------------------
(* The instance of Vouchers that TLC checks. *)
EXTENDS Vouchers, TLC

MCTerms ==
    {[kind |-> "PERCENT", value |-> 99, active |-> TRUE, minimum |-> 0],
     [kind |-> "FIXED", value |-> 16000, active |-> TRUE, minimum |-> 100],
     [kind |-> "PERCENT", value |-> 99, active |-> FALSE, minimum |-> 0]}

MCSymmetry == Permutations(Reservation) \cup Permutations(Admin)
===========================================================================
