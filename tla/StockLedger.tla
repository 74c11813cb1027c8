---------------------------- MODULE StockLedger ----------------------------
(***************************************************************************)
(* What ticket sales promise about stock, without payments, deadlines or   *)
(* decisions: every request takes units that are free, is sold at most     *)
(* once, and gives its units back at most once.  The units that are free   *)
(* are counted from the claims themselves; there is no counter to go wrong.*)
(***************************************************************************)
EXTENDS Integers, FiniteSets

CONSTANTS Request, Tier, MaxQuantity, InitialTotal

VARIABLES total, claim, quantity

ledgerVars == <<total, claim, quantity>>

Taken(t) ==
    {u \in Request \X (1..MaxQuantity) :
        claim[u[1]] \in {"held", "sold"} /\ u[2] <= quantity[u[1]][t]}
Free(t) == total[t] - Cardinality(Taken(t))

LedgerInit ==
    /\ total = [t \in Tier |-> InitialTotal]
    /\ claim = [r \in Request |-> "none"]
    /\ quantity = [r \in Request |-> [t \in Tier |-> 0]]

Take(r, q) ==
    /\ claim[r] = "none"
    /\ \A t \in Tier : q[t] <= Free(t)
    /\ claim' = [claim EXCEPT ![r] = "held"]
    /\ quantity' = [quantity EXCEPT ![r] = q]
    /\ UNCHANGED total

Sell(r) ==
    /\ claim[r] = "held"
    /\ claim' = [claim EXCEPT ![r] = "sold"]
    /\ UNCHANGED <<total, quantity>>

GiveBack(r) ==
    /\ claim[r] \in {"held", "sold"}
    /\ claim' = [claim EXCEPT ![r] = "gone"]
    /\ UNCHANGED <<total, quantity>>

\* The house is resized, but never below what is taken.
Resize(t) ==
    /\ total'[t] \in Nat /\ total'[t] >= Cardinality(Taken(t))
    /\ total' = [total EXCEPT ![t] = total'[t]]
    /\ UNCHANGED <<claim, quantity>>

LedgerNext ==
    \/ \E r \in Request :
         \/ \E q \in [Tier -> 0..MaxQuantity] : Take(r, q)
         \/ Sell(r)
         \/ GiveBack(r)
    \/ \E t \in Tier : Resize(t)

LedgerSpec == LedgerInit /\ [][LedgerNext]_ledgerVars
===========================================================================
