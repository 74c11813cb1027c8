----------------------------- MODULE CaseDesk -----------------------------
(***************************************************************************)
(* A payment reconciliation case on the desk of the administrators, on top *)
(* of their sessions.  A recheck claims the case in one transaction, asks  *)
(* the provider outside of any, and reports in a second one, for which it  *)
(* is authenticated again.  Meanwhile the lease may lapse, another recheck *)
(* may take over, and the case may be closed.                              *)
(*                                                                         *)
(* The provider's knowledge of the payment is a number that grows.         *)
(***************************************************************************)
EXTENDS StaffAccess

CONSTANT MaxTruth    \* a bound: changes at the provider

ASSUME TruthAssumption == MaxTruth \in Nat \ {0}

VARIABLES
    status,    \* payment_reconciliation_cases.status
    claim,     \* check_token: fresh for every recheck, and a token has one at a time
    leased,    \* check_lease_until lies in the future
    limited,   \* the minute of the recheck limit has not passed
    known,     \* provider_status
    truth      \* what the provider would answer

caseVars == <<status, claim, leased, limited, known, truth>>
vars == <<accessVars, caseVars>>

TypeOK ==
    /\ AccessTypeOK
    /\ status \in {"OPEN", "RESOLVED"}
    /\ claim \in Token \cup {Nobody}
    /\ leased \in BOOLEAN /\ limited \in BOOLEAN
    /\ known \in 0..MaxTruth /\ truth \in 1..MaxTruth

Init ==
    /\ AccessInit
    /\ status = "OPEN"
    /\ claim = Nobody /\ leased = FALSE /\ limited = FALSE
    /\ known = 0 /\ truth = 1

\* authorizedTx has succeeded: the locks are held and the role is right.
Authorized(t) == pc[t] = "op" /\ role[holder[t]] = "ADMIN" /\ carried[t] = NoAnswer

---------------------------------------------------------------------------
(* A recheck *)

\* Recheck, first transaction: one a minute, and none while a lease runs.
Recheck(t) ==
    /\ Authorized(t)
    /\ status = "OPEN" /\ ~leased /\ ~limited
    /\ limited' = TRUE
    /\ claim' = t /\ leased' = TRUE
    /\ Goto(t, "asking")
    /\ UNCHANGED <<accounts, logins, carried, bootstrap, status, known, truth>>

\* The provider answers, with 0 for an error, outside of any transaction.
ReadGatewayStatus(t) ==
    /\ pc[t] = "asking"
    /\ \E answer \in {0, truth} : carried' = [carried EXCEPT ![t] = answer]
    /\ Goto(t, "answered")
    /\ UNCHANGED <<accounts, logins, bootstrap, caseVars>>

\* A slip: any open case takes the answer.
StillOpen(t) == status = "OPEN"

\* The claim of t is still the one on the open case.
StillClaimed(t) == status = "OPEN" /\ claim = t

Unclaim == claim' = Nobody /\ leased' = FALSE

\* applyProviderResult
ApplyResult(t) ==
    /\ pc[t] = "op" /\ carried[t] > 0
    /\ StillClaimed(t)
    /\ known' = carried[t]
    /\ Unclaim /\ Release(t)
    /\ UNCHANGED <<accounts, logins, bootstrap, status, limited, truth>>

\* finishProviderFailure, and recordProviderMismatch for an answer that does
\* not fit the payment: only the error is noted.
FinishFailure(t) ==
    /\ pc[t] = "op" /\ carried[t] # NoAnswer
    /\ StillClaimed(t)
    /\ Unclaim /\ Release(t)
    /\ UNCHANGED <<accounts, logins, bootstrap, status, limited, known, truth>>

---------------------------------------------------------------------------
(* What else happens to the case *)

\* ResolveCase; a note alone (AddCaseNote) changes nothing here.
ResolveCase(t) ==
    /\ Authorized(t)
    /\ status = "OPEN" /\ ~leased
    /\ status' = "RESOLVED"
    /\ Unclaim /\ Release(t)
    /\ UNCHANGED <<accounts, logins, bootstrap, limited, known, truth>>

\* finishTx of a refund that has succeeded closes the case, whoever holds it.
FinishRefund ==
    /\ status = "OPEN"
    /\ status' = "RESOLVED"
    /\ UNCHANGED <<accessVars, claim, leased, limited, known, truth>>

\* Thirty seconds after the claim
LeaseLapses ==
    /\ leased /\ leased' = FALSE
    /\ UNCHANGED <<accessVars, status, claim, limited, known, truth>>

\* A minute after the claim, thus after its lease
LimitEnds ==
    /\ limited /\ ~leased /\ limited' = FALSE
    /\ UNCHANGED <<accessVars, status, claim, leased, known, truth>>

ProviderMoves ==
    /\ truth < MaxTruth /\ truth' = truth + 1
    /\ UNCHANGED <<accessVars, status, claim, leased, limited, known>>

CaseNext ==
    \/ \E t \in Token :
          \/ Recheck(t) \/ ReadGatewayStatus(t) \/ ApplyResult(t) \/ FinishFailure(t)
          \/ ResolveCase(t)
    \/ FinishRefund \/ LeaseLapses \/ LimitEnds \/ ProviderMoves

Next == CaseNext \/ (AccessNext /\ UNCHANGED caseVars)

Spec == Init /\ [][Next]_vars

---------------------------------------------------------------------------
(* Correctness *)

\* An answer of the provider is written only into an open case, and never
\* over a newer one, whatever rechecks are under way (check_token).
AnswersInOrder ==
    [][known' # known => status = "OPEN" /\ known' > known]_vars

\* What AnswersInOrder needs: an answer in hand was true when it was read, and nobody
\* has written since if the claim is still there.
CaseInvariant ==
    /\ known <= truth
    /\ \A t \in Token :
           /\ pc[t] = "asking" => carried[t] = NoAnswer
           /\ carried[t] \in -1..truth
           /\ claim = t /\ carried[t] > 0 => known <= carried[t]
===========================================================================
