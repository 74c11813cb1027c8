---------------------------- MODULE RefundQueue ----------------------------
(***************************************************************************)
(* The refund worker at work on one row of order_refunds, from the request *)
(* to its end: what TicketSales takes as one step FinishRefund.  A worker  *)
(* claims the row under a lease, talks to the provider without any lock,   *)
(* and writes the outcome; another process may claim the row meanwhile.    *)
(* Rows do not influence each other: that a worker claims ten of them at a *)
(* time matters only because the last one may wait longer than its lease.  *)
(***************************************************************************)
EXTENDS Naturals

CONSTANTS
    Worker,      \* backend processes, each with one refund worker
    NoWorker     \* claim_token IS NULL

ASSUME WorkerAssumption == NoWorker \notin Worker

VARIABLES
    prompt,      \* in this behaviour no worker outlives the lease of its batch
    status,      \* order_refunds.status
    claim,       \* claim_token; a worker has at most one claim on the row
    leased,      \* lease_until lies in the future
    overdue,     \* retry_deadline has passed
    job,         \* what each worker is about to do
    money,       \* the provider's word on the transaction
    underway,    \* a request the client gave up on may still arrive
    handPaid     \* an admin has transferred the money by hand

vars == <<prompt, status, claim, leased, overdue, job, money, underway, handPaid>>

Status == {"REQUESTED", "PROCESSING", "UNKNOWN", "MANUAL_REQUIRED", "SUCCEEDED", "FAILED"}
Ended == {"SUCCEEDED", "FAILED"}
Step == {"idle", "check", "send", "confirm", "reconcile", "succeed", "fail", "release"}
\* The provider has refunded nothing, works on it, has refunded in full, or failed.
Money == {"settlement", "refunding", "refund", "refund_failed"}

TypeOK ==
    /\ prompt \in BOOLEAN
    /\ status \in Status /\ claim \in Worker \cup {NoWorker}
    /\ leased \in BOOLEAN /\ overdue \in BOOLEAN
    /\ job \in [Worker -> Step]
    /\ money \in Money /\ underway \in BOOLEAN /\ handPaid \in BOOLEAN

\* submit has just inserted the row, for a settlement the provider confirmed.
Init ==
    /\ prompt \in BOOLEAN
    /\ status = "REQUESTED" /\ claim = NoWorker /\ leased = FALSE /\ overdue = FALSE
    /\ job = [w \in Worker |-> "idle"]
    /\ money = "settlement" /\ underway = FALSE /\ handPaid = FALSE

Become(w, step) == job' = [job EXCEPT ![w] = step]

---------------------------------------------------------------------------
(* The provider and the clock *)

\* The provider takes a request it has not seen; a repeated refund_key changes nothing.
Accepted == IF money = "settlement" THEN "refunding" ELSE money

ProviderDecides ==
    /\ money = "refunding"
    /\ money' \in {"refund", "refund_failed"}
    /\ UNCHANGED <<prompt, status, claim, leased, overdue, job, underway, handPaid>>

\* A request arrives after its sender timed out, or never.
StragglerEnds ==
    /\ underway
    /\ underway' = FALSE
    /\ money' \in {money, Accepted}
    /\ UNCHANGED <<prompt, status, claim, leased, overdue, job, handPaid>>

\* Three minutes are longer than a request can be under way.
LeaseLapses ==
    /\ leased /\ ~underway
    /\ prompt => \A w \in Worker : job[w] = "idle"
    /\ leased' = FALSE
    /\ UNCHANGED <<prompt, status, claim, overdue, job, money, underway, handPaid>>

RetryDeadlinePasses ==
    /\ ~overdue
    /\ overdue' = TRUE
    /\ UNCHANGED <<prompt, status, claim, leased, job, money, underway, handPaid>>

---------------------------------------------------------------------------
(* The worker *)

\* A slip: the lease of another worker is not asked for.
ClaimAnyway(w) ==
    /\ job[w] = "idle"
    /\ status \in {"REQUESTED", "PROCESSING", "UNKNOWN"}
    /\ Become(w, IF status = "REQUESTED" THEN "send"
                 ELSE IF status = "PROCESSING" THEN "check" ELSE "reconcile")
    /\ status' = IF status = "UNKNOWN" THEN "UNKNOWN" ELSE "PROCESSING"
    /\ claim' = w /\ leased' = TRUE
    /\ UNCHANGED <<prompt, overdue, money, underway, handPaid>>

\* A slip: an outcome that is unknown once is never looked at again.
ClaimKnown(w) ==
    /\ job[w] = "idle"
    /\ status = "REQUESTED" \/ (status = "PROCESSING" /\ ~leased)
    /\ Become(w, IF status = "REQUESTED" THEN "send" ELSE "check")
    /\ status' = "PROCESSING"
    /\ claim' = w /\ leased' = TRUE
    /\ UNCHANGED <<prompt, overdue, money, underway, handPaid>>

\* claimRefunds: a row nobody has a live lease on.  One that was being processed may
\* have been sent, so the provider is asked first; one of unknown outcome is only read.
Claim(w) ==
    /\ job[w] = "idle"
    /\ \/ status = "REQUESTED"
       \/ status \in {"PROCESSING", "UNKNOWN"} /\ ~leased
    /\ Become(w, IF status = "REQUESTED" THEN "send"
                 ELSE IF status = "PROCESSING" THEN "check" ELSE "reconcile")
    /\ status' = IF status = "UNKNOWN" THEN "UNKNOWN" ELSE "PROCESSING"
    /\ claim' = w /\ leased' = TRUE
    /\ UNCHANGED <<prompt, overdue, money, underway, handPaid>>

\* A slip: a refund the provider has only begun counts as done.
ReadProviderHopefully(w) ==
    /\ job[w] \in {"check", "reconcile"}
    /\ Become(w, IF money \in {"refunding", "refund"} THEN "succeed"
                 ELSE IF money = "refund_failed" THEN "fail"
                 ELSE IF job[w] = "check" THEN "send" ELSE "release")
    /\ UNCHANGED <<prompt, status, claim, leased, overdue, money, underway, handPaid>>

\* readStatus and finishFromProvider: only a final word ends the refund, and only a
\* row that was being processed is sent again.
ReadProvider(w) ==
    /\ job[w] \in {"check", "reconcile"}
    /\ Become(w, CASE money = "refund"        -> "succeed"
                   [] money = "refund_failed" -> "fail"
                   [] money = "settlement" /\ job[w] = "check" -> "send"
                   [] OTHER -> "release")
    /\ UNCHANGED <<prompt, status, claim, leased, overdue, money, underway, handPaid>>

\* send: accepted, refused for sure, or an error that leaves the outcome open.
Send(w) ==
    /\ job[w] = "send" /\ ~overdue
    /\ \/ money' = Accepted /\ Become(w, "release") /\ UNCHANGED underway
       \/ money' = money /\ Become(w, "release") /\ underway' \in {underway, TRUE}
       \/ money' = money /\ Become(w, "confirm") /\ UNCHANGED underway
    /\ UNCHANGED <<prompt, status, claim, leased, overdue, handPaid>>

SendTooLate(w) ==
    /\ job[w] = "send" /\ overdue
    /\ Become(w, "release")
    /\ UNCHANGED <<prompt, status, claim, leased, overdue, money, underway, handPaid>>

\* A refusal counts only if the provider's status shows an untouched settlement.
ConfirmRejection(w) ==
    /\ job[w] = "confirm"
    /\ Become(w, IF money = "settlement" THEN "fail" ELSE "release")
    /\ UNCHANGED <<prompt, status, claim, leased, overdue, money, underway, handPaid>>

\* A status request gets no answer.
StatusFails(w) ==
    /\ job[w] \in {"check", "confirm", "reconcile"}
    /\ Become(w, "release")
    /\ UNCHANGED <<prompt, status, claim, leased, overdue, money, underway, handPaid>>

\* finishTx: whoever comes first ends the refund; the claim is not looked at.
FinishAs(outcome) == status' = IF status \in Ended THEN status ELSE outcome

Succeed(w) ==
    /\ job[w] = "succeed"
    /\ FinishAs("SUCCEEDED") /\ Become(w, "idle")
    /\ UNCHANGED <<prompt, claim, leased, overdue, money, underway, handPaid>>

Fail(w) ==
    /\ job[w] = "fail"
    /\ FinishAs("FAILED") /\ Become(w, "idle")
    /\ UNCHANGED <<prompt, claim, leased, overdue, money, underway, handPaid>>

\* A slip: what was not finished goes back to where it was.
ReleaseForRetry(w) ==
    /\ job[w] = "release" /\ Become(w, "idle")
    /\ IF claim = w /\ status \in {"PROCESSING", "UNKNOWN"}
       THEN status' = "REQUESTED" /\ claim' = NoWorker /\ leased' = FALSE
       ELSE UNCHANGED <<status, claim, leased>>
    /\ UNCHANGED <<prompt, overdue, money, underway, handPaid>>

\* releaseClaim: the outcome is unknown, unless the claim is no longer this worker's.
ReleaseClaim(w) ==
    /\ job[w] = "release" /\ Become(w, "idle")
    /\ IF claim = w /\ status \in {"PROCESSING", "UNKNOWN"}
       THEN status' = "UNKNOWN" /\ claim' = NoWorker /\ leased' = FALSE
       ELSE UNCHANGED <<status, claim, leased>>
    /\ UNCHANGED <<prompt, overdue, money, underway, handPaid>>

\* The process restarts, or its write fails: the row keeps the claim until its lease lapses.
Crash(w) ==
    /\ job[w] # "idle"
    /\ Become(w, "idle")
    /\ UNCHANGED <<prompt, status, claim, leased, overdue, money, underway, handPaid>>

---------------------------------------------------------------------------
(* The manual queue *)

\* SubmitEvent on a refund that failed
RequireManual ==
    /\ status = "FAILED"
    /\ status' = "MANUAL_REQUIRED"
    /\ UNCHANGED <<prompt, claim, leased, overdue, job, money, underway, handPaid>>

\* A slip: an admin need not wait until the provider's word is final.
CompleteUnknown ==
    /\ status \in {"MANUAL_REQUIRED", "UNKNOWN"}
    /\ status' = "SUCCEEDED" /\ handPaid' = TRUE
    /\ UNCHANGED <<prompt, claim, leased, overdue, job, money, underway>>

\* CompleteManual, after the transfer
CompleteManual ==
    /\ status = "MANUAL_REQUIRED"
    /\ status' = "SUCCEEDED" /\ handPaid' = TRUE
    /\ UNCHANGED <<prompt, claim, leased, overdue, job, money, underway>>

---------------------------------------------------------------------------
Work(w) ==
    \/ ReadProvider(w) \/ Send(w) \/ SendTooLate(w) \/ ConfirmRejection(w)
    \/ StatusFails(w) \/ Succeed(w) \/ Fail(w) \/ ReleaseClaim(w) \/ Crash(w)

Next ==
    \/ ProviderDecides \/ StragglerEnds \/ LeaseLapses \/ RetryDeadlinePasses
    \/ \E w \in Worker : Claim(w) \/ Work(w)
    \/ RequireManual \/ CompleteManual

Spec == Init /\ [][Next]_vars

---------------------------------------------------------------------------
\* Nobody acts on the row without its claim: as long as batches end within their
\* leases, the worker that is about to send, confirm or finish is the one the row names
\* (claimRefunds' lease against finish, which does not look at the claim).
ClaimIsExclusive ==
    prompt =>
        \A w \in Worker : job[w] # "idle" => claim = w /\ leased

\* A refund is failed, or about to be, only when the provider has not paid and has no
\* request left that it could still act on: an outcome that is open, for a timeout or a
\* restart, is not taken for a failure (deliverRequested, reconcile).
FailureIsFinal ==
    (prompt /\ (status \in {"FAILED", "MANUAL_REQUIRED"} \/ \E w \in Worker : job[w] = "fail"))
        => money \in {"settlement", "refund_failed"} /\ ~underway

\* The buyer is paid back at most once: not by the provider and by hand as well, in spite
\* of timeouts, stragglers, restarts, and refusals (deliverRequested, CompleteManual).
PaidBackOnce ==
    prompt => ~(handPaid /\ (money \in {"refunding", "refund"} \/ underway))

\* A refund that says SUCCEEDED has been paid (finishFromProvider, CompleteManual), also
\* when workers outlive their leases.
SuccessIsPaid == status = "SUCCEEDED" => money = "refund" \/ handPaid

\* What makes them inductive: the step a worker is at says which status the row has and,
\* before the provider is asked, that nothing was refunded; a straggler means an untouched
\* settlement that nobody is about to decide on, and money paid by hand has ended the
\* refund.
QueueInvariant ==
    /\ \A w \in Worker : job[w] = "succeed" => money = "refund"
    /\ SuccessIsPaid
    /\ prompt =>
        /\ \A w \in Worker : job[w] # "idle" => claim = w /\ leased
        /\ \A w \in Worker :
             /\ job[w] \in {"check", "send", "confirm"} => status = "PROCESSING" /\ ~underway
             /\ job[w] \in {"send", "confirm"} => money = "settlement"
             /\ job[w] = "reconcile" => status = "UNKNOWN"
             /\ job[w] # "idle" => status \in {"PROCESSING", "UNKNOWN"}
             /\ job[w] = "fail" => money \in {"settlement", "refund_failed"} /\ ~underway
        /\ status = "REQUESTED" => money = "settlement"
        /\ underway =>
             /\ money = "settlement"
             /\ status = "UNKNOWN" \/ (status = "PROCESSING" /\ leased)
        /\ status \in {"FAILED", "MANUAL_REQUIRED"} => money \in {"settlement", "refund_failed"}
        /\ handPaid => status = "SUCCEEDED" /\ money \in {"settlement", "refund_failed"}

\* Workers run on tickers, come back after a restart and let calls time out; the provider
\* answers now and then and decides in the end; leases lapse.
QueueFairness ==
    /\ WF_vars(ProviderDecides) /\ WF_vars(StragglerEnds) /\ SF_vars(LeaseLapses)
    /\ \A w \in Worker :
        /\ WF_vars(Work(w)) /\ SF_vars(Claim(w)) /\ SF_vars(ReadProvider(w)) /\ SF_vars(ReleaseClaim(w))
        /\ SF_vars(Succeed(w)) /\ SF_vars(Fail(w))

FairSpec == Spec /\ QueueFairness

\* What the provider has decided is recorded in the end, whatever failed before: calls,
\* leases, processes, the deadline for retries (reconcile).
DecisionsAreRecorded ==
    money \in {"refund", "refund_failed"} /\ status \in {"PROCESSING", "UNKNOWN"}
        ~> status \notin {"PROCESSING", "UNKNOWN"}

\* docs/event-change-policy.md:17 "Hasil UNKNOWN wajib direkonsiliasi sebelum refund
\* manual": an admin is asked to pay by hand only when the provider will not
\* (finish, submit).
ManualMeansUnpaid ==
    status = "MANUAL_REQUIRED" => money \in {"settlement", "refund_failed"}

\* docs/event-change-policy.md:13 "mendapat refund penuh otomatis atau manual": every
\* refund that was requested ends or reaches the manual queue (reconcile).
RefundsEnd ==
    status = "REQUESTED" ~> status \in {"SUCCEEDED", "FAILED", "MANUAL_REQUIRED"}
===========================================================================
