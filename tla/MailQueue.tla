----------------------------- MODULE MailQueue -----------------------------
(***************************************************************************)
(* One row of email_queue, from the request to its end, with the workers   *)
(* of every backend process, the SMTP server, the resend button, the       *)
(* admin's retry and, for a recovery mail, the links it carries.  Rows do  *)
(* not influence each other.  A TICKETS row stands for all order-bound     *)
(* kinds: REFUND and EVENT_CHANGE rows ask less of the order and know no   *)
(* resend button.                                                          *)
(***************************************************************************)
EXTENDS Integers, FiniteSets

CONSTANTS
    Worker,      \* backend processes, each with one mail worker
    NoWorker,    \* claim_token IS NULL
    MaxBudget    \* a bound: how often attempts starts from zero

ASSUME MailAssumption == IsFiniteSet(Worker) /\ NoWorker \notin Worker /\ MaxBudget \in Nat

VARIABLES
    kind,        \* email_queue.kind
    status,      \* email_queue.status, none before the row exists
    attempts,    \* email_queue.attempts
    claim,       \* claim_token: fresh for every claim, and a worker has one job at a time
    leased,      \* lease_until lies in the future
    superseded,  \* superseded_by names a newer row
    hand,        \* what each worker is about to do, and the attempt it read
    active,      \* the order is what this kind asks of it
    expired,     \* recovery_requests.expires_at has passed
    used,        \* recovery_requests.used_at IS NOT NULL
    tokens,      \* recovery_tokens, by the attempt that inserted them
    spent,       \* those with used_at
    inbox,       \* those the buyer has received
    mails,       \* mails the SMTP server has accepted
    arrived,     \* one of them since attempts started from zero
    budgets,     \* how often attempts has started from zero
    grants       \* how often a link has opened the order

row == <<kind, status, attempts, claim, leased, superseded>>
links == <<expired, used, tokens, spent, inbox, grants>>
sent == <<mails, arrived, budgets>>
vars == <<row, hand, active, links, sent>>

maxAttempts == 3
Status == {"none", "PENDING", "PROCESSING", "SENT", "FAILED"}
Step == {"idle", "read", "token", "deliver", "markSent", "retry", "fail"}

TypeOK ==
    /\ kind \in {"TICKETS", "RECOVERY"} /\ status \in Status
    /\ attempts \in 0..maxAttempts /\ claim \in Worker \cup {NoWorker}
    /\ leased \in BOOLEAN /\ superseded \in BOOLEAN
    /\ hand \in [Worker -> [step : Step, attempt : 0..maxAttempts]]
    /\ active \in BOOLEAN /\ expired \in BOOLEAN /\ used \in BOOLEAN
    /\ tokens \subseteq 0..maxAttempts /\ spent \subseteq tokens /\ inbox \subseteq tokens
    /\ mails \in Nat /\ arrived \in BOOLEAN /\ budgets \in Nat /\ grants \in Nat

Init ==
    /\ kind \in {"TICKETS", "RECOVERY"} /\ status = "none"
    /\ attempts = 0 /\ claim = NoWorker /\ leased = FALSE /\ superseded = FALSE
    /\ hand = [w \in Worker |-> [step |-> "idle", attempt |-> 0]]
    /\ active = TRUE /\ expired = FALSE /\ used = FALSE
    /\ tokens = {} /\ spent = {} /\ inbox = {}
    /\ mails = 0 /\ arrived = FALSE /\ budgets = 1 /\ grants = 0

At(w, step) == hand[w].step = step
Go(w, step) == hand' = [hand EXCEPT ![w].step = step]

---------------------------------------------------------------------------
(* Requests, the order and the clock *)

\* enqueuePaid: a paid order with all its tickets and no row yet
EnqueuePaid ==
    /\ kind = "TICKETS" /\ status = "none" /\ active
    /\ status' = "PENDING"
    /\ UNCHANGED <<kind, attempts, claim, leased, superseded, hand, active, links, sent>>

\* enqueueRecovery: the pair is only matched by the worker.
RequestRecovery ==
    /\ kind = "RECOVERY" /\ status = "none"
    /\ status' = "PENDING"
    /\ UNCHANGED <<kind, attempts, claim, leased, superseded, hand, active, links, sent>>

\* A refund or a decision about the event makes the order ineligible; a refund may fail.
OrderChanges ==
    /\ active' = ~active
    /\ UNCHANGED <<row, hand, links, sent>>

RequestExpires ==
    /\ kind = "RECOVERY" /\ status # "none" /\ ~expired
    /\ expired' = TRUE
    /\ UNCHANGED <<row, hand, active, used, tokens, spent, inbox, grants, sent>>

LeaseLapses ==
    /\ leased
    /\ leased' = FALSE
    /\ UNCHANGED <<kind, status, attempts, claim, superseded, hand, active, links, sent>>

---------------------------------------------------------------------------
(* The worker *)

EndAs(outcome) ==
    /\ status' = outcome /\ claim' = NoWorker /\ leased' = FALSE
    /\ UNCHANGED <<kind, attempts, superseded>>

\* A slip: attempts are compared with the number that cannot be exceeded.
FailOverdrawn ==
    /\ status = "PROCESSING" /\ attempts > maxAttempts /\ ~leased
    /\ EndAs("FAILED")
    /\ UNCHANGED <<hand, active, links, sent>>

\* process: a claim that no attempt is left for
FailExhausted ==
    /\ status = "PROCESSING" /\ attempts >= maxAttempts /\ ~leased
    /\ EndAs("FAILED")
    /\ UNCHANGED <<hand, active, links, sent>>

\* expireRecovery
ExpireRecovery ==
    /\ kind = "RECOVERY" /\ status = "PENDING" /\ expired
    /\ EndAs("FAILED")
    /\ UNCHANGED <<hand, active, links, sent>>

\* A slip: a claim that was lost does not count as an attempt.
ClaimUncounted(w) ==
    /\ At(w, "idle") /\ attempts < maxAttempts
    /\ status = "PENDING" \/ (status = "PROCESSING" /\ ~leased)
    /\ status' = "PROCESSING"
    /\ attempts' = IF status = "PENDING" THEN attempts + 1 ELSE attempts
    /\ claim' = w /\ leased' = TRUE
    /\ hand' = [hand EXCEPT ![w] = [step |-> "read", attempt |-> attempts']]
    /\ UNCHANGED <<kind, superseded, active, links, sent>>

\* claim: a due row, or one whose worker has let its lease lapse
Claim(w) ==
    /\ At(w, "idle") /\ attempts < maxAttempts
    /\ status = "PENDING" \/ (status = "PROCESSING" /\ ~leased)
    /\ status' = "PROCESSING" /\ attempts' = attempts + 1
    /\ claim' = w /\ leased' = TRUE
    /\ hand' = [hand EXCEPT ![w] = [step |-> "read", attempt |-> attempts + 1]]
    /\ UNCHANGED <<kind, superseded, active, links, sent>>

\* send, sendRecovery: what is asked before anything is sent, or the read fails
ReadOrder(w) ==
    /\ At(w, "read")
    /\ \/ /\ active /\ (kind = "RECOVERY" => ~used /\ ~expired)
          /\ Go(w, IF kind = "RECOVERY" THEN "token" ELSE "deliver")
       \/ /\ ~active \/ (kind = "RECOVERY" /\ (used \/ expired))
          /\ Go(w, "fail")
       \/ Go(w, "retry")
    /\ UNCHANGED <<row, active, links, sent>>

\* A token for this attempt, if it can be stored; the request may have been used meanwhile.
InsertToken(w) ==
    /\ At(w, "token")
    /\ \/ tokens' = tokens \cup {hand[w].attempt} /\ Go(w, "deliver")
       \/ UNCHANGED tokens /\ Go(w, "retry")
    /\ UNCHANGED <<row, active, expired, used, spent, inbox, grants, sent>>

\* deliver: accepted, refused, or accepted and the confirmation lost
Deliver(w) ==
    /\ At(w, "deliver")
    /\ \/ Go(w, "retry") /\ UNCHANGED <<mails, arrived, inbox>>
       \/ /\ Go(w, "markSent") \/ Go(w, "retry")
          /\ mails' = mails + 1 /\ arrived' = TRUE
          /\ inbox' = inbox \cup (tokens \cap {hand[w].attempt})
    /\ UNCHANGED <<row, active, expired, used, tokens, spent, grants, budgets>>

Mine(w) == status = "PROCESSING" /\ claim = w

\* A slip: the row is marked by its id alone.
MarkSentById(w) ==
    /\ At(w, "markSent") /\ Go(w, "idle")
    /\ EndAs("SENT")
    /\ UNCHANGED <<active, links, sent>>

MarkSent(w) ==
    /\ At(w, "markSent") /\ Go(w, "idle")
    /\ IF Mine(w) THEN EndAs("SENT") ELSE UNCHANGED row
    /\ UNCHANGED <<active, links, sent>>

\* A slip: any worker that failed puts the row back.
RetryById(w) ==
    /\ At(w, "retry") /\ Go(w, "idle")
    /\ EndAs(IF hand[w].attempt >= maxAttempts THEN "FAILED" ELSE "PENDING")
    /\ UNCHANGED <<active, links, sent>>

Retry(w) ==
    /\ At(w, "retry") /\ Go(w, "idle")
    /\ IF Mine(w)
       THEN EndAs(IF hand[w].attempt >= maxAttempts THEN "FAILED" ELSE "PENDING")
       ELSE UNCHANGED row
    /\ UNCHANGED <<active, links, sent>>

FinishFailure(w) ==
    /\ At(w, "fail") /\ Go(w, "idle")
    /\ IF Mine(w) THEN EndAs("FAILED") ELSE UNCHANGED row
    /\ UNCHANGED <<active, links, sent>>

\* The process restarts, or its write fails: the row keeps the claim until the lease lapses.
Crash(w) ==
    /\ ~At(w, "idle") /\ Go(w, "idle")
    /\ UNCHANGED <<row, active, links, sent>>

---------------------------------------------------------------------------
(* The buyer and the admin *)

Restart ==
    /\ budgets < MaxBudget
    /\ status' = "PENDING" /\ attempts' = 0
    /\ arrived' = FALSE /\ budgets' = budgets + 1
    /\ UNCHANGED <<kind, superseded, hand, active, links, mails>>

\* Resend: the order was read before, without a lock.  An active job is left alone.
Resend ==
    /\ kind = "TICKETS"
    /\ \/ status = "none" /\ status' = "PENDING"
          /\ UNCHANGED <<kind, attempts, claim, leased, superseded, hand, active, links, sent>>
       \/ status \in {"SENT", "FAILED"} /\ Restart /\ UNCHANGED <<claim, leased>>

\* RetryEmailJob: an order-bound row starts again,
RetryTickets ==
    /\ kind = "TICKETS" /\ status = "FAILED" /\ ~superseded /\ active
    /\ Restart
    /\ claim' = NoWorker /\ leased' = FALSE

\* a recovery row is replaced by a new request with a row of its own.
RetryRecovery ==
    /\ kind = "RECOVERY" /\ status = "FAILED" /\ ~superseded /\ ~used /\ active
    /\ superseded' = TRUE
    /\ UNCHANGED <<kind, status, attempts, claim, leased, hand, active, links, sent>>

\* A slip: only the link itself is asked whether it was used.
ConsumeToken(t) ==
    /\ t \in inbox \ spent /\ ~expired /\ active
    /\ used' = TRUE /\ spent' = tokens /\ grants' = grants + 1
    /\ UNCHANGED <<row, hand, active, expired, tokens, inbox, sent>>

\* consume: one link of the request, if none of them was used before
Consume(t) ==
    /\ t \in inbox \ spent /\ ~used /\ ~expired /\ active
    /\ used' = TRUE /\ spent' = tokens /\ grants' = grants + 1
    /\ UNCHANGED <<row, hand, active, expired, tokens, inbox, sent>>

---------------------------------------------------------------------------
Work(w) ==
    \/ ReadOrder(w) \/ InsertToken(w) \/ Deliver(w)
    \/ MarkSent(w) \/ Retry(w) \/ FinishFailure(w) \/ Crash(w)

Next ==
    \/ EnqueuePaid \/ RequestRecovery \/ OrderChanges \/ RequestExpires \/ LeaseLapses
    \/ FailExhausted \/ ExpireRecovery
    \/ \E w \in Worker : Claim(w) \/ Work(w)
    \/ Resend \/ RetryTickets \/ RetryRecovery
    \/ \E t \in 1..maxAttempts : Consume(t)

Spec == Init /\ [][Next]_vars

---------------------------------------------------------------------------
\* src/README.md:22: SENT means that the SMTP server has taken the message, since the
\* buyer last asked for it: no worker of an earlier round, slow or given up, marks the
\* row of a later one (markSent, Resend).
SentIsAccepted == status = "SENT" => arrived

\* At most three mails for one request, counted over all rounds, in spite of lost
\* confirmations, restarts and workers that outlive their leases (claim).
ThreeMailsAtMost == mails <= maxAttempts * budgets

\* A recovery request opens the order once, whichever of the mails of its attempts
\* arrived, and whenever their tokens were inserted (consume, sendRecovery).
RequestOpensOnce == grants <= 1

\* A row that an admin has replaced is never taken up again, so one request has one live
\* mail (RetryEmailJob against workers that are still at it).
ReplacedStaysDown == superseded => status = "FAILED" /\ claim = NoWorker

\* What makes them inductive: only a claimed row is being processed, its worker has seen
\* the mail accepted before it marks it, a used request has opened once, and every worker
\* that may still send has paid for it with an attempt.
InFlight == {w \in Worker : hand[w].step \in {"read", "token", "deliver"}}
MailInvariant ==
    /\ status # "PROCESSING" => claim = NoWorker
    /\ SentIsAccepted
    /\ \A w \in Worker : Mine(w) /\ At(w, "markSent") => arrived
    /\ ReplacedStaysDown /\ (superseded => kind = "RECOVERY")
    /\ grants = IF used THEN 1 ELSE 0
    /\ budgets >= 1
    /\ mails + Cardinality(InFlight) <= maxAttempts * (budgets - 1) + attempts

\* The tickers run; a failed statement is tried again; leases lapse.
MailFairness ==
    /\ WF_vars(LeaseLapses) /\ SF_vars(FailExhausted)
    /\ \A w \in Worker : WF_vars(Work(w)) /\ SF_vars(Claim(w))

FairSpec == Spec /\ MailFairness

\* Every mail that is waiting or under way is sent or given up (process, retry).
MailsEnd == status \in {"PENDING", "PROCESSING"} ~> status \in {"SENT", "FAILED"}
=============================================================================
