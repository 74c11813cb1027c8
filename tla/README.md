# Verification of ticket-online

ticket-online sells tickets for concerts: a Go backend on MySQL, a Svelte
frontend, Midtrans Snap as payment provider, and background workers that end
what buyers left open. This directory holds TLA+ models of the backend's core,
TLC configurations that check them on small instances, and TLAPS proofs for
every size. Paths below are relative to `src/backend/internal/` unless they
start with `src/`.

## 1. The system

### Components

| Component | State | Operations | Hard because |
|---|---|---|---|
| `reservation` | `reservations`, `reservation_items`, `ticket_tiers.available_quantity` | `Create`, `Cancel`, `expireOne` (worker and read), `Convert` | stock is returned by several paths; status is read before the lock |
| `checkout` | `orders`, `order_items`, `order_buyers`, `order_vouchers` | `Create` | same reservation, concurrently cancelled or expired; voucher quota |
| `payment` | `payments`, `etickets`, `payment_reconciliation_cases`, `orders.status` | `CreateSnap` (`BeginSnap`, provider call, `SetSnapURL`), `MidtransNotification`, expiry worker, `Simulate` | provider calls between transactions; late, repeated and reordered notifications |
| `refund` | `order_refunds` | `Submit`, `SubmitEvent`, worker (claim, send, reconcile), `CompleteManual` | leases, unknown outcome of a sent refund |
| `eventchange` | `events`, `event_changes`, `event_change_orders`, `event_refund_rights` | preview, `commit`, `Process` (drain, finish, submit refunds, reopen), `requestRefund` | a decision meets orders in every state |
| `eventstate` | (reads `events`) | `CanSell`, `PaymentBlocked` | the answer must not be older than the lock |
| `checkin` | `ticket_checkins` | `CheckIn`, lookup, lists | competes with refunds |
| `catalog` | `events`, `event_zones`, `ticket_tiers` | `SaveTier`, CRUD, publish | capacity is edited while units are held |
| `adminissues` | `payment_reconciliation_cases`, `email_queue` | `Recheck`, `ResolveCase`, retry mail | a recheck asks the provider between two transactions; a case can be closed under the refund worker |
| `pricing` | `vouchers`, `checkout_settings` | `Calculate`, `saveSettings`, `saveVoucher` | quota is counted over orders while others settle and expire; pages of admins grow stale; uint64 |
| `email` | `email_queue` | enqueue, claim, send, retry | leases, at most three attempts |
| `recovery` | `recovery_requests`, tokens, `rate_limits` | request, consume | single use |
| `staffauth` | `staff_users`, `staff_sessions`, `staff_assignments` | `Login`, `Logout`, `AuthenticateTx`, staff administration, `BootstrapAdmin` | accounts change between the check of a password and the session, and between a check and the operation it allows |
| `src/backend/migrations` | the schema, `schema_migrations` | `Run` at every start of the API and of both commands | DDL commits at once; runs are cut short; several processes start together |
| `orderaccess`, `operations`, `posters`, `conversion`, `adminorders`, `adminreports`, `platform`, frontend | own tables, memory, files | see `PROJECT.json` | nothing that meets ticket sales |

### How they interact

There are no messages between components: they meet in the database. Every
handler and every worker step runs one READ COMMITTED transaction that locks
the event row first (`eventstate.Read`), then the reservation or order row.
Because that order is the same everywhere, a transaction is atomic for everyone
who takes the same locks, and the models take one action per transaction. What
does interleave:

- whole transactions of buyers, admins, the gate and the workers, in any order;
- calls to Midtrans, which happen *between* transactions: `CreateSnap` commits
  an attempt, then calls, then stores the answer; the expiry worker reads an
  order without a lock, asks the provider, cancels the charge, asks again, and
  only then locks;
- notifications, which carry anything the provider ever said of an attempt;
- restarts, which leave committed rows behind and lose what a goroutine knew;
- statements of the same transaction, where it takes its locks one by one or,
  as DDL does, commits each at once.

`cmd/api/main.go` starts the reservation worker, the payment-expiry worker, the
event-change worker, the refund worker and the mail worker, each on a ticker
for the life of the process.

### What makes each component correct

- **Stock** (`reservation`, `checkout`, `payment`, `refund`, `catalog`): units
  for sale plus units held make up the capacity; every hold is returned exactly
  once.
- **Payment**: a settlement gives tickets or a reconciliation case, exactly one
  of them, and is never undone; stock is released only when the provider can
  collect nothing more; an order past its deadline ends.
- **Event decisions**: a stopped order is never sold; sales reopen only when
  everything old is settled, and then do; everyone who paid has a right.
- **Pricing**: uses never exceed the quota; an order has the price in force when
  it commits; no edit is overwritten unseen; amounts do not wrap.
- **Refund**: the order and its refund agree; an owed refund is handled; no
  entry on a ticket that is being refunded.
- **Staff** (`staffauth`, `adminissues`): a session is of an active account and
  its present password; revocation waits for what is under way; one
  administrator; a case keeps the newest answer of the provider.
- **Migrations**: a version is recorded when the schema is what its files say,
  never earlier, and in order; an interrupted upgrade can be resumed.

The hazards, each at its line, are in `PROJECT.json`.

## 2. The modules

    SalesStore      tables, provider and worker state, Init, TypeOK, helpers
      Reservations  Reserve, Cancel, Expire, Convert, Checkout, SaveTier, DeadlinePasses
        EventChanges  Commit, drain, FinishWork, Reopen, RequestRefund
      Payments      Snap attempts, provider, notifications, expiry worker, Simulate
      Refunds       Submit, SubmitEvent, finish, manual completion, ResolveCase, CheckIn
    TicketSales     their composition: Next, Spec, fairness, properties
      DocumentedClaims   sentences of the documents that TLC refutes
        MCTicketSales    instances for TLC
      TicketSalesProofs  type correctness
        StockProofs      the inductive invariant and the four safety theorems
          OrderProofs      the refinement, what is final, decisions, what the provider knows
    StockLedger     the abstract specification TicketSales implements
    RefundQueue     one refund row: claims, leases, the provider, restarts, the manual queue
      RefundQueueProofs    its inductive invariant and five safety theorems
    MailQueue       one row of email_queue: claims, attempts, SMTP, resends, recovery links
      MailQueueProofs      its inductive invariant and four safety theorems
    Vouchers        the price of an order and the quota of a voucher, lock by lock
      MCVouchers           its instance for TLC
      VouchersProofs       its inductive invariant and five theorems
    Upgrades        the 29 upgrades of the database as statements on a schema
      Migrations      the runner: lock, looks, statements, records, interruptions
        MigrationsProofs   looks stay true, versions in order, interrupted runs resume
    StaffAccess     accounts, sessions, row locks, administration, bootstrap-admin
      CaseDesk        rechecks and closing of a reconciliation case, on top of it
        MCCaseDesk         its instance for TLC
        CaseDeskProofs     the inductive invariants of both and four theorems

### Correspondence

`orders.reservation_id` is unique and so are payments, refunds, rights and cases
per order, so all of them are functions of the reservation. `due[r]` is
`expires_at <= now`; the clock itself is not modelled, only that a deadline
passes (`DeadlinePasses`) or is pulled forward by a decision (`Commit`).
`attempt[r]` numbers the gateway order ids of a payment, and `charge[r][n]` is
the set of answers the provider has given for attempt `n`: a notification may
deliver any of them at any time, any number of times, so loss, delay,
duplication and reordering need no queue. `unclear` holds the attempts about
which the provider's status answer is at present one the worker cannot use: the
amount is not the order's (midtrans_status.go:111, :133), the status is not one
it knows, such as a challenged capture (:123), or the charge "remains" something
else after it was cancelled (:139). `ProviderUnclear` puts attempts in and takes
them out as the provider likes, and `ReadStatus` and `ConfirmCancel` then
preserve the order and end the worker's turn, as the code's error returns do. A
notification of that kind changes no row, so it needs no action. `snap[r][n]` is the `CreateSnap`
request that handles attempt `n`; two requests that reuse the same attempt are
one, since they write the same redirect. `worker[w]` is a goroutine inside
`expireOrderWithMidtrans`: the payment-expiry worker and the event-change
worker (`ReconcileClosedOrder`) run the same procedure. `stopRow` and `openRow`
are the rows of `event_change_orders` that stop an order, and those not yet
processed; rows that only send a mail are left out.

In `RefundQueue`, `status`, `claim` and `leased` are columns of the row
(`lease_until` only as "lies in the future"), `job[w]` is where the goroutine of
process `w` stands in `deliverRequested` or `reconcile`, and `money` is what
Midtrans would answer. A request whose sender timed out is `underway` until it
arrives or is lost, which happens before a lease of three minutes lapses.
`prompt` is chosen once per behaviour: with it, no worker outlives the lease of
its batch. A row that is created MANUAL_REQUIRED never meets the worker and is
left to `Refunds`.

In `MailQueue`, a row is of either kind from the start, and `hand[w]` is the
statement the mail worker of process `w` comes to next, with the attempt it
read when it claimed the row. `active` stands for everything `send` asks of the
order (`Order.Eligible`, `TicketActive`): it may change at any time, as refunds
and decisions do. `Resend` reads it before its statement and without a lock, so
the model does not ask it there. `tokens`, `spent` and `inbox` are recovery
tokens by the attempt that inserted them. A mail the server took may still be
reported as failed. The rate limits only make requests rarer.

In `Vouchers`, a transaction that locks rows, reads and writes later is more
than one step: `create[r]` is where `checkout`'s `Create` stands inside
`pricing.Calculate`, and `page[a].step = "saving"` is `saveVoucher` between its
count and its write. This is the one module that looks inside transactions:
checkouts share the lock on the event (FOR SHARE) and so do interleave, and
`usage` counts rows that nobody has locked. `price[r]` is the transaction's own draft until the
order exists, then the amounts of `orders` with the snapshot of
`order_vouchers`; what the order status cannot tell of a refund is `original`.
EXPIRED stands for EXPIRED and CANCELLED. There is one voucher, created by an
admin (the seeded `HEMAT10` differs in its quota of a billion only): an order
carries at most one, and vouchers share no row.

In `Upgrades`, a schema is a set of objects (tables, columns, keys, constraints,
the last form of what is changed more than once, rows an upgrade fills in), and
an upgrade is a sequence of statements, each with the look at
`information_schema` before it. Thirteen upgrades are taken apart by the runner
(`resumeRecovery` to `ReviewFixes`); for those the SQL file, which is then only
what the checksum is of, is stated as one change (`File`), and `UpgradeIsWhole`
compares the two. What the server makes of a statement (`Refused`, `Effect`) is
MySQL's doing: DDL is atomic by the statement, a second ADD of the same name is
an error, and so is dropping what is not there. In `Migrations`, `runner[p]` is
where a process stands: the look (`Check`) and the statement (`Execute`) are
steps of their own. `GET_LOCK` belongs to the connection. When a process is gone
while the server works on its statement, the lock stays until that has ended:
this is how the server behaves and not something the code does, and
`LooksStayTrue` rests on it. The deadline of 30 seconds around `Run` makes such
an end an ordinary event for a long ALTER.

In `StaffAccess` a token stands for one login, and `pc[t]` for where the request
of its holder is; two requests at once are two logins, except that a logout may
overtake a request of its own session. Row locks are read off `pc`: a login that
has `FOR UPDATE` on the user (`Exclusive`), an operation that has `FOR SHARE` on
the user and then on the session. Transactions that hold their lock throughout
(`UpdateStaff`, `ResetPassword`, `ReplaceAssignments`) are one step that waits
for it. The handler's admin check (`Admit`) is not made again in those
transactions. An admin cannot be changed by them, so this matters only for a
session that expires or logs out in between. `bootstrap[c]` is a
`bootstrap-admin` command with its named lock. In `CaseDesk`, `truth` is a
version of what the provider knows and `known` the version written to the case.
Nothing else writes `provider_status` later: a case exists only when the payment
has SUCCEEDED, and `ApplyGatewayStatusTx` then returns at once
(`SettlementIsFinal`). A call to the provider takes at most eight seconds, so a
lease of 30 seconds lapses under a live recheck only while its second
transaction waits for the locks of the event, or when the process stalls.

What is abstracted, and why it is safe to:

- *Publication.* The event is published; unpublishing only closes `Reserve`.
- *`Convert` past the deadline* writes EXPIRED and then rolls back with its
  error: no change.
- *Preview.* `commit` refuses when the snapshot of the preview no longer
  matches, so `Commit` acts on the current state.
- *Batches.* Workers take up to 100 (20 for mails) rows per tick; the instances
  stay below that.
- *The refund provider.* `REQUESTED` stands for REQUESTED, PROCESSING and
  UNKNOWN,
  and `FinishRefund` for everything the refund worker does until it writes the
  outcome; `RefundQueue` is that part in detail.
- *Configuration.* `MIDTRANS_SERVER_KEY` is set, as config.go:97 demands in
  production (without it the expiry worker preserves every order with a pending
  attempt), and so is `SMTP_HOST` (without it the mail worker does nothing,
  email.go:86). The liveness properties of `progress` and `mail_queue` assume this.
- *Money and names* are left out of the sales modules: none of their
  properties depends on an amount. Amounts are the subject of `Vouchers`.
- `available <= capacity` is a CHECK of `001_initial.sql:53`. It is deliberately
  not assumed: it follows from `StockConserved`.

Operators whose comment begins "A slip:" are variations a plausible bug would
give; no action uses them. Each property of a passing run is broken by the one
that `PROJECT.json` names under "mutants".

## 3. What TLC checks

| Run | Instance | Properties | What it shows |
|---|---|---|---|
| `stock` | 2 reservations, 2 units, up to 2 per order, capacity 1 or 3, 1 decision, simulated payment | `TypeOK` `StockConserved` `ImplementsLedger` | every path that takes or returns stock, under competition |
| `payment_race` | 1 order, 2 workers, 2 attempts, unclear answers, 1 decision, refunds | `MoneyMatchesGoods` `TicketsKeepStock` `RedirectOfThisAttempt` `ReleasedIsUncollectable` `SettlementIsFinal` | all orders of answers, failures, retries and worker steps |
| `progress` | 1 order, 1 attempt, unclear answers, 2 decisions, fairness | `SellingMeansDrained` `ClosedEventOwesRefunds` `RefundMatchesOrder` `StoppedNeverSold` `NoEntryOnRefund` `ReservationsEnd` `DueOrdersEnd` `SalesReopen` `OwedRefundsHandled` | decisions against orders and refunds in every state; workers finish what is due; requested rights lead to a refund |
| `refund_queue` | 1 refund, 2 workers, with and without workers that outlive leases, fairness | `ClaimIsExclusive` `FailureIsFinal` `PaidBackOnce` `SuccessIsPaid` `DecisionsAreRecorded` | timeouts, stragglers, restarts and refusals never pay twice or fail too early |
| `mail_queue` | 1 row of either kind, 2 workers, 2 rounds of attempts, fairness | `SentIsAccepted` `ThreeMailsAtMost` `RequestOpensOnce` `ReplacedStaysDown` `MailsEnd` | slow, restarted and competing workers neither lose, revive nor multiply a mail, and its links open once |
| `vouchers` | 2 reservations, 1 voucher, 2 admins, quota 1 or 2, 3 terms (one inactive), 2 fees, 2 revisions of the fee and 3 of the voucher | `QuotaKept` `ConsumedWhenSold` `PriceIsExact` `PricedAsCommitted` `NoLostEdit` | checkouts, edits, settlements and refunds between the statements of each other |
| `migrations` | 2 processes, all 29 versions from an empty database, 2 interruptions, fairness | `LooksStayTrue` `InterruptedRunsResume` `UpgradeIsWhole` `UpgradesFinish` | runs cut short anywhere, with their last statement still at the server, leave nothing that is recorded too early or cannot be resumed |
| `admin_desk` | 2 bootstrap commands, 1 member of the staff, 2 logins, 2 passwords, 1 case, 2 answers of the provider | `SessionsAreCurrent` `RevocationWaits` `OneAdmin` `AnswersInOrder` | logins, scans and rechecks against resets, deactivations, logouts, lapsed leases and each other |

*Why the bounds are enough.* Stock needs two competitors, a total smaller than
what both may ask, and a capacity edit in either direction; `stock` has no
gateway (`MaxAttempt` is 0: with one attempt for each of its two reservations
the instance takes TLC longer than a run should), so that `StockConserved` and
`ImplementsLedger` also hold along the gateway's paths rests on their theorems
(`StockIsConserved`, `StockLedgerImplemented`), which have no bound.
`UnclearAnswers` is FALSE where only one cause is to be shown (`stuck_order`,
`lost_settlement`) and in `stock`, which has no provider. The payment properties
speak of one order: orders share only stock and the event row, so one order with
two workers and two attempts has every race between an old and a new attempt.
Two decisions are the smallest number at which a stopped order meets reopened
sales and a second stop. A refund row has no bound but the number of workers,
and two suffice for one to hold the claim while the other acts on a lapsed one
(the safety part is proved for any number). The same holds for a mail; two
rounds are enough for a worker of an earlier round to meet a later one. Vouchers
are contended by two checkouts for one use and by two admins for one row; three
revisions let an edit meet a page that is two edits old, and amounts near the
top of a width of 14 bits stand for those near 2^64. An upgrade is disturbed by
its own interruption, by another process and by the orphan of the first, so two
processes and two interruptions (the second may hit the run that resumes) have
every combination. A session needs a login and an admin who changes its account,
a recheck another one that takes over: two logins are either; two bootstrap
commands contend for the lock.
Symmetry (interchangeable reservations, workers, admins and logins) is used in
safety runs only. `vouchers`, `migrations` and `admin_desk`, where there is
always something left to do, check for deadlock. The other configurations say
`CHECK_DEADLOCK FALSE` because a bounded history ends: every reservation id,
attempt and decision is used up, and a refund ends.

*`ImplementsLedger`.* `StockLedger` knows only requests that take, sell and
give back units, with the free units counted, not stored. TicketSales
implements it with the mapping `Claim`: available_quantity is the ledger's
count, each sale happens once, and nothing is given back twice. The run checks it
on the instance, `StockLedgerImplemented` proves it for all.

*Fairness.* The tickers of the workers run for the life of the process and a
failed step is tried again, so a worker step that is enabled again and again is
eventually taken (SF, because a provider that is down or a concurrent attempt
disables it in between); `SubmitEvent` is weakly fair, as part of the
event-change worker; a provider call times out (WF on `GiveUp`). Nothing is
assumed of buyers, admins, the gate or the provider: its answers may be unclear
for ever, at every single moment a worker asks, or never. Fairness of
`ReadStatus` and `ConfirmCancel` therefore promises only that a worker gets *an*
answer. `DueOrdersEnd` and `SalesReopen` name what follows from that as
exceptions: `UnknownToProvider` (the attempt never reached the provider) and
`AnsweredUnclearly`. Both are leads-to formulas, so one unclear answer that
passes excuses nothing: the order is still due after it, and has to end from
there. Only a provider that comes back to unclear answers for ever keeps the
order. (Without the second exception TLC finds just that behaviour.) A cancel
request that the provider refuses is a call that fails, and is tried again.
`OwedRefundsHandled` says "handled", not "refunded": a refund may stay UNKNOWN
(see `unknown_refund`), so no fairness of `FinishRefund` would be justified. In
`RefundQueue` the worker's steps are fair in the same way, and so is the answer
of the provider once it works on a refund; `DecisionsAreRecorded` then says that
its decision reaches the row whatever failed before. In `MailQueue` the steps of
the worker are fair; nothing is assumed of SMTP, and restarts may strike every
attempt: three of them end the mail too. In `Migrations` a process that is not
up is started again (`restart: unless-stopped` in src/compose.production.yaml,
or an operator), a running one goes on, and a statement at the server ends.
`UpgradesFinish` needs `MaxInterrupts`: a start whose deadline always strikes in
the same long ALTER would never finish. `CaseDesk` states no liveness:
everything there begins with a person.

### Where code and documents differ

Four runs expect a violation. Each states a sentence of the documents.

- `stuck_order` (`DueOrdersAlwaysEnd`): src/README.md:20 says the worker ends
  every order past its deadline. `BeginSnap` commits an attempt before
  `CreateSnap` checks the minutes left and calls Midtrans; if that fails, the
  provider answers the worker's status request with an error for ever, and the
  order keeps its stock. `DueOrdersEnd` is the other half: an order stays this
  way, or because the provider keeps giving answers the worker cannot use
  (which the code meets by preserving the order, and the event with it: it does
  not reopen meanwhile), and in no other way.
- `lost_settlement` (`LateSettlementRecorded`): src/README.md:105 says that a
  settlement after the stock was released becomes a reconciliation case. If the
  settlement belongs to an attempt that a retry replaced, its gateway order id
  is in no row any more.
- `manual_refund` (`ManualMeansUnpaid`): src/docs/event-change-policy.md:17
  wants an unknown outcome reconciled before anybody pays by hand. `finish`
  does not ask whether the claim is still the worker's. Ten refunds with up to
  three calls of eight seconds each can outlast the lease of three minutes, and
  then a stale refusal is written over a refund a second process has sent.
  This takes two processes (a rolling restart, say): within one, the ticker
  loop is sequential. That is why the safety properties of `RefundQueue` other
  than `SuccessIsPaid` begin with `prompt`: `ClaimIsExclusive` says nothing of a
  worker that outlasts its lease, `ManualMeansUnpaid` and `SuccessIsPaid` do.
- `unknown_refund` (`RefundsEnd`): src/docs/event-change-policy.md:13 promises
  a refund, automatic or by hand. One whose request was lost is `UNKNOWN`, is
  only read again, and can be neither sent again nor completed by hand.

Also met while modelling, and without a run of their own:

- src/README.md:20 says late payments are refused even before the worker runs.
  `ApplyGatewayStatusTx` asks the order's status and the event, never
  `expires_at`, so a settlement just before the worker pays the order.
- src/docs/event-change-policy.md:13 promises a full refund for late
  settlements. An admin may close the case with a note (`ResolveCase`), after
  which `submit` refuses the refund for ever.
- Versions 3, 5, 9 and 12 (`NotRepeatable`) are run as their files stand and add
  something without looking. A run that is cut short after one of their ALTERs
  leaves a database on which every later start fails with a duplicate column or
  key. That is why `InterruptedRunsResume` and `UpgradesFinish` except them. The
  comment at src/backend/migrations/migrate.go:518, that only upgrade 14 needs
  recovery that looks at the schema, is older than the twelve upgrades that have
  it too.

## 4. What is proved

TLAPS checks these for every value of the constants: any finite set of
reservations, any tiers, workers, admins, logins, capacities and bounds. The assumptions
of the sales modules are those of `SalesStore`: reservations are finite and
`NoOrder` is not one of them; quantities, capacities and bounds are naturals.

- `TypeCorrect` (`TicketSalesProofs`): `Spec => []TypeOK`. One lemma per group
  of actions; the point with content is that `available_quantity` stays a
  natural number, under `Reserve`'s check and `SaveTier`'s bound.
- `SalesInvariantHolds` (`StockProofs`): `Spec => []SalesInvariant`.
  `StockConserved` alone is not inductive: that a refund returns units which are
  still held needs `TicketsKeepStock` and `RefundMatchesOrder`, that
  needs `RefundRemembersOrder`, and that an order's units are not returned through
  its reservation needs `OrdersAreConverted`. The argument has two halves: the
  rows (`NextRows`: statuses of order, payment, refund, case and tickets stay
  consistent under every action) and the units (`StockKept`, `StockReturned`,
  `StockTaken`: what an action does to the set of held units and to its
  cardinality, with `OneMoreHolder` from the finite-set library).
- `StockIsConserved`, `MoneyIsMatched`, `TicketsAreBacked`, `RefundsAreMatched`:
  the four invariants of the runs, as consequences.
- `OrderProofs` rests on one lemma (`OneRowMoves`): whichever handler or worker
  acts, a step moves at most one reservation with its order, along one of six
  edges (given back, converted, sold, ended, refund opened, refund ended). It
  gives the refinement (`StockLedgerImplemented`: every edge is a step of that
  row's claim or none, and what the tier counts as available is what the ledger
  computes), the life of an order (`OrderLifecycle`), and the action properties
  `StoppedOrdersAreNeverSold`, `SettlementsAreFinal` and `RefundedStayOut`.
- `DecisionsHold` (`OrderProofs`): `Spec => []DecisionInvariant`.
  `SellingMeansDrained` needs `StopsAreTracked`: the condition of `Reopen` is
  about open rows of `event_change_orders`, so a row must stay open as long as
  its order waits for a payment. `ClosedEventOwesRefunds` needs that nobody is
  paid without a right while sales are closed, and that a decision reaches every
  order that has paid. `SellingIsDrained` and `ClosedEventsOweRefunds` follow.
- `ReleaseInvariantHolds` (`OrderProofs`): `Spec => []ReleaseInvariant`.
  `ReleasedIsUncollectable` speaks of the provider, and the release happens
  several steps after the provider was asked. What carries the answer over is
  `ProviderKnows` (an attempt that was replaced, or whose failure the payment row
  records, has failed at the provider, too) and `WorkersKnow` (what a worker is
  about to record was said of the attempt it read). Both are stated for
  production, without the simulated payment, which settles an order at no
  provider. `ReleasedOrdersAreUncollectable` follows.
  `RedirectsAreCurrent` is inductive as it stands.
- `QueueInvariantHolds` (`RefundQueueProofs`): `Spec => [](TypeOK /\
  QueueInvariant)`, for any number of workers. `PaidBackOnce` is not inductive:
  that a refund which failed leaves nothing to pay rests on what the worker
  about to write has read (`job`), on the claim that kept everyone else from
  acting since, and on a straggler leaving the row UNKNOWN. `ClaimsExclude`,
  `FailuresAreFinal`, `NobodyIsPaidTwice` and `SuccessMeansPaid` follow.
  `QueueIsOneStep` ties this module to `Refunds`: while workers keep within their
  leases, all they do shows from outside as the one step `FinishRefund`.
- `MailInvariantHolds` (`MailQueueProofs`): `Spec => [](TypeOK /\ MailInvariant)`
  for any finite set of workers. `ThreeMailsAtMost` becomes inductive by
  counting the workers that may still send (`InFlight`): each has paid with an
  attempt, so mails plus workers in flight never exceed the attempts of all
  rounds. `SentMeansAccepted`, `MailsAreBounded`, `RequestsOpenOnce` and
  `ReplacedRowsStayDown` follow.
- `PricingInvariantHolds` (`VouchersProofs`): `Spec => [](TypeOK /\
  PricingInvariant)` for any finite set of reservations, any admins, subtotals,
  fees and terms, and any width of at least 9900 (a percentage of less than 100
  rupiah is computed through 99 * 100). `QuotaKept` alone is not inductive: it
  needs that what a transaction counted still bounds the uses when it commits
  (`CountsStand`), which rests on the lock on the voucher having one holder
  (`LockExclusive`) and on settlements, expiries and refunds never adding a
  use. `NoLostEdit` needs that a revision names one content for ever
  (`PagesAgree`). `DiscountExact` is the arithmetic: a percentage computed by
  hundreds and rest is the percentage rounded down, never wraps and never
  exceeds the subtotal. `QuotaIsKept`, `SoldUsesAreConsumed`,
  `OrdersChargeExactly`, `OrdersPricedAsCommitted` and `EditsAreSeen` follow.

- `LooksStayTrueTheorem` (`MigrationsProofs`): `Spec => []LooksStayTrue` for any
  set of processes and any number of interruptions. It
  needs that whoever is between a look and a record holds the lock
  (`OneAtWork`), so that there is one such process, and that an orphan has
  kept the lock of its dead connection.
- `VersionsAreInOrder`: the versions are recorded as 1, 2, 3, ..., each when
  exactly those before it are; the invariant is `OneAfterTheOther`.
- `InterruptedRunsResumeTheorem`: `Spec => []InterruptedRunsResume`. TLC reaches
  the states two interruptions leave; the proof does not depend on how many there
  were, because it is about statements and not about histories. A statement is
  `Repeatable` when no schema at all makes the server refuse it after its look
  (`ScriptSound`: every statement of 21 versions). For the four versions that
  carry something from one look to a later statement (14, 21, 26, 27), what is
  carried is spelled out (`Knows`: that the memory of the primary key is true until
  the run changes the key itself, that the foreign key is out of the way by then,
  that the constraint it adds was dropped before), and with it two facts about
  every schema (`Coherent`). Every statement of every version is `Sound`: it leaves
  both standing, so it does no harm when it takes effect late, at the server,
  without its run. `Prepared` puts this together; it also needs `OneAtWork`
  (nobody changes what a run knows) and `OneAfterTheOther` (version 14 finds
  `email_queue`).
- `DeskHolds` (`CaseDeskProofs`): `Spec => [](TypeOK /\ SessionInvariant /\
  BootstrapInvariant /\ CaseInvariant)` for any identities, logins, passwords and
  answers. `SessionsAreCurrent` becomes inductive with what `createSession` saw
  under the lock; `OneAdmin` with the fact that one command at a time has
  counted, and that an orphaned INSERT keeps its lock; `AnswersInOrder` with the
  fact that an answer in hand is at least as new as the case while its claim
  stands. `SessionsStayCurrent`, `RevocationAlwaysWaits`, `AlwaysOneAdmin` and
  `AnswersStayInOrder` follow.

Only model-checked: the liveness properties (`ReservationsEnd`, `DueOrdersEnd`,
`SalesReopen`, `OwedRefundsHandled`, `DecisionsAreRecorded`, `MailsEnd`,
`UpgradesFinish`), which are out of the prover's reach, and `UpgradeIsWhole`. That
one compares 29 upgrades, statement by statement, with `AsWritten`, a recursive
function over folds, which the provers cannot unfold. Its first half, the order, is
`VersionsAreInOrder`; for its second half the script is fixed, and TLC walks through
all of it. Every other property of a passing run is a theorem.

## 5. Plan

1. *(done)* The sales core: `SalesStore`, `Reservations`, `Payments`, `Refunds`,
   `EventChanges`, `TicketSales`, `StockLedger`; type correctness and the sales
   invariant proved.
2. *(done)* `RefundQueue`: claims, leases and the provider's answers behind
   `FinishRefund`; its invariant proved.
3. *(done)* `MailQueue`: claim token, lease, three attempts, recovery links;
   its invariant proved.
4. *(done)* `Vouchers`: quota held, consumed and released over orders;
   `Discount` as a pure operator against its reference definition; its
   invariant proved.
5. *(done)* `Upgrades` and `Migrations`: all upgrades, interruptions and the
   lock; that looks stay true, versions come in order and interrupted runs can
   be resumed, proved.
6. *(done)* `StaffAccess` and `CaseDesk`: sessions, revocation, bootstrap, the
   recheck lease; their invariants proved.
7. *(done)* Proofs about orders (`OrderProofs`): the refinement of `StockLedger`,
   what is final, decisions, and what the provider knows.
8. That a checkout in `Vouchers` and a claim in `MailQueue` show as one step from
   outside, as `QueueIsOneStep` does for `RefundQueue`.
9. `EventChange` preview and snapshot conflict; the notification rows; publishing
   of an event; the idempotency key of a reservation; the rate limits of
   `recovery` and the login limiter.

### Not modelled

Reports, posters, conversion counters, routing, configuration, the frontend, and
order-access signatures are not modelled, and not planned: they compute or
display, and change no state that sales depend on. Of the migrations, rows that
make an upgrade impossible (duplicate keys in `email_queue`) and an edited file
(checksum mismatch) are left out: both stop the runner until somebody repairs
them by hand. Two hazards have no property; `PROJECT.json` says why.

