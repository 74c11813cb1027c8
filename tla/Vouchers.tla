----------------------------- MODULE Vouchers -----------------------------
(***************************************************************************)
(* The price of an order and the quota of a voucher.  A checkout reads the *)
(* admin fee under a shared lock, locks the voucher row, counts its uses   *)
(* and commits an order with a snapshot of both; admins edit fee and       *)
(* voucher from a page they loaded earlier.  Settlement, expiry and        *)
(* refunds move a use between held, consumed and released, and take no     *)
(* lock on the voucher.                                                    *)
(*                                                                         *)
(* A transaction that locks rows and reads others before it writes is more *)
(* than one step here, so what commits in between is part of the model;    *)
(* the others are one step.  There is one voucher: an order carries at     *)
(* most one, and different vouchers share no row.                          *)
(***************************************************************************)
EXTENDS Integers, FiniteSets

CONSTANTS
    Reservation,      \* reservations, each checked out at most once
    Admin,            \* admins with the pricing page open
    Subtotal,         \* subtotals of a reservation
    Fee,              \* admin fees an admin may save
    Terms,            \* [kind, value, active, minimum] an admin may save
    Quota,            \* quotas an admin may save
    MaxUint,          \* the largest uint64
    MaxFeeRevision,   \* bound: revisions of the settings
    MaxRevision       \* bound: revisions of the voucher

\* A percentage of less than 100 rupiah is computed through 99 * 100.
ASSUME WidthAssumption == MaxUint \in Nat /\ MaxUint >= 9900
ASSUME PricingAssumption ==
    /\ IsFiniteSet(Reservation)
    /\ Subtotal \subseteq 1..MaxUint
    /\ Fee \subseteq 0..MaxUint
    /\ Quota \subseteq Nat \ {0}
    /\ MaxFeeRevision \in Nat \ {0} /\ MaxRevision \in Nat \ {0}
    /\ Terms \subseteq [kind : {"PERCENT", "FIXED"}, value : 1..MaxUint,
                        active : BOOLEAN, minimum : 0..MaxUint]
    /\ \A t \in Terms : t.kind = "PERCENT" => t.value <= 100

VARIABLES
    settings,         \* checkout_settings: admin_fee, revision
    voucher,          \* the vouchers row; revision 0 before it is created
    order, original,  \* orders.status, order_refunds.original_order_status
    price,            \* the amounts in orders and the snapshot in order_vouchers
    consumed,         \* order_vouchers.consumed
    create,           \* the transaction of checkout's Create
    page              \* the pricing page of each admin

vars == <<settings, voucher, order, original, price, consumed, create, page>>

NoTerms == [kind |-> "NONE", value |-> 0, active |-> FALSE, minimum |-> 0]
NoVoucher == [terms |-> NoTerms, quota |-> 0, revision |-> 0]
Undiscounted(subtotal, fee) ==
    [subtotal |-> subtotal, fee |-> fee, discount |-> 0, kind |-> "NONE", value |-> 0]
NoPrice == Undiscounted(0, 0)
ClosedPage == [step |-> "closed", settings |-> [fee |-> 0, revision |-> 0],
               voucher |-> NoVoucher, quota |-> 0]

---------------------------------------------------------------------------
(* Prices, in uint64 *)

Wrap(n) == n % (MaxUint + 1)
Lesser(a, b) == IF a <= b THEN a ELSE b

\* A slip: multiply first, divide last.
DiscountNaive(subtotal, kind, value) ==
    IF kind = "PERCENT" THEN Wrap(subtotal * value) \div 100 ELSE Lesser(subtotal, value)

Discount(subtotal, kind, value) ==
    IF kind = "PERCENT"
    THEN Wrap(Wrap((subtotal \div 100) * value) + Wrap((subtotal % 100) * value) \div 100)
    ELSE Lesser(subtotal, value)

Total(p) == Wrap(Wrap(p.subtotal + p.fee) - p.discount)

---------------------------------------------------------------------------
(* usage: held while the order is pending, consumed once tickets were      *)
(* issued, released otherwise.                                             *)

Carries(r) == order[r] # "NONE" /\ price[r].kind # "NONE"
Applied(r) == create[r] = "priced" /\ price[r].kind # "NONE"
Held == {r \in Reservation : Carries(r) /\ ~consumed[r] /\ order[r] = "PENDING"}
Consumed == {r \in Reservation : Carries(r) /\ consumed[r]}
InUse == Cardinality(Held \cup Consumed)

---------------------------------------------------------------------------
(* Row locks *)

FeeShared == \E r \in Reservation : create[r] # "none"
VoucherLocked ==
    \/ \E r \in Reservation : Applied(r)
    \/ \E a \in Admin : page[a].step = "saving"

---------------------------------------------------------------------------
(* checkout: Create, from its call of Calculate on.  The event and the     *)
(* reservation row are locked already; a reservation that was checked out  *)
(* is answered with its order.                                             *)

ReadFee(r, subtotal) ==
    /\ order[r] = "NONE" /\ create[r] = "none"
    /\ subtotal <= MaxUint - settings.fee
    /\ create' = [create EXCEPT ![r] = "fee"]
    /\ price' = [price EXCEPT ![r] = Undiscounted(subtotal, settings.fee)]
    /\ UNCHANGED <<settings, voucher, order, original, consumed, page>>

\* Calculate: a total of zero is refused.
Priced(r, p) ==
    /\ create[r] = "fee"
    /\ Total(p) # 0
    /\ create' = [create EXCEPT ![r] = "priced"]
    /\ price' = [price EXCEPT ![r] = p]
    /\ UNCHANGED <<settings, voucher, order, original, consumed, page>>

PriceWithoutVoucher(r) == Priced(r, price[r])

Discounted(p) ==
    LET t == voucher.terms
    IN  [p EXCEPT !.discount = Discount(p.subtotal, t.kind, t.value),
                  !.kind = t.kind, !.value = t.value]

Eligible(p) ==
    /\ voucher.revision # 0
    /\ voucher.terms.active /\ p.subtotal >= voucher.terms.minimum

\* A slip: the voucher is read as for a quote, without its lock.
PriceAsQuoted(r) ==
    /\ Eligible(price[r])
    /\ InUse < voucher.quota
    /\ Priced(r, Discounted(price[r]))

\* The dates of the voucher and the event it is for are further reasons to refuse.
PriceWithVoucher(r) ==
    /\ ~VoucherLocked
    /\ Eligible(price[r])
    /\ InUse < voucher.quota
    /\ Priced(r, Discounted(price[r]))

CommitOrder(r) ==
    /\ create[r] = "priced"
    /\ create' = [create EXCEPT ![r] = "none"]
    /\ order' = [order EXCEPT ![r] = "PENDING"]
    /\ UNCHANGED <<settings, voucher, original, price, consumed, page>>

\* A refusal, an error or a restart rolls the transaction back.
RollBack(r) ==
    /\ create[r] # "none"
    /\ create' = [create EXCEPT ![r] = "none"]
    /\ price' = [price EXCEPT ![r] = NoPrice]
    /\ UNCHANGED <<settings, voucher, order, original, consumed, page>>

---------------------------------------------------------------------------
(* What happens to the order later *)

SetOrder(r, status) ==
    /\ order' = [order EXCEPT ![r] = status]
    /\ UNCHANGED <<settings, voucher, price, create, page>>

\* A slip: the tickets are issued and the use stays as it was.
SettleUncounted(r) ==
    /\ order[r] = "PENDING"
    /\ SetOrder(r, "PAID")
    /\ UNCHANGED <<original, consumed>>

\* A settlement in time: issueAndLoadTickets consumes the use.
Settle(r) ==
    /\ order[r] = "PENDING"
    /\ consumed' = [consumed EXCEPT ![r] = Carries(r)]
    /\ SetOrder(r, "PAID")
    /\ UNCHANGED original

\* expireLockedOrder, EXPIRED or CANCELLED.  A settlement that comes later changes
\* neither the order nor the use.
Expire(r) ==
    /\ order[r] = "PENDING"
    /\ SetOrder(r, "EXPIRED")
    /\ UNCHANGED <<original, consumed>>

\* submit, also after an earlier refund failed
RequestRefund(r) ==
    /\ order[r] \in {"PAID", "EXPIRED"}
    /\ original' = [original EXCEPT ![r] = order[r]]
    /\ SetOrder(r, "REFUND_PENDING")
    /\ UNCHANGED consumed

\* finishTx
FinishRefund(r) ==
    /\ order[r] = "REFUND_PENDING"
    /\ \E status \in {"REFUNDED", original[r]} : SetOrder(r, status)
    /\ UNCHANGED <<original, consumed>>

---------------------------------------------------------------------------
(* The pricing page *)

LoadPage(a) ==
    /\ page[a].step = "closed"
    /\ page' = [page EXCEPT ![a] = [step |-> "open", settings |-> settings,
                                    voucher |-> voucher, quota |-> 0]]
    /\ UNCHANGED <<settings, voucher, order, original, price, consumed, create>>

\* The admin leaves, the save is refused, or its transaction is rolled back.
ClosePage(a) ==
    /\ page[a].step # "closed"
    /\ page' = [page EXCEPT ![a] = ClosedPage]
    /\ UNCHANGED <<settings, voucher, order, original, price, consumed, create>>

\* A slip: the fee is saved without waiting for the checkouts that read it.
SaveSettingsAtOnce(a, fee) ==
    /\ page[a].step = "open"
    /\ settings.revision = page[a].settings.revision /\ settings.revision < MaxFeeRevision
    /\ settings' = [fee |-> fee, revision |-> settings.revision + 1]
    /\ page' = [page EXCEPT ![a] = ClosedPage]
    /\ UNCHANGED <<voucher, order, original, price, consumed, create>>

\* saveSettings: FOR UPDATE waits for every checkout that has read the fee.
SaveSettings(a, fee) ==
    /\ page[a].step = "open" /\ ~FeeShared
    /\ settings.revision = page[a].settings.revision /\ settings.revision < MaxFeeRevision
    /\ settings' = [fee |-> fee, revision |-> settings.revision + 1]
    /\ page' = [page EXCEPT ![a] = ClosedPage]
    /\ UNCHANGED <<voucher, order, original, price, consumed, create>>

\* saveVoucher, POST: the primary key refuses a second row.
CreateVoucher(a, terms, quota) ==
    /\ page[a].step = "open"
    /\ voucher.revision = 0
    /\ voucher' = [terms |-> terms, quota |-> quota, revision |-> 1]
    /\ page' = [page EXCEPT ![a] = ClosedPage]
    /\ UNCHANGED <<settings, order, original, price, consumed, create>>

\* A slip: the revision the admin has loaded is not compared.
CheckAnyVoucher(a, quota) ==
    /\ page[a].step = "open" /\ page[a].voucher.revision # 0
    /\ ~VoucherLocked /\ voucher.revision < MaxRevision
    /\ quota >= InUse
    /\ page' = [page EXCEPT ![a].step = "saving", ![a].quota = quota]
    /\ UNCHANGED <<settings, voucher, order, original, price, consumed, create>>

\* saveVoucher, PUT: the row is locked, then its uses are counted.
CheckVoucher(a, quota) ==
    /\ page[a].step = "open" /\ page[a].voucher.revision # 0
    /\ ~VoucherLocked /\ voucher.revision < MaxRevision
    /\ voucher.revision = page[a].voucher.revision /\ quota >= InUse
    /\ page' = [page EXCEPT ![a].step = "saving", ![a].quota = quota]
    /\ UNCHANGED <<settings, voucher, order, original, price, consumed, create>>

WriteVoucher(a, terms) ==
    /\ page[a].step = "saving"
    /\ voucher' = [terms |-> terms, quota |-> page[a].quota, revision |-> voucher.revision + 1]
    /\ page' = [page EXCEPT ![a] = ClosedPage]
    /\ UNCHANGED <<settings, order, original, price, consumed, create>>

---------------------------------------------------------------------------
Init ==
    /\ \E fee \in Fee : settings = [fee |-> fee, revision |-> 1]
    /\ voucher = NoVoucher
    /\ order = [r \in Reservation |-> "NONE"]
    /\ original = [r \in Reservation |-> "NONE"]
    /\ price = [r \in Reservation |-> NoPrice]
    /\ consumed = [r \in Reservation |-> FALSE]
    /\ create = [r \in Reservation |-> "none"]
    /\ page = [a \in Admin |-> ClosedPage]

OrderNext(r) ==
    \/ \E subtotal \in Subtotal : ReadFee(r, subtotal)
    \/ PriceWithoutVoucher(r) \/ PriceWithVoucher(r) \/ CommitOrder(r) \/ RollBack(r)
    \/ Settle(r) \/ Expire(r) \/ RequestRefund(r) \/ FinishRefund(r)

AdminNext(a) ==
    \/ LoadPage(a) \/ ClosePage(a)
    \/ \E fee \in Fee : SaveSettings(a, fee)
    \/ \E quota \in Quota : CheckVoucher(a, quota)
    \/ \E terms \in Terms : WriteVoucher(a, terms)
    \/ \E terms \in Terms, quota \in Quota : CreateVoucher(a, terms, quota)

Next ==
    \/ \E r \in Reservation : OrderNext(r)
    \/ \E a \in Admin : AdminNext(a)

Spec == Init /\ [][Next]_vars

---------------------------------------------------------------------------
Settings == [fee : Fee, revision : 1..MaxFeeRevision]
Voucher == [terms : Terms, quota : Quota, revision : 1..MaxRevision] \cup {NoVoucher}
Price == [subtotal : Subtotal \cup {0}, fee : Fee \cup {0}, discount : 0..MaxUint,
          kind : {"NONE", "PERCENT", "FIXED"}, value : 0..MaxUint]
Page == [step : {"open", "saving"}, settings : Settings, voucher : Voucher,
         quota : Quota \cup {0}] \cup {ClosedPage}

\* Every column and every page holds a value of its type.
TypeOK ==
    /\ settings \in Settings /\ voucher \in Voucher
    /\ order \in [Reservation -> {"NONE", "PENDING", "PAID", "EXPIRED", "REFUND_PENDING", "REFUNDED"}]
    /\ original \in [Reservation -> {"NONE", "PAID", "EXPIRED"}]
    /\ price \in [Reservation -> Price]
    /\ consumed \in [Reservation -> BOOLEAN]
    /\ create \in [Reservation -> {"none", "fee", "priced"}]
    /\ page \in [Admin -> Page]

\* However checkouts, settlements, expiries and edits of the quota interleave, the uses
\* that are held or consumed never exceed the quota: the last one goes to one buyer
\* (Calculate in pricing.go; "kuota tidak boleh diturunkan di bawah ditahan + dikonsumsi").
QuotaKept == voucher.revision # 0 => InUse <= voucher.quota

\* A use is consumed exactly when the order was sold, and stays so through every refund
\* (issueAndLoadTickets; a refund "tidak mengembalikan kuota yang sudah dikonsumsi").
ConsumedWhenSold ==
    \A r \in Reservation :
        consumed[r] <=> Carries(r) /\ (order[r] = "PAID" \/ original[r] = "PAID")

\* The discount by its definition: a percentage rounded down, or the value up to the subtotal
Reference(p) ==
    CASE p.kind = "PERCENT" -> (p.subtotal * p.value) \div 100
      [] p.kind = "FIXED"   -> Lesser(p.subtotal, p.value)
      [] OTHER              -> 0

\* What an order charges is its subtotal and fee less the discount of its own snapshot:
\* no intermediate result wraps, the discount stays within the subtotal, and the total
\* is positive (Discount and Calculate in pricing.go).
PriceIsExact ==
    \A r \in Reservation : order[r] # "NONE" =>
        LET p == price[r] IN
        /\ p.discount = Reference(p) /\ p.discount <= p.subtotal
        /\ Total(p) = p.subtotal + p.fee - p.discount /\ Total(p) > 0

\* An order is created at the fee and the terms in force when it commits, though both
\* were read earlier in its transaction and admins save in between.
PricedAsCommitted ==
    [][\A r \in Reservation : order[r] = "NONE" /\ order'[r] # "NONE" =>
        /\ price'[r].fee = settings.fee
        /\ Carries(r)' => /\ <<price'[r].kind, price'[r].value>> =
                                 <<voucher.terms.kind, voucher.terms.value>>
                          /\ voucher.terms.active /\ InUse < voucher.quota]_vars

\* A save replaces the very voucher or settings its admin had loaded: no edit of another
\* admin is overwritten unseen (the revision check of saveVoucher and saveSettings).
NoLostEdit ==
    [][/\ settings' # settings =>
            \E a \in Admin : page[a].step = "open" /\ page'[a].step = "closed"
                             /\ page[a].settings = settings
       /\ voucher' # voucher =>
            \E a \in Admin : page[a].step # "closed" /\ page'[a].step = "closed"
                             /\ page[a].voucher = voucher]_vars
---------------------------------------------------------------------------
(* Why these hold: what the open transactions may rely on.                 *)

\* An order ends one way; a transaction is that of a reservation without an order.
OrdersAgree ==
    \A r \in Reservation :
        /\ order[r] # "NONE" => create[r] = "none"
        /\ order[r] = "NONE" /\ create[r] = "none" => price[r] = NoPrice
        /\ order[r] \in {"NONE", "PENDING"} => original[r] = "NONE"
        /\ order[r] \in {"PAID", "EXPIRED"} => original[r] \in {"NONE", order[r]}
        /\ order[r] = "REFUND_PENDING" => original[r] # "NONE"

\* Amounts fit, before the discount and after it.
AmountsAgree ==
    \A r \in Reservation :
        LET p == price[r] IN
        /\ p.subtotal + p.fee <= MaxUint
        /\ p.discount = Reference(p) /\ p.discount <= p.subtotal
        /\ order[r] # "NONE" \/ create[r] = "priced" => Total(p) # 0
        /\ create[r] = "fee" => p.kind = "NONE"

\* The shared lock keeps the fee.
FeeAgrees == \A r \in Reservation : create[r] # "none" => price[r].fee = settings.fee

\* The lock on the voucher row has one holder.
LockExclusive ==
    /\ \A r, q \in Reservation : Applied(r) /\ Applied(q) => r = q
    /\ \A a, b \in Admin : page[a].step = "saving" /\ page[b].step = "saving" => a = b
    /\ \A r \in Reservation, a \in Admin : ~(Applied(r) /\ page[a].step = "saving")

\* What the holder counted still bounds the uses, and what it read is still there.
CountsStand ==
    /\ QuotaKept /\ (voucher.revision = 0 => InUse = 0)
    /\ \A r \in Reservation : Applied(r) =>
          /\ voucher.revision # 0 /\ voucher.terms.active /\ InUse < voucher.quota
          /\ price[r].kind = voucher.terms.kind /\ price[r].value = voucher.terms.value
    /\ \A a \in Admin : page[a].step = "saving" =>
          /\ page[a].voucher = voucher /\ voucher.revision \in 1..(MaxRevision - 1)
          /\ page[a].quota \in Quota /\ InUse <= page[a].quota

\* A revision names one content, for ever.
PagesAgree ==
    \A a \in Admin : page[a].step # "closed" =>
        /\ page[a].settings.revision <= settings.revision
        /\ page[a].settings.revision = settings.revision => page[a].settings = settings
        /\ page[a].voucher.revision <= voucher.revision
        /\ page[a].voucher.revision = voucher.revision => page[a].voucher = voucher

PricingInvariant ==
    /\ OrdersAgree /\ AmountsAgree /\ FeeAgrees /\ LockExclusive
    /\ CountsStand /\ PagesAgree /\ ConsumedWhenSold
===========================================================================
