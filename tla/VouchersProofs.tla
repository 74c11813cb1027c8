-------------------------- MODULE VouchersProofs --------------------------
(***************************************************************************)
(* Prices are exact for every amount a uint64 holds, and the quota of a    *)
(* voucher is kept for any number of reservations and admins.              *)
(***************************************************************************)
EXTENDS Vouchers, FiniteSetTheorems, TLAPS

---------------------------------------------------------------------------
(* Arithmetic *)

\* What fits in a uint64 is not changed by it.
LEMMA WrapFits ==
    ASSUME NEW n \in 0..MaxUint
    PROVE  Wrap(n) = n
BY WidthAssumption DEF Wrap

\* A sum that fits, less a discount within it, is computed without wrapping.
LEMMA SumExact ==
    ASSUME NEW s \in Nat, NEW f \in Nat, NEW d \in Nat, s + f <= MaxUint, d <= s
    PROVE  Wrap(Wrap(s + f) - d) = s + f - d
<1>1. PICK t \in Nat : t = s + f
  OBVIOUS
<1>2. t \in 0..MaxUint /\ t - d \in 0..MaxUint
  BY <1>1, WidthAssumption
<1>3. Wrap(t) = t /\ Wrap(t - d) = t - d
  BY <1>2, WrapFits
<1> QED
  BY <1>1, <1>3

\* Division by 100 takes whole hundreds out.
LEMMA HundredsOut ==
    ASSUME NEW a \in Nat, NEW b \in Nat
    PROVE  (100 * a + b) \div 100 = a + b \div 100
OBVIOUS

\* A percentage computed by hundreds and rest, without a product above MaxUint, is the
\* percentage rounded down; and no discount exceeds the subtotal.
LEMMA DiscountExact ==
    ASSUME NEW s \in 0..MaxUint, NEW v \in 0..MaxUint, NEW kind,
           kind = "PERCENT" => v <= 100
    PROVE  /\ kind = "PERCENT" => Discount(s, kind, v) = (s * v) \div 100
           /\ kind # "PERCENT" => Discount(s, kind, v) = Lesser(s, v)
           /\ Discount(s, kind, v) \in 0..s
<1>1. CASE kind # "PERCENT"
  BY <1>1 DEF Discount, Lesser
<1>2. CASE kind = "PERCENT"
  <2> DEFINE h == s \div 100
             rest == s % 100
             a == h * v
             b == rest * v
  <2>1. /\ h \in Nat /\ rest \in 0..99 /\ s = 100 * h + rest
        /\ v \in 0..100 /\ s \in Nat /\ MaxUint \in Nat
    BY <1>2, WidthAssumption
  <2>2. a \in Nat /\ a <= h * 100
    <3>1. a = h * v /\ 0 <= h * v /\ h * v <= h * 100
      BY <2>1, SMTT(30)
    <3> QED
      BY <3>1, <2>1
  <2>3. b \in Nat /\ b <= rest * 100 /\ b <= 9900
    <3>1. rest * v \in Nat /\ rest * v <= rest * 100
      BY <2>1, SMTT(30)
    <3> QED
      BY <3>1, <2>1
  <2>4. s * v = 100 * a + b
    BY <2>1, SMTT(30)
  <2> HIDE DEF a, b, h, rest
  <2>5. b \div 100 \in Nat /\ b \div 100 <= rest
    BY <2>1, <2>3
  <2>6. (s * v) \div 100 = a + b \div 100
    BY <2>2, <2>3, <2>4, HundredsOut
  <2>7. a + b \div 100 \in 0..s
    BY <2>1, <2>2, <2>5
  <2>8. Discount(s, kind, v) = Wrap(Wrap(a) + Wrap(b) \div 100)
    BY <1>2 DEF Discount, a, b, h, rest
  <2>9. Wrap(a) = a /\ Wrap(b) = b
    BY <2>1, <2>2, <2>3, WrapFits, WidthAssumption
  <2>10. Wrap(a + b \div 100) = a + b \div 100
    BY <2>1, <2>7, WrapFits
  <2> QED
    BY <1>2, <2>6, <2>7, <2>8, <2>9, <2>10
<1> QED
  BY <1>1, <1>2
---------------------------------------------------------------------------
(* Types *)

LEMMA DiscountedTyped ==
    ASSUME TypeOK, NEW r \in Reservation, Eligible(price[r])
    PROVE  /\ Discounted(price[r]) \in Price
           /\ voucher.terms \in Terms
<1>1. voucher \in [terms : Terms, quota : Quota, revision : 1..MaxRevision]
  BY DEF TypeOK, Voucher, Eligible, NoVoucher
<1>2. voucher.terms.value \in 0..MaxUint /\ voucher.terms.kind \in {"PERCENT", "FIXED"}
      /\ (voucher.terms.kind = "PERCENT" => voucher.terms.value <= 100)
  BY <1>1, PricingAssumption
<1>3. price[r] \in Price
  BY DEF TypeOK
<1>4. price[r].subtotal \in 0..MaxUint
  <2>1. Subtotal \cup {0} \subseteq 0..MaxUint
    BY PricingAssumption, WidthAssumption
  <2> QED
    BY <1>3, <2>1 DEF Price
<1>5. Discount(price[r].subtotal, voucher.terms.kind, voucher.terms.value) \in 0..MaxUint
  BY <1>2, <1>4, DiscountExact, WidthAssumption
<1> QED
  BY <1>1, <1>2, <1>3, <1>5 DEF Discounted, Price

LEMMA OrderTyped ==
    ASSUME TypeOK, OrdersAgree, NEW r \in Reservation, OrderNext(r)
    PROVE  TypeOK'
<1> USE DEF TypeOK
<1>1. ASSUME NEW subtotal \in Subtotal, ReadFee(r, subtotal) PROVE TypeOK'
  <2>1. Undiscounted(subtotal, settings.fee) \in Price
    <3>1. settings.fee \in Fee /\ 0 \in 0..MaxUint
      BY WidthAssumption DEF Settings
    <3> QED
      BY <3>1 DEF Price, Undiscounted
  <2> QED
    BY <1>1, <2>1 DEF ReadFee
<1>2. CASE PriceWithoutVoucher(r)
  BY <1>2 DEF PriceWithoutVoucher, Priced
<1>3. CASE PriceWithVoucher(r)
  BY <1>3, DiscountedTyped DEF PriceWithVoucher, Priced
<1>4. CASE CommitOrder(r)
  BY <1>4 DEF CommitOrder
<1>5. CASE RollBack(r)
  <2>1. NoPrice \in Price
    BY WidthAssumption DEF Price, NoPrice, Undiscounted
  <2> QED
    BY <1>5, <2>1 DEF RollBack
<1>6. CASE Settle(r)
  BY <1>6 DEF Settle, SetOrder, Carries
<1>7. CASE Expire(r)
  BY <1>7 DEF Expire, SetOrder
<1>8. CASE RequestRefund(r)
  BY <1>8 DEF RequestRefund, SetOrder
<1>9. CASE FinishRefund(r)
  BY <1>9 DEF FinishRefund, SetOrder
<1> QED
  BY <1>1, <1>2, <1>3, <1>4, <1>5, <1>6, <1>7, <1>8, <1>9 DEF OrderNext

LEMMA AdminTyped ==
    ASSUME TypeOK, CountsStand, NEW a \in Admin, AdminNext(a)
    PROVE  TypeOK'
<1> USE DEF TypeOK
<1>1. CASE LoadPage(a)
  BY <1>1 DEF LoadPage, Page
<1>2. CASE ClosePage(a)
  BY <1>2 DEF ClosePage, Page
<1>3. ASSUME NEW fee \in Fee, SaveSettings(a, fee) PROVE TypeOK'
  <2>1. settings' \in Settings
    BY <1>3, PricingAssumption DEF SaveSettings, Settings
  <2> QED
    BY <1>3, <2>1 DEF SaveSettings, Page
<1>4. ASSUME NEW terms \in Terms, NEW quota \in Quota, CreateVoucher(a, terms, quota) PROVE TypeOK'
  <2>1. voucher' \in Voucher
    BY <1>4, PricingAssumption DEF CreateVoucher, Voucher
  <2> QED
    BY <1>4, <2>1 DEF CreateVoucher, Page
<1>5. ASSUME NEW quota \in Quota, CheckVoucher(a, quota) PROVE TypeOK'
  <2>1. page[a] \in [step : {"open", "saving"}, settings : Settings, voucher : Voucher,
                      quota : Quota \cup {0}]
    BY <1>5 DEF CheckVoucher, Page, ClosedPage
  <2>2. [page[a] EXCEPT !.step = "saving", !.quota = quota] \in Page
    BY <2>1 DEF Page
  <2>3. page' = [page EXCEPT ![a] = [page[a] EXCEPT !.step = "saving", !.quota = quota]]
    BY <1>5 DEF CheckVoucher
  <2> QED
    BY <1>5, <2>2, <2>3 DEF CheckVoucher
<1>6. ASSUME NEW terms \in Terms, WriteVoucher(a, terms) PROVE TypeOK'
  <2>1. page[a].quota \in Quota /\ voucher.revision \in 1..(MaxRevision - 1)
    BY <1>6 DEF WriteVoucher, CountsStand
  <2>2. voucher' \in Voucher
    BY <1>6, <2>1, PricingAssumption DEF WriteVoucher, Voucher
  <2> QED
    BY <1>6, <2>2 DEF WriteVoucher, Page
<1> QED
  BY <1>1, <1>2, <1>3, <1>4, <1>5, <1>6 DEF AdminNext
---------------------------------------------------------------------------
(* Counting uses *)

InUseSet == Held \cup Consumed

LEMMA InUseCounted == InUse \in Nat /\ IsFiniteSet(InUseSet) /\ InUse = Cardinality(InUseSet)
<1>1. InUseSet \in SUBSET Reservation
  BY DEF InUseSet, Held, Consumed
<1>2. IsFiniteSet(InUseSet)
  BY <1>1, PricingAssumption, FS_Subset
<1> QED
  BY <1>2, FS_CardinalityType DEF InUse, InUseSet

\* Uses that only go away: a transaction that counted them before still counts enough.
LEMMA UsesShrink ==
    ASSUME InUseSet' \subseteq InUseSet
    PROVE  InUse' <= InUse /\ InUse \in Nat /\ InUse' \in Nat
<1>1. /\ IsFiniteSet(InUseSet) /\ InUse \in Nat /\ InUse = Cardinality(InUseSet)
      /\ InUse' = Cardinality(InUseSet')
  BY InUseCounted DEF InUse, InUseSet
<1>2. InUseSet' \in SUBSET InUseSet
  OBVIOUS
<1>3. IsFiniteSet(InUseSet') /\ Cardinality(InUseSet') <= Cardinality(InUseSet)
  BY <1>1, <1>2, FS_Subset
<1>4. Cardinality(InUseSet') \in Nat
  BY <1>3, FS_CardinalityType
<1> QED
  BY <1>1, <1>3, <1>4

\* One more use, that of the order just committed.
LEMMA OneMoreUse ==
    ASSUME NEW r \in Reservation, InUseSet' \subseteq InUseSet \cup {r}
    PROVE  InUse' <= InUse + 1 /\ InUse \in Nat /\ InUse' \in Nat
<1>1. /\ IsFiniteSet(InUseSet) /\ InUse \in Nat /\ InUse = Cardinality(InUseSet)
      /\ InUse' = Cardinality(InUseSet')
  BY InUseCounted DEF InUse, InUseSet
<1>2. IsFiniteSet(InUseSet \cup {r}) /\ Cardinality(InUseSet \cup {r}) <= Cardinality(InUseSet) + 1
  BY <1>1, FS_AddElement
<1>3. InUseSet' \in SUBSET (InUseSet \cup {r})
  OBVIOUS
<1>4. /\ IsFiniteSet(InUseSet')
      /\ Cardinality(InUseSet') <= Cardinality(InUseSet \cup {r})
      /\ Cardinality(InUseSet \cup {r}) \in Nat
  BY <1>2, <1>3, FS_Subset, FS_CardinalityType
<1>5. Cardinality(InUseSet') \in Nat
  BY <1>4, FS_CardinalityType
<1> QED
  BY <1>1, <1>2, <1>4, <1>5
---------------------------------------------------------------------------
(* Steps of orders *)

LEMMA OrderShape ==
    ASSUME TypeOK, OrdersAgree, ConsumedWhenSold, NEW r \in Reservation, OrderNext(r)
    PROVE  OrdersAgree' /\ ConsumedWhenSold'
<1> USE DEF TypeOK, OrdersAgree, ConsumedWhenSold, Carries
<1>1. ASSUME NEW subtotal \in Subtotal, ReadFee(r, subtotal)
      PROVE  OrdersAgree' /\ ConsumedWhenSold'
  BY <1>1 DEF ReadFee
<1>2. CASE PriceWithoutVoucher(r) \/ PriceWithVoucher(r)
  BY <1>2 DEF PriceWithoutVoucher, PriceWithVoucher, Priced
<1>3. CASE CommitOrder(r)
  BY <1>3 DEF CommitOrder
<1>4. CASE RollBack(r)
  BY <1>4 DEF RollBack
<1>5. CASE Settle(r)
  BY <1>5 DEF Settle, SetOrder
<1>6. CASE Expire(r)
  BY <1>6 DEF Expire, SetOrder
<1>7. CASE RequestRefund(r)
  BY <1>7 DEF RequestRefund, SetOrder
<1>8. CASE FinishRefund(r)
  BY <1>8 DEF FinishRefund, SetOrder
<1> QED
  BY <1>1, <1>2, <1>3, <1>4, <1>5, <1>6, <1>7, <1>8 DEF OrderNext

\* The amounts of an order are decided in its transaction.
LEMMA OrderAmounts ==
    ASSUME TypeOK, OrdersAgree, AmountsAgree, FeeAgrees, NEW r \in Reservation, OrderNext(r)
    PROVE  AmountsAgree' /\ FeeAgrees'
<1> USE DEF TypeOK, OrdersAgree, AmountsAgree, FeeAgrees
<1>1. ASSUME NEW subtotal \in Subtotal, ReadFee(r, subtotal)
      PROVE  AmountsAgree' /\ FeeAgrees'
  <2> DEFINE p == Undiscounted(subtotal, settings.fee)
  <2>1. p.subtotal + p.fee <= MaxUint /\ p.discount = Reference(p) /\ p.discount <= p.subtotal
        /\ p.fee = settings.fee /\ p.kind = "NONE"
    <3>1. subtotal \in 1..MaxUint /\ settings.fee \in 0..MaxUint /\ MaxUint \in Nat
      <4>1. Subtotal \subseteq 1..MaxUint /\ Fee \subseteq 0..MaxUint /\ MaxUint \in Nat
        BY PricingAssumption, WidthAssumption
      <4>2. settings.fee \in Fee
        BY DEF Settings
      <4> QED
        BY <4>1, <4>2
    <3> QED
      BY <1>1, <3>1 DEF ReadFee, Undiscounted, Reference
  <2>2. price' = [price EXCEPT ![r] = p] /\ create' = [create EXCEPT ![r] = "fee"]
        /\ UNCHANGED <<settings, order>> /\ order[r] = "NONE"
    BY <1>1 DEF ReadFee
  <2> HIDE DEF p
  <2> QED
    BY <2>1, <2>2 DEF Reference, Total, Wrap
<1>2. CASE PriceWithoutVoucher(r)
  BY <1>2 DEF PriceWithoutVoucher, Priced
<1>3. CASE PriceWithVoucher(r)
  <2> DEFINE p == Discounted(price[r])
  <2>1. p.subtotal + p.fee <= MaxUint /\ p.discount = Reference(p) /\ p.discount <= p.subtotal
        /\ p.fee = price[r].fee
    <3>1. voucher.terms \in Terms
      BY <1>3, DiscountedTyped DEF PriceWithVoucher
    <3>2. voucher.terms.kind \in {"PERCENT", "FIXED"} /\ voucher.terms.value \in 0..MaxUint
          /\ (voucher.terms.kind = "PERCENT" => voucher.terms.value <= 100)
      BY <3>1, PricingAssumption
    <3>3. Subtotal \cup {0} \subseteq 0..MaxUint
      BY PricingAssumption, WidthAssumption
    <3>4. price[r] \in Price /\ price[r].subtotal \in 0..MaxUint
      BY <3>3 DEF Price
    <3>5. /\ p.subtotal = price[r].subtotal /\ p.fee = price[r].fee
          /\ p.kind = voucher.terms.kind /\ p.value = voucher.terms.value
          /\ p.discount = Discount(price[r].subtotal, voucher.terms.kind, voucher.terms.value)
      BY <3>4 DEF Discounted, Price
    <3>6. p.discount = Reference(p) /\ p.discount \in 0..p.subtotal
      BY <3>2, <3>4, <3>5, DiscountExact DEF Reference
    <3> QED
      BY <3>4, <3>5, <3>6
  <2>2. price' = [price EXCEPT ![r] = p] /\ create' = [create EXCEPT ![r] = "priced"]
        /\ UNCHANGED <<settings, order>> /\ create[r] = "fee" /\ Total(p) # 0
    BY <1>3 DEF PriceWithVoucher, Priced
  <2> HIDE DEF p
  <2> QED
    BY <2>1, <2>2 DEF Reference, Total, Wrap
<1>4. CASE CommitOrder(r)
  BY <1>4 DEF CommitOrder
<1>5. CASE RollBack(r)
  <2>1. NoPrice.subtotal + NoPrice.fee <= MaxUint /\ NoPrice.discount = Reference(NoPrice)
        /\ NoPrice.discount <= NoPrice.subtotal
    BY WidthAssumption DEF NoPrice, Undiscounted, Reference
  <2>2. order[r] = "NONE"
    BY <1>5 DEF RollBack
  <2> QED
    BY <1>5, <2>1, <2>2 DEF RollBack
<1>6. CASE Settle(r) \/ Expire(r) \/ RequestRefund(r) \/ FinishRefund(r)
  BY <1>6 DEF Settle, Expire, RequestRefund, FinishRefund, SetOrder
<1> QED
  BY <1>1, <1>2, <1>3, <1>4, <1>5, <1>6 DEF OrderNext

LEMMA QuotaTyped ==
    ASSUME TypeOK, voucher.revision # 0
    PROVE  voucher.quota \in Nat
<1>1. Quota \subseteq Nat
  BY PricingAssumption
<1>2. voucher # NoVoucher
  BY DEF NoVoucher
<1>3. voucher.quota \in Quota
  BY <1>2 DEF TypeOK, Voucher
<1> QED
  BY <1>1, <1>3

\* Steps that take no lock and add no use leave every count standing.
LEMMA CountsKept ==
    ASSUME TypeOK, LockExclusive, CountsStand, InUseSet' \subseteq InUseSet,
           UNCHANGED <<voucher, page>>,
           \A q \in Reservation : Applied(q)' => Applied(q) /\ price'[q] = price[q]
    PROVE  LockExclusive' /\ CountsStand'
<1>1. InUse' <= InUse /\ InUse \in Nat /\ InUse' \in Nat
  BY UsesShrink
<1>2. LockExclusive'
  BY DEF LockExclusive
<1>3. /\ voucher.revision # 0 => voucher.quota \in Nat
      /\ \A a \in Admin : page[a].step = "saving" => page[a].quota \in Nat
  <2>1. Quota \subseteq Nat
    BY PricingAssumption
  <2> QED
    BY <2>1, QuotaTyped DEF CountsStand
<1>4. QuotaKept' /\ (voucher.revision = 0 => InUse = 0)'
  BY <1>1, <1>3 DEF CountsStand, QuotaKept
<1>5. ASSUME NEW r \in Reservation, Applied(r)'
      PROVE  (/\ voucher.revision # 0 /\ voucher.terms.active /\ InUse < voucher.quota
              /\ price[r].kind = voucher.terms.kind /\ price[r].value = voucher.terms.value)'
  BY <1>1, <1>3, <1>5 DEF CountsStand
<1>6. ASSUME NEW a \in Admin, page'[a].step = "saving"
      PROVE  (/\ page[a].voucher = voucher /\ voucher.revision \in 1..(MaxRevision - 1)
              /\ page[a].quota \in Quota /\ InUse <= page[a].quota)'
  BY <1>1, <1>3, <1>6 DEF CountsStand
<1> QED
  BY <1>2, <1>4, <1>5, <1>6 DEF CountsStand

LEMMA OrderCounts ==
    ASSUME TypeOK, OrdersAgree, AmountsAgree, LockExclusive, CountsStand, PagesAgree,
           NEW r \in Reservation, OrderNext(r)
    PROVE  LockExclusive' /\ CountsStand' /\ PagesAgree'
<1>1. PagesAgree'
  BY DEF PagesAgree, OrderNext, ReadFee, PriceWithoutVoucher, PriceWithVoucher, Priced,
         CommitOrder, RollBack, Settle, Expire, RequestRefund, FinishRefund, SetOrder
<1> SUFFICES LockExclusive' /\ CountsStand'
  BY <1>1
<1> USE DEF TypeOK, OrdersAgree
<1>2. ASSUME NEW subtotal \in Subtotal, ReadFee(r, subtotal)
      PROVE  LockExclusive' /\ CountsStand'
  <2>1. InUseSet' \subseteq InUseSet
    BY <1>2 DEF ReadFee, InUseSet, Held, Consumed, Carries
  <2> QED
    BY <1>2, <2>1, CountsKept DEF ReadFee, Applied
<1>3. CASE PriceWithoutVoucher(r)
  <2>1. InUseSet' \subseteq InUseSet
    BY <1>3 DEF PriceWithoutVoucher, Priced, InUseSet, Held, Consumed, Carries
  <2>2. \A q \in Reservation : Applied(q)' => Applied(q) /\ price'[q] = price[q]
    BY <1>3 DEF PriceWithoutVoucher, Priced, Applied, AmountsAgree
  <2> QED
    BY <1>3, <2>1, <2>2, CountsKept DEF PriceWithoutVoucher, Priced
<1>4. CASE PriceWithVoucher(r)
  <2>1. InUseSet' \subseteq InUseSet
    BY <1>4 DEF PriceWithVoucher, Priced, InUseSet, Held, Consumed, Carries
  <2>2. InUse' <= InUse /\ InUse \in Nat /\ InUse' \in Nat
    BY <2>1, UsesShrink
  <2>3. /\ \A q \in Reservation : ~Applied(q)
        /\ \A a \in Admin : page[a].step # "saving"
    BY <1>4 DEF PriceWithVoucher, VoucherLocked
  <2>4. \A q \in Reservation : Applied(q)' => q = r
    BY <1>4, <2>3 DEF PriceWithVoucher, Priced, Applied
  <2>5. voucher.quota \in Nat /\ voucher.revision # 0 /\ InUse < voucher.quota
        /\ voucher.terms.active
    BY <1>4, QuotaTyped DEF PriceWithVoucher, Eligible
  <2>6. price'[r].kind = voucher.terms.kind /\ price'[r].value = voucher.terms.value
        /\ UNCHANGED <<voucher, page>>
    BY <1>4 DEF PriceWithVoucher, Priced, Discounted, Price
  <2>7. LockExclusive'
    BY <2>3, <2>4, <2>6 DEF LockExclusive
  <2>8. CountsStand'
    BY <2>2, <2>3, <2>4, <2>5, <2>6 DEF CountsStand, QuotaKept
  <2> QED
    BY <2>7, <2>8
<1>5. CASE CommitOrder(r)
  <2>1. \A q \in Reservation : Applied(q)' => q # r /\ Applied(q) /\ price'[q] = price[q]
    BY <1>5 DEF CommitOrder, Applied
  <2>2. UNCHANGED <<voucher, page>>
    BY <1>5 DEF CommitOrder
  <2>3. CASE ~Applied(r)
    <3>1. InUseSet' \subseteq InUseSet
      BY <1>5, <2>3 DEF CommitOrder, Applied, InUseSet, Held, Consumed, Carries
    <3> QED
      BY <2>1, <2>2, <3>1, CountsKept
  <2>4. CASE Applied(r)
    <3>1. InUseSet' \subseteq InUseSet \cup {r}
      BY <1>5 DEF CommitOrder, InUseSet, Held, Consumed, Carries
    <3>2. InUse' <= InUse + 1 /\ InUse \in Nat /\ InUse' \in Nat
      BY <3>1, OneMoreUse
    <3>3. /\ \A q \in Reservation : ~Applied(q)'
          /\ \A a \in Admin : page'[a].step # "saving"
      BY <2>1, <2>2, <2>4 DEF LockExclusive
    <3>4. voucher.revision # 0 /\ InUse < voucher.quota /\ voucher.quota \in Nat
      BY <2>4, QuotaTyped DEF CountsStand
    <3>5. LockExclusive'
      BY <3>3 DEF LockExclusive
    <3>6. CountsStand'
      BY <2>2, <3>2, <3>3, <3>4 DEF CountsStand, QuotaKept
    <3> QED
      BY <3>5, <3>6
  <2> QED
    BY <2>3, <2>4
<1>6. CASE RollBack(r)
  <2>1. InUseSet' \subseteq InUseSet
    BY <1>6 DEF RollBack, InUseSet, Held, Consumed, Carries
  <2>2. \A q \in Reservation : Applied(q)' => Applied(q) /\ price'[q] = price[q]
    BY <1>6 DEF RollBack, Applied
  <2> QED
    BY <1>6, <2>1, <2>2, CountsKept DEF RollBack
<1>7. CASE Settle(r) \/ Expire(r) \/ RequestRefund(r) \/ FinishRefund(r)
  <2>1. InUseSet' \subseteq InUseSet
    BY <1>7 DEF Settle, Expire, RequestRefund, FinishRefund, SetOrder,
                InUseSet, Held, Consumed, Carries
  <2>2. UNCHANGED <<price, create, voucher, page>>
    BY <1>7 DEF Settle, Expire, RequestRefund, FinishRefund, SetOrder
  <2> QED
    BY <2>1, <2>2, CountsKept DEF Applied
<1> QED
  BY <1>2, <1>3, <1>4, <1>5, <1>6, <1>7 DEF OrderNext
---------------------------------------------------------------------------
(* Steps of admins *)

\* No admin changes an order.
LEMMA AdminOrders ==
    ASSUME OrdersAgree, AmountsAgree, FeeAgrees, ConsumedWhenSold, NEW a \in Admin, AdminNext(a)
    PROVE  /\ OrdersAgree' /\ AmountsAgree' /\ FeeAgrees' /\ ConsumedWhenSold'
           /\ InUse' = InUse /\ UNCHANGED <<price, create>>
<1>1. UNCHANGED <<order, original, price, consumed, create>>
  BY DEF AdminNext, LoadPage, ClosePage, SaveSettings, CreateVoucher, CheckVoucher, WriteVoucher
<1>2. settings' = settings \/ ~FeeShared
  BY DEF AdminNext, LoadPage, ClosePage, SaveSettings, CreateVoucher, CheckVoucher, WriteVoucher
<1>3. OrdersAgree'
  BY <1>1 DEF OrdersAgree
<1>4. AmountsAgree'
  BY <1>1 DEF AmountsAgree
<1>5. FeeAgrees'
  BY <1>1, <1>2 DEF FeeAgrees, FeeShared
<1>6. ConsumedWhenSold'
  BY <1>1 DEF ConsumedWhenSold, Carries
<1>7. InUse' = InUse
  BY <1>1 DEF InUse, Held, Consumed, Carries
<1> QED
  BY <1>1, <1>3, <1>4, <1>5, <1>6, <1>7

\* What an admin saves, every other admin is told of by the revision.
LEMMA AdminPages ==
    ASSUME TypeOK, PagesAgree, CountsStand, NEW a \in Admin, AdminNext(a)
    PROVE  PagesAgree'
<1>1. settings.revision \in Nat /\ voucher.revision \in Nat
  BY PricingAssumption DEF TypeOK, Settings, Voucher, NoVoucher
<1> USE DEF PagesAgree, TypeOK
<1>2. CASE LoadPage(a)
  BY <1>1, <1>2 DEF LoadPage
<1>3. CASE ClosePage(a)
  BY <1>3 DEF ClosePage, ClosedPage
<1>4. ASSUME NEW fee \in Fee, SaveSettings(a, fee) PROVE PagesAgree'
  <2>1. settings'.revision = settings.revision + 1 /\ UNCHANGED voucher
        /\ page' = [page EXCEPT ![a] = ClosedPage]
    BY <1>4 DEF SaveSettings
  <2>2. \A b \in Admin : page[b].step # "closed" => page[b].settings.revision \in Nat
    BY PricingAssumption DEF Page, ClosedPage, Settings
  <2> QED
    BY <1>1, <2>1, <2>2 DEF ClosedPage
<1>5. ASSUME NEW terms \in Terms, NEW quota \in Quota, CreateVoucher(a, terms, quota)
      PROVE  PagesAgree'
  <2>1. voucher.revision = 0 /\ voucher'.revision = 1 /\ UNCHANGED settings
        /\ page' = [page EXCEPT ![a] = ClosedPage]
    BY <1>5 DEF CreateVoucher
  <2>2. \A b \in Admin : page[b].step # "closed" => page[b].voucher.revision \in Nat
    BY PricingAssumption DEF Page, ClosedPage, Voucher, NoVoucher
  <2> QED
    BY <1>1, <2>1, <2>2 DEF ClosedPage
<1>6. ASSUME NEW quota \in Quota, CheckVoucher(a, quota) PROVE PagesAgree'
  <2>1. /\ UNCHANGED <<settings, voucher>> /\ page[a].step = "open"
        /\ \A b \in Admin : page'[b].settings = page[b].settings
                            /\ page'[b].voucher = page[b].voucher
        /\ \A b \in Admin : page'[b].step # "closed" => page[b].step # "closed"
    BY <1>6 DEF CheckVoucher, Page
  <2> QED
    BY <2>1
<1>7. ASSUME NEW terms \in Terms, WriteVoucher(a, terms) PROVE PagesAgree'
  <2>1. voucher'.revision = voucher.revision + 1 /\ UNCHANGED settings
        /\ page' = [page EXCEPT ![a] = ClosedPage]
    BY <1>7 DEF WriteVoucher
  <2>2. \A b \in Admin : page[b].step # "closed" => page[b].voucher.revision \in Nat
    BY PricingAssumption DEF Page, ClosedPage, Voucher, NoVoucher
  <2> QED
    BY <1>1, <2>1, <2>2 DEF ClosedPage
<1> QED
  BY <1>2, <1>3, <1>4, <1>5, <1>6, <1>7 DEF AdminNext

\* The lock on the voucher keeps checkouts and other admins out of a save.
LEMMA AdminCounts ==
    ASSUME TypeOK, LockExclusive, CountsStand, PagesAgree, NEW a \in Admin, AdminNext(a),
           InUse' = InUse, UNCHANGED <<price, create>>
    PROVE  LockExclusive' /\ CountsStand'
<1>1. \A r \in Reservation : Applied(r)' <=> Applied(r)
  BY DEF Applied
<1>2. InUse \in Nat
  BY InUseCounted
<1>3. /\ \A b \in Admin \ {a} : page'[b] = page[b]
      /\ page \in [Admin -> Page]
  BY DEF AdminNext, LoadPage, ClosePage, SaveSettings, CreateVoucher, CheckVoucher,
         WriteVoucher, TypeOK
<1>4. CASE (LoadPage(a) \/ ClosePage(a) \/ \E fee \in Fee : SaveSettings(a, fee))
  <2>1. voucher' = voucher /\ page'[a].step # "saving"
    BY <1>3, <1>4 DEF LoadPage, ClosePage, SaveSettings, ClosedPage
  <2>2. LockExclusive'
    BY <1>1, <1>3, <2>1 DEF LockExclusive
  <2>3. CountsStand'
    BY <1>1, <1>3, <2>1 DEF CountsStand, QuotaKept
  <2> QED
    BY <2>2, <2>3
<1>5. ASSUME NEW terms \in Terms, NEW quota \in Quota, CreateVoucher(a, terms, quota)
      PROVE  LockExclusive' /\ CountsStand'
  <2>1. /\ \A r \in Reservation : ~Applied(r)
        /\ \A b \in Admin : page[b].step # "saving"
    BY <1>5 DEF CreateVoucher, CountsStand
  <2>2. \A b \in Admin : page'[b].step # "saving"
    BY <1>3, <1>5, <2>1 DEF CreateVoucher, ClosedPage
  <2>3. voucher'.quota = quota /\ quota \in Nat /\ voucher'.revision = 1 /\ InUse = 0
    <3>1. Quota \subseteq Nat
      BY PricingAssumption
    <3> QED
      BY <1>5, <3>1 DEF CreateVoucher, CountsStand
  <2> QED
    BY <1>1, <2>1, <2>2, <2>3 DEF LockExclusive, CountsStand, QuotaKept
<1>6. ASSUME NEW quota \in Quota, CheckVoucher(a, quota)
      PROVE  LockExclusive' /\ CountsStand'
  <2>1. /\ \A r \in Reservation : ~Applied(r)
        /\ \A b \in Admin : page[b].step # "saving"
        /\ voucher' = voucher
    BY <1>6 DEF CheckVoucher, VoucherLocked
  <2>2. \A b \in Admin : page'[b].step = "saving" => b = a
    BY <1>3, <2>1
  <2>3. LockExclusive'
    BY <1>1, <2>1, <2>2 DEF LockExclusive
  <2>4. page'[a].voucher = voucher /\ page'[a].quota = quota
    BY <1>3, <1>6 DEF CheckVoucher, PagesAgree, Page, ClosedPage
  <2>5. voucher.revision \in 1..(MaxRevision - 1)
    <3>1. voucher.revision # 0 /\ voucher.revision < MaxRevision
      BY <1>6 DEF CheckVoucher
    <3>2. voucher.revision \in Nat /\ MaxRevision \in Nat
      BY PricingAssumption DEF TypeOK, Voucher, NoVoucher
    <3> QED
      BY <3>1, <3>2
  <2>6. InUse <= quota
    BY <1>2, <1>6, PricingAssumption DEF CheckVoucher
  <2> QED
    BY <1>1, <2>1, <2>2, <2>3, <2>4, <2>5, <2>6 DEF CountsStand, QuotaKept
<1>7. ASSUME NEW terms \in Terms, WriteVoucher(a, terms)
      PROVE  LockExclusive' /\ CountsStand'
  <2>1. /\ \A r \in Reservation : ~Applied(r)
        /\ \A b \in Admin : page'[b].step # "saving"
    BY <1>3, <1>7 DEF WriteVoucher, LockExclusive, ClosedPage
  <2>2. voucher'.quota = page[a].quota /\ InUse <= page[a].quota
        /\ voucher'.revision = voucher.revision + 1 /\ voucher.revision \in 1..(MaxRevision - 1)
    BY <1>7 DEF WriteVoucher, CountsStand
  <2> QED
    BY <1>1, <2>1, <2>2 DEF LockExclusive, CountsStand, QuotaKept
<1> QED
  BY <1>4, <1>5, <1>6, <1>7 DEF AdminNext
---------------------------------------------------------------------------
(* The theorems *)

LEMMA InitPricing == Init => TypeOK /\ PricingInvariant
<1> SUFFICES ASSUME Init PROVE TypeOK /\ PricingInvariant
  OBVIOUS
<1>1. TypeOK
  <2>1. NoPrice \in Price
    BY WidthAssumption DEF Price, NoPrice, Undiscounted
  <2>2. settings \in Settings
    BY PricingAssumption DEF Init, Settings
  <2> QED
    BY <2>1, <2>2 DEF Init, TypeOK, Voucher, Page
<1>2. OrdersAgree /\ FeeAgrees /\ LockExclusive /\ PagesAgree /\ ConsumedWhenSold
  BY DEF Init, OrdersAgree, FeeAgrees, LockExclusive, Applied, PagesAgree, ClosedPage,
         ConsumedWhenSold, Carries
<1>3. AmountsAgree
  BY WidthAssumption DEF Init, AmountsAgree, NoPrice, Undiscounted, Reference
<1>4. CountsStand
  <2>1. InUseSet = {}
    BY DEF Init, InUseSet, Held, Consumed, Carries
  <2>2. InUse = 0
    BY <2>1, InUseCounted, FS_EmptySet
  <2> QED
    BY <2>2 DEF Init, CountsStand, QuotaKept, NoVoucher, Applied, ClosedPage
<1> QED
  BY <1>1, <1>2, <1>3, <1>4 DEF PricingInvariant

LEMMA StepPricing ==
    TypeOK /\ PricingInvariant /\ [Next]_vars => TypeOK' /\ PricingInvariant'
<1> SUFFICES ASSUME TypeOK, PricingInvariant, [Next]_vars PROVE TypeOK' /\ PricingInvariant'
  OBVIOUS
<1> USE DEF PricingInvariant
<1>1. ASSUME NEW r \in Reservation, OrderNext(r) PROVE TypeOK' /\ PricingInvariant'
  BY <1>1, OrderTyped, OrderShape, OrderAmounts, OrderCounts
<1>2. ASSUME NEW a \in Admin, AdminNext(a) PROVE TypeOK' /\ PricingInvariant'
  BY <1>2, AdminTyped, AdminOrders, AdminPages, AdminCounts
<1>3. CASE UNCHANGED vars
  BY <1>3 DEF vars, TypeOK, OrdersAgree, AmountsAgree, FeeAgrees, LockExclusive, Applied,
              CountsStand, QuotaKept, InUse, Held, Consumed, Carries, PagesAgree,
              ConsumedWhenSold
<1> QED
  BY <1>1, <1>2, <1>3 DEF Next

\* The tables stay typed and the open transactions keep what they rely on, for any
\* number of reservations and admins (checkout.Create, pricing.saveVoucher).
THEOREM PricingInvariantHolds == Spec => [](TypeOK /\ PricingInvariant)
<1> QED
  BY InitPricing, StepPricing, PTL DEF Spec

\* The uses of a voucher that are held or consumed never exceed its quota (Calculate
\* and saveVoucher in pricing.go).
THEOREM QuotaIsKept == Spec => []QuotaKept
<1>1. PricingInvariant => QuotaKept
  BY DEF PricingInvariant, CountsStand
<1> QED
  BY <1>1, PricingInvariantHolds, PTL

\* A use is consumed exactly when its order was sold, through every refund
\* (issueAndLoadTickets in payment.go, finishTx in refund.go).
THEOREM SoldUsesAreConsumed == Spec => []ConsumedWhenSold
<1>1. PricingInvariant => ConsumedWhenSold
  BY DEF PricingInvariant
<1> QED
  BY <1>1, PricingInvariantHolds, PTL

\* Every order charges the exact price of its snapshot, whatever the amounts a uint64
\* holds (Discount and Calculate in pricing.go).
THEOREM OrdersChargeExactly == Spec => []PriceIsExact
<1>1. TypeOK /\ PricingInvariant => PriceIsExact
  <2> SUFFICES ASSUME TypeOK, PricingInvariant, NEW r \in Reservation, order[r] # "NONE"
               PROVE  /\ price[r].discount = Reference(price[r])
                      /\ price[r].discount <= price[r].subtotal
                      /\ Total(price[r]) = price[r].subtotal + price[r].fee - price[r].discount
                      /\ Total(price[r]) > 0
    BY DEF PriceIsExact
  <2>1. /\ price[r].discount = Reference(price[r]) /\ price[r].discount <= price[r].subtotal
        /\ price[r].subtotal + price[r].fee <= MaxUint /\ Total(price[r]) # 0
    BY DEF PricingInvariant, AmountsAgree
  <2>2. price[r].subtotal \in Nat /\ price[r].fee \in Nat /\ price[r].discount \in Nat
    <3>1. Subtotal \cup {0} \subseteq Nat /\ Fee \cup {0} \subseteq Nat /\ MaxUint \in Nat
      BY PricingAssumption, WidthAssumption
    <3> QED
      BY <3>1 DEF TypeOK, Price
  <2>3. Total(price[r]) = price[r].subtotal + price[r].fee - price[r].discount
    BY <2>1, <2>2, SumExact DEF Total
  <2> QED
    BY <2>1, <2>2, <2>3
<1> QED
  BY <1>1, PricingInvariantHolds, PTL

\* An order is created at the fee and terms in force when it commits (the shared lock on
\* checkout_settings and the lock on the voucher row in Calculate).
THEOREM OrdersPricedAsCommitted == Spec => PricedAsCommitted
<1>1. TypeOK /\ PricingInvariant /\ [Next]_vars =>
        [\A r \in Reservation : order[r] = "NONE" /\ order'[r] # "NONE" =>
            /\ price'[r].fee = settings.fee
            /\ Carries(r)' => /\ <<price'[r].kind, price'[r].value>> =
                                     <<voucher.terms.kind, voucher.terms.value>>
                              /\ voucher.terms.active /\ InUse < voucher.quota]_vars
  <2> SUFFICES ASSUME TypeOK, PricingInvariant, Next,
                      NEW r \in Reservation, order[r] = "NONE", order'[r] # "NONE"
               PROVE  /\ price'[r].fee = settings.fee
                      /\ Carries(r)' => /\ price'[r].kind = voucher.terms.kind
                                        /\ price'[r].value = voucher.terms.value
                                        /\ voucher.terms.active /\ InUse < voucher.quota
    OBVIOUS
  <2>1. CommitOrder(r)
    <3>1. PICK q \in Reservation : OrderNext(q)
      BY DEF Next, AdminNext, LoadPage, ClosePage, SaveSettings, CreateVoucher,
             CheckVoucher, WriteVoucher
    <3> QED
      BY <3>1 DEF OrderNext, ReadFee, PriceWithoutVoucher, PriceWithVoucher, Priced,
                  CommitOrder, RollBack, Settle, Expire, RequestRefund, FinishRefund,
                  SetOrder, TypeOK
  <2>2. create[r] = "priced" /\ price' = price
    BY <2>1 DEF CommitOrder
  <2> QED
    BY <2>2 DEF PricingInvariant, FeeAgrees, CountsStand, Applied, Carries
<1> QED
  BY <1>1, PricingInvariantHolds, PTL DEF Spec, PricedAsCommitted

\* A save replaces what its admin has loaded (the revisions in saveSettings and
\* saveVoucher).
THEOREM EditsAreSeen == Spec => NoLostEdit
<1>1. TypeOK /\ PricingInvariant /\ [Next]_vars =>
        [/\ settings' # settings =>
               \E a \in Admin : page[a].step = "open" /\ page'[a].step = "closed"
                                /\ page[a].settings = settings
         /\ voucher' # voucher =>
               \E a \in Admin : page[a].step # "closed" /\ page'[a].step = "closed"
                                /\ page[a].voucher = voucher]_vars
  <2> USE DEF TypeOK, PricingInvariant, PagesAgree
  <2>1. ASSUME TypeOK, PricingInvariant, Next, settings' # settings
        PROVE  \E a \in Admin : page[a].step = "open" /\ page'[a].step = "closed"
                                /\ page[a].settings = settings
    <3>1. PICK a \in Admin, fee \in Fee : SaveSettings(a, fee)
      BY <2>1 DEF Next, OrderNext, ReadFee, PriceWithoutVoucher, PriceWithVoucher, Priced,
                  CommitOrder, RollBack, Settle, Expire, RequestRefund, FinishRefund,
                  SetOrder, AdminNext, LoadPage, ClosePage, CreateVoucher, CheckVoucher,
                  WriteVoucher
    <3> QED
      BY <2>1, <3>1 DEF SaveSettings, ClosedPage
  <2>2. ASSUME TypeOK, PricingInvariant, Next, voucher' # voucher
        PROVE  \E a \in Admin : page[a].step # "closed" /\ page'[a].step = "closed"
                                /\ page[a].voucher = voucher
    <3>1. PICK a \in Admin : \/ \E terms \in Terms : WriteVoucher(a, terms)
                             \/ \E terms \in Terms, quota \in Quota : CreateVoucher(a, terms, quota)
      BY <2>2 DEF Next, OrderNext, ReadFee, PriceWithoutVoucher, PriceWithVoucher, Priced,
                  CommitOrder, RollBack, Settle, Expire, RequestRefund, FinishRefund,
                  SetOrder, AdminNext, LoadPage, ClosePage, CheckVoucher, SaveSettings
    <3>2. page[a].step # "closed" /\ page'[a].step = "closed"
      BY <2>2, <3>1 DEF WriteVoucher, CreateVoucher, ClosedPage
    <3>3. page[a].voucher = voucher
      <4>1. CASE \E terms \in Terms : WriteVoucher(a, terms)
        BY <2>2, <4>1 DEF WriteVoucher, CountsStand
      <4>2. CASE voucher.revision = 0
        <5>1. page[a].voucher.revision \in Nat
          BY <2>2, <3>2, PricingAssumption DEF Page, ClosedPage, Voucher, NoVoucher
        <5> QED
          BY <2>2, <3>2, <4>2, <5>1
      <4> QED
        BY <3>1, <4>1, <4>2 DEF CreateVoucher
    <3> QED
      BY <3>2, <3>3
  <2> QED
    BY <2>1, <2>2
<1> QED
  BY <1>1, PricingInvariantHolds, PTL DEF Spec, NoLostEdit
===========================================================================
