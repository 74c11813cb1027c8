SPECIFICATION Spec
CONSTANTS
  Reservation = {r1, r2}
  Admin = {a1, a2}
  Subtotal = {15999}
  Fee = {0, 7}
  Terms <- MCTerms
  Quota = {1, 2}
  MaxUint = 16383
  MaxFeeRevision = 2
  MaxRevision = 3
SYMMETRY MCSymmetry
INVARIANTS QuotaKept ConsumedWhenSold PriceIsExact
PROPERTIES PricedAsCommitted NoLostEdit
