\* Two quantity changes that overlap: the details no longer match the quantity.
SPECIFICATION Spec
CONSTANTS
  r1 = r1  r2 = r2  r3 = r3  k1 = k1  k2 = k2
  Request = {r1, r2}
  Key = {k1}
  Payment <- TwoPayments
  MaxUnit = 4
  MaxQty = 2
  None = None
CHECK_DEADLOCK FALSE
INVARIANTS
  OneDetailPerUnit
