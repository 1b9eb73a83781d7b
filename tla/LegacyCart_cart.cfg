\* Three requests of any kind on one cart.
SPECIFICATION Spec
CONSTANTS
  r1 = r1  r2 = r2  r3 = r3  k1 = k1  k2 = k2
  Request = {r1, r2, r3}
  Key = {k1, k2}
  Payment <- TwoPayments
  MaxUnit = 4
  MaxQty = 2
  None = None
CHECK_DEADLOCK FALSE
SYMMETRY Interchangeable
INVARIANTS
  TypeOK
  UnitsChargedOnce
  PaidMeansCharged
  AddsKeepUnits
PROPERTIES
  ChargesTheCart
  SellsOnce
