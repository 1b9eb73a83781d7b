\* Standalone counter orders: two cashiers, two orders, refunds.
SPECIFICATION Spec
CONSTANTS
  o1 = o1  o2 = o2  o3 = o3  b1 = b1  b2 = b2  s1 = s1  s2 = s2  t1 = t1
  ann = ann  kim = kim  wil = wil  kit = kit
  Order = {o1, o2}
  Bill = {b1, b2}
  Session = {s1}
  Table = {t1}
  TableOf <- MCTableOf
  Staff = {ann, kim, kit}
  Level <- MCLevel
  Price = {0, 2}
  MaxCents = 3
  MaxVersion = 5
  MaxToken = 2
  NoBill = NoBill
  NoSession = NoSession
  NoUser = NoUser
SYMMETRY RowSymmetry
CHECK_DEADLOCK FALSE
INVARIANTS
  TypeOK
  AuditTrail
  PaymentMatchesStatus
  KitchenStartIsFinal
  RefundIsWholePayment
PROPERTIES
  MoneyIsFinal
