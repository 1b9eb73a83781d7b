\* Three overlapping requests of any kind on one table.
SPECIFICATION Spec
CONSTANTS
  r1 = r1  r2 = r2  r3 = r3  s1 = s1  s2 = s2  k1 = k1  k2 = k2  n1 = n1  n2 = n2
  Request = {r1, r2, r3}
  Key = {k1}
  Session = {s1, s2}
  Number = {n1, n2}
  MaxToken = 1
  MaxRetry = 1
  None = None
CHECK_DEADLOCK FALSE
SYMMETRY Interchangeable
INVARIANTS
  TypeOK
  OpenSessionHasTable
  NothingLeftBehind
PROPERTIES
  OrdersEnterWithAccess
