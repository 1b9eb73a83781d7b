\* Two requests of any kind around one standalone Counter order.
SPECIFICATION Spec
CONSTANTS
  r1 = r1  r2 = r2  r3 = r3  k1 = k1  k2 = k2  k3 = k3
  Request = {r1, r2}
  Key = {k1, k2}
  Order = {1, 2, 3}
  Existing = {1}
  TableOrder = {}
  Kind = {"settle", "checkout", "submit"}
  Intent = {1, 2}
  MaxRetry = 2
  None = None
CHECK_DEADLOCK FALSE
SYMMETRY Interchangeable
INVARIANTS
  TypeOK
  OneOrderPerKey
PROPERTIES
  ChargesOnce
  RefusalIsTrue
