\* Two cashiers, or one and a retry, settle the two orders of a table.
\* No symmetry: liveness is checked as well.
SPECIFICATION Spec
CONSTANTS
  r1 = r1  r2 = r2  r3 = r3  k1 = k1  k2 = k2  k3 = k3
  Request = {r1, r2}
  Key = {k1, k2}
  Order = {1, 2}
  Existing = {1, 2}
  TableOrder = {1, 2}
  Kind = {"settle"}
  Intent = {}
  MaxRetry = 1
  None = None
CHECK_DEADLOCK FALSE
INVARIANTS
  RefusalIsFinal
PROPERTIES
  EveryRequestEnds
