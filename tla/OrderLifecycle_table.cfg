\* Table orders over two successive sessions of one table.
SPECIFICATION Spec
CONSTANTS
  o1 = o1  o2 = o2  o3 = o3  b1 = b1  b2 = b2  s1 = s1  s2 = s2  t1 = t1
  ann = ann  kim = kim  wil = wil  kit = kit
  Order = {o1, o2}
  Bill = {b1, b2}
  Session = {s1, s2}
  Table = {t1}
  TableOf <- MCTableOf
  Staff = {kim, wil}
  Level <- MCLevel
  Price = {1}
  MaxCents = 3
  MaxVersion = 5
  MaxToken = 1
  NoBill = NoBill
  NoSession = NoSession
  NoUser = NoUser
SYMMETRY RowSymmetry
CHECK_DEADLOCK FALSE
INVARIANTS
  BillsAddUp
  ClosedSessionSettled
PROPERTIES
  EveryWriteIsVersioned
  ClosedSessionFrozen
