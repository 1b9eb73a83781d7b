\* Three requests among three accounts, starting from an empty table or an old one.
SPECIFICATION Spec
CONSTANTS
  r1 = r1  r2 = r2  r3 = r3  u1 = u1  u2 = u2  u3 = u3  n1 = n1  n2 = n2  n3 = n3
  w0 = w0  w1 = w1
  Request = {r1, r2, r3}
  User = {u1, u2, u3}
  Username = {n1, n2}
  Submitted = {"admin", "kassa", "owner"}
  Password = {w0, w1}
  OldPassword = w0
  None = None
CHECK_DEADLOCK FALSE
SYMMETRY Interchangeable
INVARIANTS
  TypeOK
  AdminRemains
  UsernamesDiffer
PROPERTIES
  RemovedStaysRemoved
  PasswordsAreKept
