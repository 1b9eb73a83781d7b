\* Three requests on two images and one food, one slot and one place in the queue.
\* No symmetry: liveness is checked as well.
SPECIFICATION Spec
CONSTANTS
  r1 = r1  r2 = r2  r3 = r3  i1 = i1  i2 = i2  i3 = i3  f1 = f1  f2 = f2
  Request = {r1, r2, r3}
  Image = {i1, i2}
  Stored = {i1}
  Food = {f1}
  Field = {"img"}
  Variant = {"card"}
  MaxActive = 1
  MaxQueue = 1
  MaxUploads = 2
  None = None
CHECK_DEADLOCK FALSE
INVARIANTS
  TypeOK
  NoOrphanVariant
  OneJobPerVariant
  SlotsAreUsed
PROPERTIES
  EveryRequestAnswered
