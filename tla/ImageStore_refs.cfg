\* Two requests save a food while its replaced image is being cleaned up.
SPECIFICATION Spec
CONSTANTS
  r1 = r1  r2 = r2  r3 = r3  i1 = i1  i2 = i2  i3 = i3  f1 = f1  f2 = f2
  Request = {r1, r2}
  Image = {i1}
  Stored = {i1}
  Food = {f1}
  Field = {"img", "detailImg"}
  Variant = {"card"}
  MaxActive = 2
  MaxQueue = 8
  MaxUploads = 4
  None = None
CHECK_DEADLOCK FALSE
SYMMETRY Interchangeable
PROPERTIES
  DeletedIsUnreferenced
