---------------------------- MODULE MCImageStore ----------------------------
(* Small instances of ImageStore for TLC.                                   *)
EXTENDS ImageStore, TLC

CONSTANTS r1, r2, r3, i1, i2, i3, f1, f2

Interchangeable == Permutations(Request) \cup Permutations(Image) \cup Permutations(Food)
==============================================================================
