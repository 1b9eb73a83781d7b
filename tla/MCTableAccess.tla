---------------------------- MODULE MCTableAccess ----------------------------
(* Small instances of TableAccess for TLC.                                  *)
EXTENDS TableAccess, TLC

CONSTANTS r1, r2, r3, s1, s2, k1, k2, n1, n2

Interchangeable ==
  Permutations(Request) \cup Permutations(Session) \cup Permutations(Number)
==============================================================================
