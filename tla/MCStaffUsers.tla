---------------------------- MODULE MCStaffUsers ----------------------------
(* A small instance of StaffUsers for TLC.                                  *)
EXTENDS StaffUsers, TLC

CONSTANTS r1, r2, r3, u1, u2, u3, n1, n2, n3, w0, w1

Interchangeable == Permutations(Request) \cup Permutations(User) \cup Permutations(Username)
==============================================================================
