-------------------------- MODULE MCPaymentRequests --------------------------
(* Small instances of PaymentRequests for TLC.                              *)
EXTENDS PaymentRequests, TLC

CONSTANTS r1, r2, r3, k1, k2, k3

Interchangeable == Permutations(Request) \cup Permutations(Key)
==============================================================================
