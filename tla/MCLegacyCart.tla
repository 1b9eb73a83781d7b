---------------------------- MODULE MCLegacyCart -----------------------------
(* Small instances of LegacyCart for TLC.                                   *)
EXTENDS LegacyCart, TLC

CONSTANTS r1, r2, r3, k1, k2

Interchangeable == Permutations(Request) \cup Permutations(Key)

\* One payment that always suffices and one that pays for a single plain unit.
TwoPayments == {[payType |-> "bank", inputMoney |-> 0],
                [payType |-> "cash", inputMoney |-> 1]}
==============================================================================
