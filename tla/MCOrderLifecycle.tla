-------------------------- MODULE MCOrderLifecycle --------------------------
(* Small instances of OrderLifecycle for TLC.                              *)
EXTENDS OrderLifecycle, TLC

CONSTANTS o1, o2, o3, b1, b2, s1, s2, t1, ann, kim, wil, kit

MCStaffLevel == ann :> "kassa" @@ kim :> "admin" @@ wil :> "waiter" @@ kit :> "kitchen"
MCLevel == [u \in Staff |-> MCStaffLevel[u]]
MCTableOf == [s \in Session |-> t1]

RowSymmetry == Permutations(Order) \cup Permutations(Bill)
=============================================================================
