----------------------------- MODULE MCSyncPublish -----------------------------
(* A small instance of SyncPublish: two partitions, and a key in each.     *)
(* Requests are interchangeable: no definition singles one out.            *)
EXTENDS SyncPublish, TLC

CONSTANTS k1, k2

MCHash == (k1 :> 0) @@ (k2 :> 1)
MCOneKeyHash == k1 :> 0
Symmetry == Permutations(Requests)
===============================================================================
