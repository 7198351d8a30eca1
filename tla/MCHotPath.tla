----------------------------- MODULE MCHotPath ------------------------------
(* HotPath for TLC: key k1 belongs to user u1; k2, when there is one, is u1's *)
(* too or another user's.                                                   *)
EXTENDS HotPath, TLC

CONSTANTS c1, c2, u1, u2, k1, k2

OneOwner == k1 :> u1
TwoOwners == (k1 :> u1) @@ (k2 :> u2)

ClientSymmetry == Permutations(Clients)
=============================================================================
