------------------------------ MODULE MCTopup -------------------------------
(* Topup for TLC: three payments, of two users.                             *)
EXTENDS Topup, TLC

CONSTANTS r1, r2, u1, u2, a1, a2, a3

PayerOf == (a1 :> u1) @@ (a2 :> u2) @@ (a3 :> u1)
=============================================================================
