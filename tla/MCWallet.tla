------------------------------ MODULE MCWallet ------------------------------
(***************************************************************************)
(* A small instance of Wallet: two addresses; two keys whose plaintexts    *)
(* start alike and a third that does not; one amount.                      *)
(***************************************************************************)
EXTENDS Wallet

CONSTANTS alice, bob, k1, k2, k3

MCAddrs == {alice, bob}
MCKeys == {k1, k2, k3}
MCPrefix == [k \in MCKeys |-> IF k = k3 THEN "agw_bbbb" ELSE "agw_aaaa"]
=============================================================================
