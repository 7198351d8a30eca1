----------------------------- MODULE MCJournal ------------------------------
(* Journal for TLC.                                                         *)
EXTENDS Journal, TLC

CONSTANTS i1, i2, i3

IdSymmetry == Permutations(Ids)
=============================================================================
