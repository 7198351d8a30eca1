----------------------------- MODULE MCSessions -----------------------------
(* Sessions and the calls behind them for TLC.                              *)
EXTENDS Manage, TLC

CONSTANTS h1, h2, t1, c1, u1, u2, k1, k2

SlotSymmetry == Permutations(Handlers) \cup Permutations(Users)
                \cup Permutations(Keys)
=============================================================================
