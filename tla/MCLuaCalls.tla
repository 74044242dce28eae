----------------------------- MODULE MCLuaCalls -----------------------------
(* Two coroutines, and limits that a few calls reach.                                *)
EXTENDS LuaCalls, TLC

MCSymmetry == Permutations(Coroutines)
=============================================================================
