----------------------------- MODULE MCTokenManager -----------------------------
(* TokenManager for TLC: callers are interchangeable. *)
EXTENDS TokenManager, TLC

Symmetry == Permutations(Callers)
================================================================================
