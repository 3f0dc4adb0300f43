---------------------------- MODULE MCTokenCache ----------------------------
(* TokenCache for TLC: the calls are interchangeable in the safety runs. *)
EXTENDS TokenCache, TLC

Symmetry == Permutations(Calls)
=============================================================================
