----------------------------- MODULE MCMailpit -----------------------------
(* Mailpit for TLC: calls, keys and codes are interchangeable in the safety run. *)
EXTENDS Mailpit, TLC

Symmetry == Permutations(Sends) \cup Permutations(Keys) \cup Permutations(Codes)
=============================================================================
