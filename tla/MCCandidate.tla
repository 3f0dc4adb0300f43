---------------------------- MODULE MCCandidate ----------------------------
(* Candidate for TLC. *)
EXTENDS Candidate, TLC

Symmetry == Permutations(Contents)
=============================================================================
