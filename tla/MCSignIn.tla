------------------------------ MODULE MCSignIn ------------------------------
(* SignIn for TLC: two flows of people who may sign in twice. *)
EXTENDS SignIn, TLC

Symmetry == Permutations(Flows) \cup Permutations(Challenges) \cup Permutations(People)
=============================================================================
