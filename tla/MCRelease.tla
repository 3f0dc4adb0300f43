------------------------------ MODULE MCRelease ------------------------------
(* Release for TLC. *)
EXTENDS Release, TLC
=============================================================================
