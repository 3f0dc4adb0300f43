--------------------------- MODULE MCBuildPrepare ---------------------------
(* BuildPrepare for TLC. *)
EXTENDS BuildPrepare
=============================================================================
