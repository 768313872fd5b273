----------------------------- MODULE MCPathBuild ----------------------------
(* Instances of PathBuild for TLC. *)
EXTENDS PathBuild
=============================================================================
