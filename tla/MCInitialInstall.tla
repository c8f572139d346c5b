--------------------------- MODULE MCInitialInstall ---------------------------
(* Instances of InitialInstall for TLC. *)
EXTENDS InitialInstall
=============================================================================
