--------------------------- MODULE MCImageRelease ---------------------------
(* Instances of ImageRelease for TLC. *)
EXTENDS ImageRelease

\* One service of one repository.
OneRepo == [s \in {"access"} |-> 1]
OneTrees == [s \in {"access"} |-> <<"a", "b">>]
=============================================================================
