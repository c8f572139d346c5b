------------------------- MODULE MCImageDeployment -------------------------
(* An instance of ImageDeployment for TLC. *)
EXTENDS ImageDeployment

\* Two repositories.  The second commit of the frontend's leaves web/, the
\* context of its image, as it was.
TwoRepos == [access |-> 1, frontend |-> 2]
TwoTrees == [access |-> <<"a", "b">>, frontend |-> <<"a", "a">>]
TwoServices == <<"access", "frontend">>
=============================================================================
