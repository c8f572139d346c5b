--------------------------- MODULE MCReleaseDeploy ---------------------------
(* Instances of ReleaseDeploy for TLC. *)
EXTENDS ReleaseDeploy

\* One Deployment KEDA scales and one that it does not.
TwoApps == <<"converter", "api">>
OneApp == <<"api">>
=============================================================================
