--------------------------- MODULE MCSecretRotation ---------------------------
(* Instances of SecretRotation for TLC. *)
EXTENDS SecretRotation, TLC

RunSymmetry == Permutations(Runs)
=============================================================================
