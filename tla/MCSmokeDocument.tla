---------------------------- MODULE MCSmokeDocument ----------------------------
(* Instances of SmokeDocument for TLC. *)
EXTENDS SmokeDocument
=============================================================================
