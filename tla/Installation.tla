----------------------------- MODULE Installation -----------------------------
(***************************************************************************)
(* What the first installation of a release promises: it is bound to one   *)
(* release and one manifest, the manifest grows by reviewed changes only,  *)
(* and it goes from bound to ready to released, once.                      *)
(***************************************************************************)
CONSTANTS
  Shas,      \* releases
  Manifests, \* manifests, each a set of changes
  None       \* no release

VARIABLES
  stage,     \* "open", "bound", "ready" or "released"
  of,        \* the release it is bound to
  manifest   \* the manifest it is bound to

Init == stage = "open" /\ of = None /\ manifest = {}

Bind == stage = "open" /\ stage' = "bound" /\ of' \in Shas /\ manifest' \in Manifests

\* A repair of a health check, each one once and before the installation is ready.
Repair(change) ==
  /\ stage = "bound" /\ change \notin manifest
  /\ manifest' = manifest \union {change}
  /\ UNCHANGED <<stage, of>>

Finish == stage = "bound" /\ stage' = "ready" /\ UNCHANGED <<of, manifest>>

\* The OAuth references, once, between readiness and release.
Wire ==
  /\ stage = "ready" /\ "oauth" \notin manifest
  /\ manifest' = manifest \union {"oauth"}
  /\ UNCHANGED <<stage, of>>

Release == stage = "ready" /\ stage' = "released" /\ UNCHANGED <<of, manifest>>

Next == Bind \/ Repair("probe") \/ Repair("mail") \/ Finish \/ Wire \/ Release

Spec == Init /\ [][Next]_<<stage, of, manifest>>
=============================================================================
