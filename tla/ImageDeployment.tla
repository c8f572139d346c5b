-------------------------- MODULE ImageDeployment --------------------------
(***************************************************************************)
(* Deployments and rollbacks of published image releases                   *)
(* (.github/workflows/deploy.yml with scripts/aws_image_release.py): the   *)
(* workflow fetches the manifest of a release once, later asks the         *)
(* registry for the digest of every image in it, one after the other, and  *)
(* hands the manifest to aws_deploy.py.  Meanwhile ImageRelease goes on:   *)
(* images are pushed and expire, older runs are re-run and publish.        *)
(*                                                                         *)
(* What aws_deploy.py does with the manifest is ReleaseDeploy.             *)
(***************************************************************************)
EXTENDS ImageRelease

CONSTANT ServiceOrder  \* the services in the order of a manifest's images

ASSUME OrderAssumption ==
  /\ Len(ServiceOrder) \in Nat \ {0}
  /\ Services = {ServiceOrder[k] : k \in 1 .. Len(ServiceOrder)}

VARIABLES
  fetched,     \* the manifest of the deployment under way, if there is one
  verified,    \* how many of its images that deployment has found in the registry
  deployed     \* the manifest the last deployment went ahead with, if any did

deployVars == <<fetched, verified, deployed>>

Manifests == [id : Ids, images : [Services -> Nat]]

DeployInit ==
  /\ Init
  /\ fetched = {}
  /\ verified = 0
  /\ deployed = {}

-----------------------------------------------------------------------------
\* One deployment at a time: the workflow's concurrency group.
Fetch(i) ==
  /\ fetched = {} /\ i \in Published
  /\ fetched' = {[id |-> releases[i].id, images |-> releases[i].images]}
  /\ UNCHANGED <<vars, verified, deployed>>

\* The tag exists, whatever it holds now.
MatchesMutant(m, s) == EcrDigest(s, ImageTag(m.id, s)) # 0

Matches(m, s) == EcrDigest(s, ImageTag(m.id, s)) = m.images[s]

DeploymentEnds == fetched' = {} /\ verified' = 0

\* The check of one image.  Once the last has been found the workflow goes ahead, and
\* nobody asks the registry again before the nodes pull the images.
VerifyImage ==
  /\ fetched # {}
  /\ IF \A m \in fetched : Matches(m, ServiceOrder[verified + 1])
     THEN IF verified + 1 < Len(ServiceOrder)
          THEN verified' = verified + 1 /\ UNCHANGED <<fetched, deployed>>
          ELSE deployed' = fetched /\ DeploymentEnds
     ELSE DeploymentEnds /\ UNCHANGED deployed
  /\ UNCHANGED vars

\* A call of the registry fails, or the workflow stops before aws_deploy.py starts.
\* Nothing is left of such a deployment, so there is no bound on them.
DeploymentStops ==
  /\ fetched # {}
  /\ DeploymentEnds
  /\ UNCHANGED <<vars, deployed>>

DeployNext ==
  \/ Next /\ UNCHANGED deployVars
  \/ \E i \in DOMAIN releases : Fetch(i)
  \/ VerifyImage
  \/ DeploymentStops

DeploySpec == DeployInit /\ [][DeployNext]_<<vars, deployVars>>

-----------------------------------------------------------------------------
\* The variables stay in their ranges.
DeploysOK ==
  /\ fetched \subseteq Manifests
  /\ verified \in 0 .. Len(ServiceOrder) - 1
  /\ fetched = {} => verified = 0
  /\ deployed \subseteq Manifests

\* The manifests under way and in use are complete and of their own inputs.
ManifestInv ==
  \A m \in fetched \cup deployed :
    /\ SoundResult(m.id, m.images)
    /\ \A s \in Services : m.images[s] # 0

\* Service s of manifest m goes on with its image in n, or that image has expired and n
\* has a newer one.
Stays(m, n, s) ==
  ImageTag(m.id, s) = ImageTag(n.id, s) /\ m.images[s] # n.images[s] =>
    m.images[s] <= expired[s] /\ m.images[s] < n.images[s]

\* What the checks so far have shown outlasts whatever expires and is pushed after them.
VerifiedInv ==
  \A m \in deployed, n \in fetched, k \in 1 .. verified : Stays(m, n, ServiceOrder[k])

\* The inductive invariant of publication and deployment together.
DeployInv == IInv /\ DeploysOK /\ HeldInv /\ ManifestInv /\ VerifiedInv

\* A service whose build inputs a deployment or a rollback leaves as they are goes
\* on with the very image it runs, unless the registry has let go of that image, and
\* then with a newer one: although a tag is built anew once its image has expired,
\* re-runs publish results of long ago, and images expire and are pushed between the
\* checks of one verification (immutable tags, prepare_build, verify;
\* docs/aws-image-releases.md on services that are not restarted).
UnchangedServiceStays ==
  [][deployed' # deployed =>
       \A m \in deployed, n \in deployed', s \in Services : Stays(m, n, s)]_<<vars, deployVars>>
=============================================================================
