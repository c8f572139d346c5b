----------------------- MODULE ImageDeployment_proofs -----------------------
(***************************************************************************)
(* Proofs about ImageDeployment for any number of repositories, services,  *)
(* commits and incidents and any size of the registry: deployments leave   *)
(* publication alone, and a service whose build inputs a deployment does   *)
(* not change goes on with its image.                                      *)
(***************************************************************************)
EXTENDS ImageDeployment, ImageRelease_proofs

\* Deployments write nothing that publication reads, so whatever holds of
\* publication holds while releases are deployed (fetch, verify).
THEOREM PublicationGoesOn == DeploySpec => Spec
<1>1. DeployInit => Init
  BY DEF DeployInit
<1>2. [DeployNext]_<<vars, deployVars>> => [Next]_vars
  BY DEF DeployNext, Fetch, VerifyImage, DeploymentStops
<1> QED BY <1>1, <1>2, PTL DEF DeploySpec, Spec

LEMMA DeployInitInv == DeployInit => DeployInv
<1> SUFFICES ASSUME DeployInit PROVE DeployInv
  OBVIOUS
<1>1. IInv
  BY InitInv DEF DeployInit
<1>2. DeploysOK
  BY OrderAssumption DEF DeployInit, DeploysOK
<1>3. HeldInv
  BY DEF DeployInit, Init, HeldInv, Digests
<1>4. ManifestInv /\ VerifiedInv
  BY DEF DeployInit, ManifestInv, VerifiedInv
<1> QED BY <1>1, <1>2, <1>3, <1>4 DEF DeployInv

-----------------------------------------------------------------------------
\* What is known of a manifest outlasts the steps of publication.
LEMMA ManifestsKept ==
  ASSUME IInv, [Next]_vars
  PROVE  /\ \A id, res : SoundResult(id, res) => SoundResult(id, res)'
         /\ \A m, n, s : s \in Services /\ m.images[s] \in Nat /\ Stays(m, n, s) => Stays(m, n, s)'
<1>1. ASSUME NEW id, NEW res, SoundResult(id, res) PROVE SoundResult(id, res)'
  <2> SUFFICES ASSUME NEW s \in Services, res[s] # 0 PROVE Tagged(id, s, res[s])'
    BY DEF SoundResult
  <2>1. Tagged(id, s, res[s])
    BY <1>1 DEF SoundResult
  <2>2. \A d \in Digests(s) : d \in Digests(s)' /\ images'[s][d] = images[s][d]
    BY RegistryStep
  <2> QED BY <2>1, <2>2 DEF Tagged, ImageTag
<1>2. ASSUME NEW m, NEW n, NEW s \in Services, m.images[s] \in Nat, Stays(m, n, s)
      PROVE  Stays(m, n, s)'
  <2>1. expired[s] \in Nat /\ expired'[s] \in Nat /\ expired[s] <= expired'[s]
    BY RegistryStep
  <2> QED BY <1>2, <2>1 DEF Stays, ImageTag
<1> QED BY <1>1, <1>2

\* Steps of publication.
LEMMA PublicationStep ==
  ASSUME DeployInv, [Next]_vars, UNCHANGED deployVars PROVE DeployInv'
<1>1. IInv'
  BY NextInv DEF DeployInv
<1>2. DeploysOK'
  BY DEF DeployInv, DeploysOK, deployVars, Manifests
<1>3. HeldInv'
  BY HeldStep DEF DeployInv
<1>4. ManifestInv'
  BY ManifestsKept DEF DeployInv, ManifestInv, deployVars
<1>5. VerifiedInv'
  <2> SUFFICES ASSUME NEW m \in deployed, NEW n \in fetched, NEW k \in 1 .. verified
               PROVE  Stays(m, n, ServiceOrder[k])'
    BY DEF VerifiedInv, deployVars
  <2>1. ServiceOrder[k] \in Services
    BY OrderAssumption DEF DeployInv, DeploysOK
  <2>2. m.images[ServiceOrder[k]] \in Nat
    BY <2>1 DEF DeployInv, DeploysOK, Manifests
  <2>3. Stays(m, n, ServiceOrder[k])
    BY DEF DeployInv, VerifiedInv
  <2> QED BY <2>1, <2>2, <2>3, ManifestsKept DEF DeployInv
<1> QED BY <1>1, <1>2, <1>3, <1>4, <1>5 DEF DeployInv

-----------------------------------------------------------------------------
\* An image that is found in the registry is, of all with its tag, the only one there:
\* one that ran with the same tag before is the same or has expired before it was pushed.
LEMMA FoundStays ==
  ASSUME DeployInv, NEW m \in deployed, NEW n \in fetched, NEW s \in Services, Matches(n, s)
  PROVE  Stays(m, n, s)
<1> SUFFICES ASSUME ImageTag(m.id, s) = ImageTag(n.id, s), m.images[s] # n.images[s]
             PROVE  m.images[s] <= expired[s] /\ m.images[s] < n.images[s]
  BY DEF Stays
<1>1. /\ SoundResult(m.id, m.images) /\ SoundResult(n.id, n.images)
      /\ m.images[s] # 0 /\ n.images[s] # 0
  BY DEF DeployInv, ManifestInv
<1>2. /\ m.images[s] \in Digests(s) /\ images[s][m.images[s]].tag = ImageTag(m.id, s)
      /\ n.images[s] \in Digests(s) /\ images[s][n.images[s]].tag = ImageTag(n.id, s)
  BY <1>1 DEF SoundResult, Tagged
<1>3. n.images[s] \notin 1 .. expired[s]
  BY <1>1, EcrDigestHeld DEF Matches, DeployInv
<1>4. expired[s] \in Nat /\ Len(images[s]) \in Nat
  BY DEF DeployInv, IInv, TypeOK
<1>5. n.images[s] > expired[s]
  BY <1>2, <1>3, <1>4 DEF Digests
<1>6. CASE n.images[s] < m.images[s]
  <2>1. n.images[s] <= expired[s]
    BY <1>2, <1>6 DEF DeployInv, HeldInv
  <2> QED BY <1>2, <1>4, <1>5, <2>1 DEF Digests
<1>7. CASE m.images[s] < n.images[s]
  BY <1>2, <1>7 DEF DeployInv, HeldInv
<1> QED BY <1>2, <1>4, <1>6, <1>7 DEF Digests

\* Steps of a deployment.
LEMMA DeploymentStep ==
  ASSUME DeployInv, (\E i \in DOMAIN releases : Fetch(i)) \/ VerifyImage \/ DeploymentStops
  PROVE  DeployInv'
<1> USE DEF DeployInv
<1>1. UNCHANGED vars
  BY DEF Fetch, VerifyImage, DeploymentStops
<1>2. IInv'
  BY <1>1, NextInv
<1>3. HeldInv'
  BY <1>1 DEF HeldInv, Digests, vars, registry
<1>4. \A id, res : SoundResult(id, res)' <=> SoundResult(id, res)
  BY <1>1 DEF SoundResult, Tagged, Digests, ImageTag, vars, registry
<1>5. \A m, n, s : Stays(m, n, s)' <=> Stays(m, n, s)
  BY <1>1 DEF Stays, ImageTag, vars, registry
<1>6. ASSUME DeploymentEnds, deployed' = deployed \/ deployed' = fetched PROVE DeployInv'
  <2>1. DeploysOK'
    <3>1. 0 \in 0 .. Len(ServiceOrder) - 1
      BY OrderAssumption
    <3>2. fetched' \subseteq Manifests /\ deployed' \subseteq Manifests
      BY <1>6 DEF DeploysOK, DeploymentEnds
    <3> QED BY <1>6, <3>1, <3>2 DEF DeploysOK, DeploymentEnds, Manifests
  <2>2. ManifestInv'
    BY <1>4, <1>6 DEF ManifestInv, DeploymentEnds
  <2>3. VerifiedInv'
    BY <1>6 DEF VerifiedInv, DeploymentEnds
  <2> QED BY <1>2, <1>3, <2>1, <2>2, <2>3
<1>7. ASSUME NEW i \in DOMAIN releases, Fetch(i) PROVE DeployInv'
  <2>1. releases[i] \in Releases
    BY DEF IInv, TypeOK
  <2>2. DeploysOK'
    BY <1>7, <2>1 DEF Fetch, DeploysOK, Releases, Manifests
  <2>3. ManifestInv'
    BY <1>4, <1>7 DEF Fetch, ManifestInv, IInv, KeptInv
  <2>4. VerifiedInv'
    BY <1>7 DEF Fetch, VerifiedInv, DeploysOK
  <2> QED BY <1>2, <1>3, <2>2, <2>3, <2>4
<1>8. CASE VerifyImage
  <2>1. CASE DeploymentEnds /\ (deployed' = deployed \/ deployed' = fetched)
    BY <1>6, <2>1
  <2>2. CASE /\ \A n \in fetched : Matches(n, ServiceOrder[verified + 1])
             /\ verified + 1 < Len(ServiceOrder)
             /\ verified' = verified + 1 /\ UNCHANGED <<fetched, deployed>>
    <3>1. fetched # {}
      BY <1>8 DEF VerifyImage
    <3>2. DeploysOK'
      <4>1. verified + 1 \in 0 .. Len(ServiceOrder) - 1
        BY <2>2, OrderAssumption DEF DeploysOK
      <4>2. fetched' \subseteq Manifests /\ deployed' \subseteq Manifests
        BY <2>2 DEF DeploysOK
      <4> QED BY <2>2, <3>1, <4>1, <4>2 DEF DeploysOK, Manifests
    <3>3. ManifestInv'
      BY <1>4, <2>2 DEF ManifestInv
    <3>4. VerifiedInv'
      <4> SUFFICES ASSUME NEW m \in deployed, NEW n \in fetched, NEW k \in 1 .. verified + 1
                   PROVE  Stays(m, n, ServiceOrder[k])
        BY <1>5, <2>2 DEF VerifiedInv
      <4>1. CASE k = verified + 1
        <5>1. ServiceOrder[k] \in Services
          BY <4>1, OrderAssumption DEF DeploysOK
        <5> QED BY <2>2, <4>1, <5>1, FoundStays
      <4>2. CASE k # verified + 1
        BY <4>2 DEF VerifiedInv, DeploysOK
      <4> QED BY <4>1, <4>2
    <3> QED BY <1>2, <1>3, <3>2, <3>3, <3>4
  <2> QED BY <1>8, <2>1, <2>2 DEF VerifyImage
<1>9. CASE DeploymentStops
  BY <1>6, <1>9 DEF DeploymentStops
<1> QED BY <1>7, <1>8, <1>9

\* The inductive invariant of publication and deployment holds in every reachable state:
\* a tag has one image in the registry, and what a check of a deployment has shown
\* outlasts the pushes and expiries after it (verify, immutable tags).
THEOREM DeployInvariance == DeploySpec => []DeployInv
<1>1. DeployInv /\ [DeployNext]_<<vars, deployVars>> => DeployInv'
  BY PublicationStep, DeploymentStep DEF DeployNext, deployVars
<1> QED BY <1>1, DeployInitInv, PTL DEF DeploySpec

\* A service whose build inputs a deployment or a rollback leaves as they are goes on
\* with its image, or with a newer one when the registry has let go of it, whatever
\* expires and is pushed between the checks of one image and the next (verify).
THEOREM UnchangedServicesStay == DeploySpec => UnchangedServiceStays
<1>1. DeployInv /\ [DeployNext]_<<vars, deployVars>> =>
        [deployed' # deployed =>
           \A m \in deployed, n \in deployed', s \in Services : Stays(m, n, s)]_<<vars, deployVars>>
  <2> SUFFICES ASSUME DeployInv, [DeployNext]_<<vars, deployVars>>, deployed' # deployed,
                      NEW m \in deployed, NEW n \in deployed', NEW s \in Services
               PROVE  Stays(m, n, s)
    OBVIOUS
  <2>1. /\ deployed' = fetched /\ ~(verified + 1 < Len(ServiceOrder))
        /\ \A c \in fetched : Matches(c, ServiceOrder[verified + 1])
    BY DEF DeployNext, Fetch, VerifyImage, DeploymentStops, deployVars
  <2>2. verified \in Nat /\ verified + 1 = Len(ServiceOrder)
    BY <2>1, OrderAssumption DEF DeployInv, DeploysOK
  <2>3. PICK k \in 1 .. Len(ServiceOrder) : s = ServiceOrder[k]
    BY OrderAssumption
  <2>4. CASE k = verified + 1
    BY <2>1, <2>3, <2>4, FoundStays
  <2>5. CASE k # verified + 1
    <3>1. k \in 1 .. verified
      BY <2>2, <2>5
    <3> QED BY <2>1, <2>3, <3>1 DEF DeployInv, VerifiedInv
  <2> QED BY <2>4, <2>5
<1> QED BY <1>1, DeployInvariance, PTL DEF DeploySpec, UnchangedServiceStays
=============================================================================
