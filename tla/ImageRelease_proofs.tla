------------------------- MODULE ImageRelease_proofs -------------------------
(***************************************************************************)
(* Proofs about ImageRelease for any number of repositories, services,     *)
(* commits and incidents and any size of the registry: the inductive       *)
(* invariant and what follows from it for a published release.             *)
(***************************************************************************)
EXTENDS ImageRelease, TLAPS

\* The registry gives out only digests of images it holds under the tag.
LEMMA EcrDigestHeld ==
  ASSUME IInv, NEW s \in Services, NEW tag, EcrDigest(s, tag) # 0
  PROVE  /\ EcrDigest(s, tag) \in Digests(s) \ 1 .. expired[s]
         /\ images[s][EcrDigest(s, tag)].tag = tag
<1> DEFINE held == {d \in Digests(s) : d > expired[s] /\ images[s][d].tag = tag}
<1>1. held # {} /\ EcrDigest(s, tag) = CHOOSE d \in held : TRUE
  BY DEF EcrDigest
<1>2. EcrDigest(s, tag) \in held
  BY <1>1
<1>3. expired[s] \in Nat /\ Len(images[s]) \in Nat
  BY DEF IInv, TypeOK
<1> QED BY <1>2, <1>3 DEF Digests

\* The end of a run leaves nothing of it behind.
LEMMA EndedRun ==
  ASSUME Ended
  PROVE  /\ phase' = "idle" /\ phase' \in Phases
         /\ input' \in RunInputs
         /\ job' \in [Services -> {"wait", "build", "pushed", "done", "failed"}]
         /\ result' \in [Services -> Nat]
         /\ attempt' \in 1 .. MaxAttempts
         /\ \A r \in Repos : SourceTested(r, input.sources[r])'
         /\ RunInv'
BY SizeAssumption
   DEF Ended, NoInput, NoResult, Phases, RunInputs, Recipes, SourceTested, RunInv

\* What a sequence of elements of S holds at an index is in S.
LEMMA ElementOfSeq ==
  ASSUME NEW S, NEW q \in Seq(S), NEW k \in DOMAIN q
  PROVE  q[k] \in S
OBVIOUS

LEMMA InitInv == Init => IInv
<1> SUFFICES ASSUME Init PROVE IInv
  OBVIOUS
<1> USE DEF Init
<1>1. TypeOK
  BY SizeAssumption, ServiceAssumption DEF TypeOK, Commits, Recipes, Phases, RunInputs, NoInput, NoResult
<1>2. GreenInv
  BY DEF GreenInv, SourceTested, NoInput
<1>3. ImageInv
  BY DEF ImageInv, Digests
<1>4. RunInv
  BY DEF RunInv, NoResult
<1>5. KeptInv
  BY DEF KeptInv
<1> QED BY <1>1, <1>2, <1>3, <1>4, <1>5 DEF IInv

-----------------------------------------------------------------------------
\* The part of TypeOK about the repositories.
OriginOK ==
  /\ head \in [Repos -> Commits]
  /\ ci \in [Repos -> [Commits -> {"none", "running", "passed", "failed"}]]
  /\ green \subseteq Repos \X Commits
  /\ recipe \in Recipes
  /\ incidents \in 0 .. MaxIncidents

\* Steps that leave registry, work and releases alone disturb only the typing
\* of the repositories and what is known about CI.
LEMMA OriginFrame ==
  ASSUME IInv, UNCHANGED <<registry, work, releases>>
  PROVE  ImageInv' /\ RunInv' /\ KeptInv' /\ (OriginOK' => TypeOK')
<1> USE DEF IInv, registry, work
<1>1. ImageInv'
  BY DEF ImageInv, Digests
<1>2. RunInv'
  BY DEF RunInv, SoundResult, Tagged, Digests
<1>3. KeptInv'
  BY DEF KeptInv, SoundResult, Tagged, Digests
<1>4. ASSUME OriginOK' PROVE TypeOK'
  BY <1>4 DEF OriginOK, TypeOK
<1> QED BY <1>1, <1>2, <1>3, <1>4

\* The repositories: CI only ever adds to the commits that have passed.
LEMMA OriginSteps ==
  ASSUME IInv,
         \/ \E r \in Repos : PushMain(r)
         \/ \E r \in Repos, c \in Commits : RestartCI(r, c)
         \/ \E r \in Repos, c \in Commits, o \in {"passed", "failed"} : FinishCI(r, c, o)
         \/ MergePlatform
  PROVE  IInv'
<1> USE DEF IInv
<1>1. UNCHANGED <<registry, work, releases>>
  BY DEF PushMain, RestartCI, FinishCI, MergePlatform
<1>2. ASSUME NEW r \in Repos, PushMain(r) PROVE TypeOK' /\ GreenInv'
  <2>1. head[r] + 1 \in Commits
    BY <1>2, SizeAssumption DEF PushMain, TypeOK, Commits
  <2>2. TypeOK'
    BY <1>1, <1>2, <2>1, OriginFrame DEF PushMain, OriginOK, TypeOK
  <2>3. GreenInv'
    BY <1>2, <2>1 DEF PushMain, TypeOK, GreenInv, SourceTested, work
  <2> QED BY <2>2, <2>3
<1>3. ASSUME NEW r \in Repos, NEW c \in Commits, RestartCI(r, c) PROVE TypeOK' /\ GreenInv'
  <2>1. TypeOK'
    <3>1. ci' \in [Repos -> [Commits -> {"none", "running", "passed", "failed"}]]
      BY <1>3 DEF RestartCI, TypeOK
    <3>2. incidents' \in 0 .. MaxIncidents
      BY <1>3, SizeAssumption DEF RestartCI, Incident, TypeOK
    <3>3. OriginOK'
      BY <1>3, <3>1, <3>2 DEF RestartCI, OriginOK, TypeOK
    <3> QED BY <1>1, <3>3, OriginFrame
  <2>2. GreenInv'
    BY <1>3 DEF RestartCI, TypeOK, GreenInv, SourceTested, work
  <2> QED BY <2>1, <2>2
<1>4. ASSUME NEW r \in Repos, NEW c \in Commits, NEW o \in {"passed", "failed"}, FinishCI(r, c, o)
      PROVE  TypeOK' /\ GreenInv'
  <2>1. TypeOK'
    <3>1. ci' \in [Repos -> [Commits -> {"none", "running", "passed", "failed"}]]
      BY <1>4 DEF FinishCI, TypeOK
    <3>2. OriginOK'
      BY <1>4, <3>1 DEF FinishCI, OriginOK, TypeOK
    <3> QED BY <1>1, <3>2, OriginFrame
  <2>2. green \subseteq green'
    BY <1>4 DEF FinishCI
  <2>3. \A q \in Repos, d \in Commits : ci'[q][d] = "passed" => <<q, d>> \in green'
    BY <1>4 DEF FinishCI, TypeOK, GreenInv
  <2>4. GreenInv'
    BY <1>1, <2>2, <2>3 DEF GreenInv, SourceTested, work
  <2> QED BY <2>1, <2>4
<1>5. ASSUME MergePlatform PROVE TypeOK' /\ GreenInv'
  <2>1. TypeOK'
    <3>1. recipe' \in Recipes
      BY <1>5, SizeAssumption DEF MergePlatform, TypeOK, Recipes
    <3>2. OriginOK'
      BY <1>5, <3>1 DEF MergePlatform, OriginOK, TypeOK
    <3> QED BY <1>1, <3>2, OriginFrame
  <2>2. GreenInv'
    BY <1>5 DEF MergePlatform, GreenInv, SourceTested, work
  <2> QED BY <2>1, <2>2
<1> QED BY <1>1, <1>2, <1>3, <1>4, <1>5, OriginFrame

-----------------------------------------------------------------------------
\* Steps that leave the repositories, the registry and the releases alone keep
\* what is known about images and, with the failed runs, about releases.
LEMMA WorkFrame ==
  ASSUME IInv, UNCHANGED <<origin, registry, releases>>
  PROVE  /\ ImageInv'
         /\ \A id, res : SoundResult(id, res) => SoundResult(id, res)'
         /\ rerunnable' \subseteq rerunnable => KeptInv'
         /\ rerunnable' \subseteq rerunnable /\ (\A r \in Repos : SourceTested(r, input.sources[r])') => GreenInv'
<1> USE DEF IInv, origin, registry
<1>1. ImageInv'
  BY DEF ImageInv, Digests
<1>2. ASSUME NEW id, NEW res, SoundResult(id, res) PROVE SoundResult(id, res)'
  BY <1>2 DEF SoundResult, Tagged, Digests
<1>3. ASSUME rerunnable' \subseteq rerunnable PROVE KeptInv'
  BY <1>3 DEF KeptInv, SoundResult, Tagged, Digests
<1>4. ASSUME rerunnable' \subseteq rerunnable, \A r \in Repos : SourceTested(r, input.sources[r])'
      PROVE  GreenInv'
  BY <1>4 DEF GreenInv, SourceTested
<1> QED BY <1>1, <1>2, <1>3, <1>4

LEMMA StartSteps ==
  ASSUME IInv,
         \/ \E v \in Recipes : StartRun(v)
         \/ \E r \in Repos : ReadHead(r)
         \/ FinishDiscovery
         \/ DiscoveryFails
  PROVE  IInv'
<1> USE DEF IInv
<1>1. UNCHANGED <<origin, registry, releases, rerunnable>>
  BY DEF StartRun, ReadHead, FinishDiscovery, DiscoveryFails
<1>2. ASSUME NEW v \in Recipes, StartRun(v) PROVE IInv'
  <2>1. TypeOK'
    BY <1>1, <1>2 DEF StartRun, TypeOK, Phases, RunInputs, NoInput, origin, registry
  <2>2. GreenInv'
    <3>1. \A r \in Repos : SourceTested(r, input.sources[r])'
      BY <1>2 DEF StartRun, NoInput, SourceTested
    <3> QED BY <1>1, <3>1, WorkFrame
  <2>3. RunInv'
    BY <1>2 DEF StartRun, RunInv
  <2> QED BY <1>1, <2>1, <2>2, <2>3, WorkFrame
<1>3. ASSUME Ended, incidents' \in 0 .. MaxIncidents PROVE IInv'
  <2>1. TypeOK'
    BY <1>1, <1>3, EndedRun DEF TypeOK, origin, registry
  <2> QED BY <1>1, <1>3, <2>1, EndedRun, WorkFrame
<1>4. ASSUME NEW r \in Repos, ReadHead(r) PROVE IInv'
  <2>1. UNCHANGED incidents /\ incidents \in 0 .. MaxIncidents
    BY <1>4 DEF ReadHead, TypeOK
  <2>2. CASE ~CiPassed(r)
    BY <1>3, <1>4, <2>1, <2>2 DEF ReadHead
  <2>3. CASE CiPassed(r)
    <3>1. input' = [sources |-> [input.sources EXCEPT ![r] = head[r]], recipe |-> input.recipe]
      BY <1>4, <2>3 DEF ReadHead, TypeOK, RunInputs
    <3>2. TypeOK'
      BY <1>1, <1>4, <2>3, <3>1 DEF ReadHead, TypeOK, RunInputs, origin, registry
    <3>3. \A q \in Repos : SourceTested(q, input.sources[q])'
      BY <1>1, <2>3, <3>1 DEF CiPassed, TypeOK, RunInputs, GreenInv, SourceTested, origin
    <3>4. GreenInv'
      BY <1>1, <3>3, WorkFrame
    <3>5. RunInv'
      BY <1>4, <2>3 DEF ReadHead, RunInv
    <3> QED BY <1>1, <3>2, <3>4, <3>5, WorkFrame
  <2> QED BY <2>2, <2>3
<1>5. ASSUME FinishDiscovery PROVE IInv'
  <2>1. UNCHANGED incidents /\ incidents \in 0 .. MaxIncidents
    BY <1>5 DEF FinishDiscovery, TypeOK
  <2>2. input \in Ids
    BY <1>5 DEF FinishDiscovery, Unread, TypeOK, RunInputs, Ids
  <2>3. CASE Ended
    BY <1>3, <2>1, <2>3
  <2>4. CASE ~Ended
    <3>1. phase = "discover" /\ phase' = "build" /\ UNCHANGED <<input, job, result, attempt>>
      BY <1>5, <2>4 DEF FinishDiscovery
    <3>2. TypeOK'
      BY <1>1, <2>1, <3>1 DEF TypeOK, Phases, origin, registry
    <3>3. GreenInv'
      <4>1. \A r \in Repos : SourceTested(r, input.sources[r])'
        BY <1>1, <3>1 DEF GreenInv, SourceTested, origin
      <4> QED BY <1>1, <4>1, WorkFrame
    <3>4. RunInv'
      BY <1>1, <2>2, <3>1 DEF RunInv, SoundResult
    <3> QED BY <1>1, <3>2, <3>3, <3>4, WorkFrame
  <2> QED BY <2>3, <2>4
<1>6. ASSUME DiscoveryFails PROVE IInv'
  <2>1. incidents' \in 0 .. MaxIncidents
    BY <1>6, SizeAssumption DEF DiscoveryFails, Incident, TypeOK
  <2> QED BY <1>3, <1>6, <2>1 DEF DiscoveryFails
<1> QED BY <1>2, <1>4, <1>5, <1>6

-----------------------------------------------------------------------------
\* The build jobs.
LEMMA BuildSteps ==
  ASSUME IInv,
         \/ \E s \in Services : Prepare(s) \/ Record(s) \/ JobFails(s)
         \/ \E w \in rerunnable : Rerun(w)
  PROVE  IInv'
<1> USE DEF IInv
<1>1. /\ UNCHANGED <<origin, registry, releases>>
      /\ rerunnable' \subseteq rerunnable
  BY DEF Prepare, Record, JobFails, Rerun
<1>2. ASSUME NEW s \in Services, Prepare(s) PROVE IInv'
  <2>1. /\ Prepared(s).digest \in Nat
        /\ Prepared(s).digest # 0 => Tagged(input, s, Prepared(s).digest)
        /\ Prepared(s).next \in {"build", "done"}
        /\ Prepared(s).next = "done" => Prepared(s).digest # 0
    <3>1. CASE EcrDigest(s, ImageTag(input, s)) = 0
      BY <3>1 DEF Prepared
    <3>2. CASE EcrDigest(s, ImageTag(input, s)) # 0
      BY <3>2, EcrDigestHeld DEF Prepared, Tagged, Digests
    <3> QED BY <3>1, <3>2
  <2>2. TypeOK'
    BY <1>1, <1>2, <2>1 DEF Prepare, TypeOK, origin, registry
  <2>3. GreenInv'
    <3>1. \A r \in Repos : SourceTested(r, input.sources[r])'
      BY <1>1, <1>2 DEF Prepare, GreenInv, SourceTested, origin
    <3> QED BY <1>1, <3>1, WorkFrame
  <2>4. RunInv'
    <3>1. SoundResult(input, result')
      BY <1>2, <2>1 DEF Prepare, RunInv, SoundResult, TypeOK
    <3>2. SoundResult(input, result)'
      BY <1>1, <1>2, <3>1 DEF Prepare, SoundResult, Tagged, Digests, registry
    <3> QED BY <1>1, <1>2, <2>1, <3>2 DEF Prepare, RunInv, TypeOK
  <2> QED BY <1>1, <2>2, <2>3, <2>4, WorkFrame
<1>3. ASSUME NEW s \in Services, Record(s) \/ JobFails(s) PROVE IInv'
  <2>1. /\ \A q \in Services : result'[q] \in {result[q], 0}
        /\ \A q \in Services : job'[q] = "done" => result'[q] = result[q] /\ job[q] \in {"pushed", "done"}
        /\ \A q \in Services : job'[q] = "pushed" => result'[q] = result[q] /\ job[q] = "pushed"
        /\ UNCHANGED <<phase, input, attempt, rerunnable>>
        /\ phase = "build"
    BY <1>3 DEF Record, JobFails, TypeOK
  <2>2. TypeOK'
    <3>1. job' \in [Services -> {"wait", "build", "pushed", "done", "failed"}] /\ result' \in [Services -> Nat]
      <4>1. CASE Record(s)
        BY <4>1 DEF Record, TypeOK
      <4>2. CASE JobFails(s)
        BY <4>2 DEF JobFails, TypeOK
      <4> QED BY <1>3, <4>1, <4>2
    <3>2. incidents' \in 0 .. MaxIncidents
      BY <1>3, SizeAssumption DEF Record, JobFails, Incident, TypeOK
    <3> QED BY <1>1, <2>1, <3>1, <3>2 DEF TypeOK, origin, registry
  <2>3. GreenInv'
    <3>1. \A r \in Repos : SourceTested(r, input.sources[r])'
      BY <1>1, <2>1 DEF GreenInv, SourceTested, origin
    <3> QED BY <1>1, <3>1, WorkFrame
  <2>4. RunInv'
    <3>1. SoundResult(input, result)'
      BY <1>1, <2>1 DEF RunInv, SoundResult, Tagged, Digests, registry
    <3> QED BY <2>1, <3>1 DEF RunInv, TypeOK
  <2> QED BY <1>1, <2>2, <2>3, <2>4, WorkFrame
<1>4. ASSUME NEW w \in rerunnable, Rerun(w) PROVE IInv'
  <2>1. w \in [input : Ids, result : [Services -> Nat]] /\ SoundResult(w.input, w.result)
    BY DEF TypeOK, KeptInv
  <2>2. input' = w.input /\ result' = w.result /\ phase' = "build"
    BY <1>4 DEF Rerun, Kept
  <2>3. TypeOK'
    <3>1. input' \in RunInputs
      BY <2>1, <2>2 DEF Ids, RunInputs
    <3>2. job' \in [Services -> {"wait", "build", "pushed", "done", "failed"}]
      BY <1>4 DEF Rerun
    <3>3. UNCHANGED <<attempt, incidents>>
      BY <1>4 DEF Rerun
    <3> QED BY <1>1, <2>1, <2>2, <3>1, <3>2, <3>3 DEF TypeOK, Phases, origin, registry
  <2>4. GreenInv'
    <3>1. \A r \in Repos : SourceTested(r, input.sources[r])'
      BY <1>1, <2>2 DEF GreenInv, SourceTested, origin
    <3> QED BY <1>1, <3>1, WorkFrame
  <2>5. RunInv'
    <3>1. SoundResult(input, result)'
      BY <1>1, <2>1, <2>2 DEF SoundResult, Tagged, Digests, registry
    <3> QED BY <1>4, <2>1, <2>2, <3>1 DEF Rerun, Kept, RunInv
  <2> QED BY <1>1, <2>3, <2>4, <2>5, WorkFrame
<1> QED BY <1>2, <1>3, <1>4

\* A push adds the image of the tree its tag names, behind all others.
LEMMA PushStep ==
  ASSUME IInv, NEW s \in Services, Push(s)
  PROVE  IInv'
<1> USE DEF IInv
<1>1. /\ UNCHANGED <<origin, releases, rerunnable, expired, phase, input, attempt, incidents>>
      /\ phase = "build" /\ input \in Ids
  BY DEF Push, RunInv
<1>2. CASE EcrDigest(s, ImageTag(input, s)) # 0
  <2>1. UNCHANGED <<registry, result>> /\ job' = [job EXCEPT ![s] = "failed"]
    BY <1>2 DEF Push, registry
  <2>2. TypeOK'
    BY <1>1, <2>1 DEF TypeOK, origin, registry
  <2>3. GreenInv'
    <3>1. \A r \in Repos : SourceTested(r, input.sources[r])'
      BY <1>1, <2>1 DEF GreenInv, SourceTested, origin
    <3> QED BY <1>1, <2>1, <3>1, WorkFrame
  <2>4. RunInv'
    <3>1. SoundResult(input, result)'
      BY <1>1, <2>1 DEF RunInv, SoundResult, Tagged, Digests, registry
    <3> QED BY <1>1, <2>1, <3>1 DEF RunInv, TypeOK
  <2> QED BY <1>1, <2>1, <2>2, <2>3, <2>4, WorkFrame
<1>3. CASE EcrDigest(s, ImageTag(input, s)) = 0
  <2> DEFINE tag == ImageTag(input, s)
             image == [tag |-> tag, content |-> tag]
             d == Len(images[s]) + 1
  <2>1. tag \in Trees
    BY <1>1, ServiceAssumption DEF ImageTag, Trees, Ids
  <2>2. /\ images' = [images EXCEPT ![s] = Append(images[s], image)]
        /\ result' = [result EXCEPT ![s] = d]
        /\ job' = [job EXCEPT ![s] = "pushed"]
    BY <1>3 DEF Push, CheckedOut, ImageTag
  <2>3. /\ images[s] \in Seq([tag : Trees, content : Trees])
        /\ images'[s] = Append(images[s], image)
        /\ \A q \in Services \ {s} : images'[q] = images[q]
    BY <2>2 DEF TypeOK
  <2>4. /\ images'[s] \in Seq([tag : Trees, content : Trees])
        /\ Len(images'[s]) = d /\ d \in Nat \ {0}
        /\ images'[s][d] = image
        /\ \A e \in 1 .. Len(images[s]) : images'[s][e] = images[s][e]
    BY <2>1, <2>3
  <2>5. \A q \in Services : \A e \in Digests(q) : e \in Digests(q)' /\ images'[q][e] = images[q][e]
    BY <2>3, <2>4 DEF Digests
  <2>6. TypeOK'
    <3>1. images' \in [Services -> Seq([tag : Trees, content : Trees])]
      BY <2>2, <2>4 DEF TypeOK
    <3>2. ASSUME NEW q \in Services PROVE expired'[q] <= Len(images'[q])
      <4>1. expired[q] \in Nat /\ Len(images[q]) \in Nat /\ expired[q] <= Len(images[q])
        BY DEF TypeOK
      <4>2. Len(images'[q]) = Len(images[q]) \/ Len(images'[q]) = Len(images[q]) + 1
        BY <2>3, <2>4
      <4> QED BY <1>1, <4>1, <4>2
    <3>3. /\ result' \in [Services -> Nat]
          /\ job' \in [Services -> {"wait", "build", "pushed", "done", "failed"}]
      BY <2>2, <2>4 DEF TypeOK
    <3> QED BY <1>1, <3>1, <3>2, <3>3 DEF TypeOK, origin
  <2>7. GreenInv'
    BY <1>1 DEF GreenInv, SourceTested, origin
  <2>8. ImageInv'
    <3> SUFFICES ASSUME NEW q \in Services, NEW e \in Digests(q)'
                 PROVE  images'[q][e].content = images'[q][e].tag
      BY DEF ImageInv
    <3>1. CASE e \in Digests(q)
      BY <2>5, <3>1 DEF ImageInv
    <3>2. CASE e \notin Digests(q)
      BY <2>3, <2>4, <3>2 DEF Digests
    <3> QED BY <3>1, <3>2
  <2>9. \A q \in Services : (result[q] # 0 => Tagged(input, q, result[q]))'
    <3> SUFFICES ASSUME NEW q \in Services, result'[q] # 0
                 PROVE  result'[q] \in Digests(q)' /\ images'[q][result'[q]].tag = ImageTag(input, q)
      BY <1>1 DEF Tagged, ImageTag
    <3>1. CASE q = s
      <4>1. result'[s] = d
        BY <2>2 DEF TypeOK
      <4> QED BY <2>4, <3>1, <4>1 DEF Digests
    <3>2. CASE q # s
      <4>1. result'[q] = result[q]
        BY <2>2, <3>2 DEF TypeOK
      <4>2. Tagged(input, q, result[q])
        BY <1>1, <4>1 DEF RunInv, SoundResult
      <4> QED BY <2>5, <4>1, <4>2 DEF Tagged
    <3> QED BY <3>1, <3>2
  <2>10. RunInv'
    <3>1. SoundResult(input, result)'
      BY <2>9 DEF SoundResult
    <3>2. \A q \in Services : job'[q] \in {"pushed", "done"} => result'[q] # 0
      BY <1>1, <2>2, <2>4 DEF RunInv, TypeOK
    <3> QED BY <1>1, <3>1, <3>2 DEF RunInv
  <2>11. KeptInv'
    BY <1>1, <2>5 DEF KeptInv, SoundResult, Tagged
  <2> QED BY <2>6, <2>7, <2>8, <2>10, <2>11
<1> QED BY <1>2, <1>3

-----------------------------------------------------------------------------
\* The end of the build and the publish job: whatever a step does to the run,
\* a release it makes or edits has the run's input and complete results.
Publishing == {"view", "create", "upload", "edit"}

LEMMA ReleaseWritten ==
  ASSUME IInv, phase \in Publishing,
         releases' = Draft \/ \E i \in ReleasesOf(input) : releases' = Edited(i)
  PROVE  /\ releases' \in Seq(Releases)
         /\ \A j \in DOMAIN releases' :
              \/ /\ releases'[j].id = input
                 /\ releases'[j].images = result
              \/ /\ j \in DOMAIN releases
                 /\ releases'[j].id = releases[j].id
                 /\ releases'[j].images = releases[j].images
<1> USE DEF IInv
<1>1. input \in Ids /\ result \in [Services -> Nat] /\ releases \in Seq(Releases)
  BY DEF TypeOK, RunInv, Publishing
<1>2. CASE releases' = Draft
  <2> DEFINE new == [id |-> input, images |-> result, draft |-> TRUE]
  <2>1. new \in Releases
    BY <1>1 DEF Releases
  <2>2. releases' = Append(releases, new)
    BY <1>2 DEF Draft
  <2> HIDE DEF new
  <2>3. /\ releases' \in Seq(Releases)
        /\ \A j \in DOMAIN releases' : (j \in DOMAIN releases /\ releases'[j] = releases[j]) \/ releases'[j] = new
    BY <1>1, <2>1, <2>2
  <2> QED BY <2>3 DEF new
<1>3. CASE \E i \in ReleasesOf(input) : releases' = Edited(i)
  <2>1. PICK i \in ReleasesOf(input) : releases' = Edited(i)
    BY <1>3
  <2>2. i \in DOMAIN releases /\ releases[i].id = input /\ releases[i] \in Releases
    BY <1>1, <2>1 DEF ReleasesOf
  <2> DEFINE new == [releases[i] EXCEPT !.draft = FALSE, !.images = result]
  <2>3. new \in Releases /\ new.id = input /\ new.images = result
    BY <1>1, <2>2 DEF Releases
  <2>4. releases' = [releases EXCEPT ![i] = new]
    BY <1>1, <2>1, <2>2 DEF Edited, Releases
  <2> HIDE DEF new
  <2>5. releases' \in Seq(Releases) /\ DOMAIN releases' = DOMAIN releases
    BY <1>1, <2>2, <2>3, <2>4
  <2>6. \A j \in DOMAIN releases : releases'[j] = IF j = i THEN new ELSE releases[j]
    BY <1>1, <2>4
  <2> QED BY <2>3, <2>5, <2>6
<1> QED BY <1>2, <1>3

LEMMA PublishFrame ==
  ASSUME IInv,
         phase \notin {"idle", "discover"},
         UNCHANGED <<origin, registry>>,
         incidents' \in 0 .. MaxIncidents,
         \/ RunFails
         \/ Ended /\ UNCHANGED rerunnable
         \/ /\ phase' \in Publishing /\ attempt' \in 1 .. MaxAttempts
            /\ UNCHANGED <<input, job, result, rerunnable>>
            /\ \A s \in Services : result[s] # 0,
         \/ UNCHANGED releases
         \/ /\ phase \in Publishing
            /\ releases' = Draft \/ \E i \in ReleasesOf(input) : releases' = Edited(i)
  PROVE  IInv'
<1> USE DEF IInv, origin, registry, Publishing
<1> DEFINE w == [input |-> input, result |-> result]
<1>1. input \in Ids /\ result \in [Services -> Nat] /\ SoundResult(input, result)
  BY DEF TypeOK, RunInv
<1>2. rerunnable' \subseteq rerunnable \cup {w}
  BY DEF RunFails
<1>3. Ended \/ (phase' \in Publishing /\ UNCHANGED <<input, job, result>>)
  BY DEF RunFails
<1>4. /\ releases' \in Seq(Releases)
      /\ \A j \in DOMAIN releases' :
           \/ /\ releases'[j].id = input /\ releases'[j].images = result
              /\ \A s \in Services : result[s] # 0
           \/ /\ j \in DOMAIN releases
              /\ releases'[j].id = releases[j].id /\ releases'[j].images = releases[j].images
  <2>1. CASE UNCHANGED releases
    BY <2>1 DEF TypeOK
  <2>2. CASE ~UNCHANGED releases
    BY <2>2, ReleaseWritten DEF RunInv
  <2> QED BY <2>1, <2>2
<1>5. TypeOK'
  <2>1. rerunnable' \subseteq [input : Ids, result : [Services -> Nat]]
    BY <1>1, <1>2 DEF TypeOK
  <2>2. /\ phase' \in Phases /\ input' \in RunInputs /\ result' \in [Services -> Nat]
        /\ job' \in [Services -> {"wait", "build", "pushed", "done", "failed"}]
        /\ attempt' \in 1 .. MaxAttempts
    <3>1. CASE Ended
      BY <3>1, EndedRun
    <3>2. CASE ~Ended
      BY <1>3, <3>2 DEF RunFails, TypeOK, Phases
    <3> QED BY <3>1, <3>2
  <2> QED BY <1>4, <2>1, <2>2 DEF TypeOK
<1>6. GreenInv'
  <2>1. \A r \in Repos : SourceTested(r, input.sources[r])
    BY DEF GreenInv
  <2>2. \A r \in Repos : SourceTested(r, input.sources[r])'
    BY <1>3, <2>1, EndedRun DEF SourceTested
  <2>3. \A v \in rerunnable', r \in Repos : SourceTested(r, v.input.sources[r])
    BY <1>2, <2>1 DEF GreenInv
  <2>4. \A j \in DOMAIN releases', r \in Repos : SourceTested(r, releases'[j].id.sources[r])
    BY <1>4, <2>1 DEF GreenInv
  <2> QED BY <2>2, <2>3, <2>4 DEF GreenInv, SourceTested
<1>7. ImageInv'
  BY DEF ImageInv, Digests
<1>8. RunInv'
  <2>1. CASE Ended
    BY <2>1, EndedRun
  <2>2. CASE ~Ended
    <3>1. SoundResult(input, result)'
      BY <1>1, <1>3, <2>2 DEF SoundResult, Tagged, Digests
    <3>2. \A s \in Services : result'[s] # 0
      BY <2>2 DEF RunFails
    <3> QED BY <1>1, <1>3, <2>2, <3>1, <3>2 DEF RunInv
  <2> QED BY <2>1, <2>2
<1>9. KeptInv'
  <2>1. \A v \in rerunnable' : SoundResult(v.input, v.result)
    BY <1>1, <1>2 DEF KeptInv
  <2>2. \A j \in DOMAIN releases' :
          /\ SoundResult(releases'[j].id, releases'[j].images)
          /\ \A s \in Services : releases'[j].images[s] # 0
    BY <1>1, <1>4 DEF KeptInv
  <2> QED BY <2>1, <2>2 DEF KeptInv, SoundResult, Tagged, Digests
<1> QED BY <1>5, <1>6, <1>7, <1>8, <1>9

LEMMA PublishSteps ==
  ASSUME IInv,
         FinishBuild \/ ViewRelease \/ CreateDraft \/ UploadManifest \/ PublishRelease \/ PublishStops
  PROVE  IInv'
<1> USE DEF IInv
<1> DEFINE Goes == /\ phase' \in Publishing /\ attempt' \in 1 .. MaxAttempts
                   /\ UNCHANGED <<input, job, result, rerunnable>>
<1>1. /\ attempt \in 1 .. MaxAttempts /\ 1 \in 1 .. MaxAttempts /\ incidents \in 0 .. MaxIncidents
      /\ phase \in Publishing => \A s \in Services : result[s] # 0
  BY SizeAssumption DEF TypeOK, RunInv, Publishing
<1>2. Incident => incidents' \in 0 .. MaxIncidents
  BY <1>1, SizeAssumption DEF Incident
<1>3. ASSUME NEW step \in Publishing, Retry(step) \/ Proceed(step)
      PROVE  RunFails \/ Goes
  <2>1. CASE Proceed(step)
    BY <1>1, <2>1 DEF Proceed
  <2>2. CASE Retry(step) /\ attempt < MaxAttempts
    <3>1. attempt + 1 \in 1 .. MaxAttempts
      BY <1>1, <2>2, SizeAssumption
    <3> QED BY <2>2, <3>1 DEF Retry
  <2>3. CASE Retry(step) /\ ~(attempt < MaxAttempts)
    BY <2>3 DEF Retry
  <2> QED BY <1>3, <2>1, <2>2, <2>3
<1>4. ASSUME FinishBuild PROVE IInv'
  <2>1. \A s \in Services : job[s] = "done" => result[s] # 0
    BY <1>4 DEF FinishBuild, RunInv
  <2>2. phase \notin {"idle", "discover"} /\ UNCHANGED <<origin, registry, releases, incidents>>
    BY <1>4 DEF FinishBuild
  <2>3. RunFails \/ (Proceed("view") /\ \A s \in Services : result[s] # 0)
    BY <1>4, <2>1 DEF FinishBuild
  <2>4. RunFails \/ (Goes /\ \A s \in Services : result[s] # 0)
    BY <1>1, <2>3 DEF Proceed, Publishing
  <2> HIDE DEF IInv
  <2> QED BY <1>1, <2>2, <2>4, PublishFrame
<1>5. ASSUME ViewRelease PROVE IInv'
  <2>1. /\ phase = "view" /\ Goes
        /\ UNCHANGED <<origin, registry, releases>>
        /\ incidents' = incidents \/ Incident
    BY <1>1, <1>5 DEF ViewRelease, Proceed, Publishing
  <2> QED BY <1>1, <1>2, <2>1, PublishFrame DEF Publishing
<1>6. ASSUME CreateDraft PROVE IInv'
  <2>1. /\ phase = "create"
        /\ UNCHANGED <<origin, registry>>
        /\ UNCHANGED releases \/ releases' = Draft
        /\ Proceed("upload") \/ Retry("view")
        /\ incidents' = incidents \/ Incident
    BY <1>6 DEF CreateDraft
  <2>2. RunFails \/ Goes
    BY <1>3, <2>1 DEF Publishing
  <2> QED BY <1>1, <1>2, <2>1, <2>2, PublishFrame DEF Publishing
<1>7. ASSUME UploadManifest PROVE IInv'
  <2>1. /\ phase = "upload"
        /\ UNCHANGED <<origin, registry, releases>>
        /\ Proceed("edit") \/ Retry("upload")
        /\ incidents' = incidents \/ Incident
    BY <1>7 DEF UploadManifest
  <2>2. RunFails \/ Goes
    BY <1>3, <2>1 DEF Publishing
  <2> QED BY <1>1, <1>2, <2>1, <2>2, PublishFrame DEF Publishing
<1>8. ASSUME PublishRelease PROVE IInv'
  <2>1. /\ phase = "edit"
        /\ UNCHANGED <<origin, registry>>
        /\ UNCHANGED releases \/ \E i \in ReleasesOf(input) : releases' = Edited(i)
        /\ (Ended /\ UNCHANGED rerunnable) \/ Retry("edit")
        /\ incidents' = incidents \/ Incident
    BY <1>8 DEF PublishRelease, Target
  <2>2. RunFails \/ (Ended /\ UNCHANGED rerunnable) \/ Goes
    BY <1>3, <2>1 DEF Publishing
  <2> QED BY <1>1, <1>2, <2>1, <2>2, PublishFrame DEF Publishing
<1>9. ASSUME PublishStops PROVE IInv'
  <2>1. /\ phase \in Publishing /\ RunFails /\ Incident
        /\ UNCHANGED <<origin, registry, releases>>
    BY <1>9 DEF PublishStops, Publishing
  <2> QED BY <1>1, <1>2, <2>1, PublishFrame DEF Publishing
<1> QED BY <1>4, <1>5, <1>6, <1>7, <1>8, <1>9

-----------------------------------------------------------------------------
\* Expiry takes images out of the registry, not out of the record of what was
\* pushed.
LEMMA OtherSteps ==
  ASSUME IInv,
         \/ \E s \in Services : Expire(s)
         \/ UNCHANGED vars
  PROVE  IInv'
<1> USE DEF IInv
<1>1. UNCHANGED <<origin, images, work, releases, incidents>>
  BY DEF Expire, vars, registry
<1>2. expired' \in [Services -> Nat] /\ \A q \in Services : expired'[q] <= Len(images[q])
  <2>1. CASE UNCHANGED expired
    BY <2>1 DEF TypeOK
  <2>2. ASSUME NEW s \in Services, Expire(s)
        PROVE  expired' \in [Services -> Nat] /\ \A q \in Services : expired'[q] <= Len(images[q])
    <3>1. /\ expired \in [Services -> Nat] /\ \A q \in Services : expired[q] <= Len(images[q])
          /\ \A q \in Services : Len(images[q]) \in Nat
      BY DEF TypeOK
    <3> QED BY <2>2, <3>1, SizeAssumption DEF Expire
  <2> QED BY <2>1, <2>2 DEF vars, registry
<1>3. TypeOK'
  BY <1>1, <1>2 DEF TypeOK, origin, work
<1>4. GreenInv'
  BY <1>1 DEF GreenInv, SourceTested, origin, work
<1>5. ImageInv'
  BY <1>1 DEF ImageInv, Digests
<1>6. RunInv'
  BY <1>1 DEF RunInv, SoundResult, Tagged, Digests, work
<1>7. KeptInv'
  BY <1>1 DEF KeptInv, SoundResult, Tagged, Digests, work
<1> QED BY <1>3, <1>4, <1>5, <1>6, <1>7

LEMMA NextInv == IInv /\ [Next]_vars => IInv'
<1> SUFFICES ASSUME IInv, [Next]_vars PROVE IInv'
  OBVIOUS
<1> QED BY OriginSteps, StartSteps, BuildSteps, PushStep, PublishSteps, OtherSteps
        DEF Next, WorkflowStep

\* The inductive invariant holds in every reachable state.
THEOREM Invariance == Spec => []IInv
BY InitInv, NextInv, PTL DEF Spec

\* Every variable keeps its type; in particular the registry loses only images
\* that were pushed.
THEOREM TypeCorrect == Spec => []TypeOK
<1>1. IInv => TypeOK
  BY DEF IInv
<1> QED BY <1>1, Invariance, PTL

\* Every commit of a published release has passed CI on main, for any number
\* of repositories that move on while the workflow reads them (discover).
THEOREM ReleasesTested == Spec => []PublishedIsTested
<1>1. IInv => PublishedIsTested
  <2> SUFFICES ASSUME IInv, NEW i \in Published, NEW r \in Repos
               PROVE  <<r, releases[i].id.sources[r]>> \in green
    BY DEF PublishedIsTested
  <2>1. releases[i] \in Releases
    BY DEF IInv, TypeOK, Published
  <2>2. releases[i].id.sources[r] # 0
    BY <2>1 DEF Releases, Ids, Commits
  <2> QED BY <2>2 DEF IInv, GreenInv, SourceTested, Published
<1> QED BY <1>1, Invariance, PTL

\* A published manifest is complete and names, for every service, an image
\* built from the release's build inputs, whichever runs and re-runs made it
\* (prepare_build, record_build, finalize).
THEOREM ReleasesAsBuilt == Spec => []PublishedAsBuilt
<1>1. IInv => PublishedAsBuilt
  <2> SUFFICES ASSUME IInv, NEW i \in Published, NEW s \in Services
               PROVE  LET d == releases[i].images[s]
                          tag == ImageTag(releases[i].id, s)
                      IN d \in Digests(s) /\ images[s][d] = [tag |-> tag, content |-> tag]
    BY DEF PublishedAsBuilt
  <2> DEFINE d == releases[i].images[s]
  <2>1. d \in Digests(s) /\ images[s][d].tag = ImageTag(releases[i].id, s)
    BY DEF IInv, KeptInv, SoundResult, Tagged, Published
  <2>2. images[s][d].content = images[s][d].tag
    BY <2>1 DEF IInv, ImageInv
  <2>3. images[s][d] \in [tag : Trees, content : Trees]
    <3>1. images[s] \in Seq([tag : Trees, content : Trees])
      BY DEF IInv, TypeOK
    <3>2. d \in DOMAIN images[s]
      BY <2>1, <3>1 DEF Digests
    <3>3. images[s][d] \in [tag : Trees, content : Trees]
      BY <3>1, <3>2, ElementOfSeq, Zenon
    <3> QED BY <3>3
  <2> QED BY <2>1, <2>2, <2>3
<1> QED BY <1>1, Invariance, PTL

-----------------------------------------------------------------------------
\* The registry: a push adds one image behind all others, under a tag that none of
\* those it holds has; an expiry takes out the oldest; nothing else touches it.
LEMMA RegistryStep ==
  ASSUME IInv, [Next]_vars, NEW s \in Services
  PROVE  /\ Len(images[s]) \in Nat /\ Len(images'[s]) \in Nat
         /\ Len(images'[s]) <= Len(images[s]) + 1
         /\ expired[s] \in Nat /\ expired'[s] \in Nat /\ expired[s] <= expired'[s]
         /\ \A d \in Digests(s) : d \in Digests(s)' /\ images'[s][d] = images[s][d]
         /\ \A e \in Digests(s)' \ Digests(s) : \A d \in Digests(s) :
              d > expired[s] => images[s][d].tag # images'[s][e].tag
<1>1. /\ images \in [Services -> Seq([tag : Trees, content : Trees])]
      /\ images[s] \in Seq([tag : Trees, content : Trees])
      /\ expired \in [Services -> Nat]
  BY DEF IInv, TypeOK
<1>2. Len(images[s]) \in Nat
  BY <1>1
<1>3. CASE UNCHANGED registry
  BY <1>1, <1>2, <1>3 DEF registry, Digests
<1>4. ASSUME NEW q \in Services, Expire(q)
      PROVE  UNCHANGED images /\ expired'[s] \in Nat /\ expired[s] <= expired'[s]
  BY <1>1, <1>4 DEF Expire
<1>5. ASSUME NEW q \in Services, Push(q), images' # images
      PROVE  /\ Len(images'[s]) \in Nat /\ Len(images'[s]) <= Len(images[s]) + 1
             /\ UNCHANGED expired
             /\ \A d \in Digests(s) : d \in Digests(s)' /\ images'[s][d] = images[s][d]
             /\ \A e \in Digests(s)' \ Digests(s) : \A d \in Digests(s) :
                  d > expired[s] => images[s][d].tag # images'[s][e].tag
  <2> DEFINE tag == ImageTag(input, q)
             held == {d \in Digests(q) : d > expired[q] /\ images[q][d].tag = tag}
             image == [tag |-> tag, content |-> TreeOf[q][CheckedOut(q)]]
  <2>1. /\ phase = "build" /\ EcrDigest(q, tag) = 0
        /\ images' = [images EXCEPT ![q] = Append(@, image)] /\ UNCHANGED expired
    BY <1>5 DEF Push
  <2>2. held = {}
    <3>1. EcrDigest(q, tag) = IF held = {} THEN 0 ELSE CHOOSE d \in held : TRUE
      BY DEF EcrDigest
    <3>2. 0 \notin held
      BY DEF Digests
    <3> QED BY <2>1, <3>1, <3>2
  <2>3. image \in [tag : Trees, content : Trees] /\ image.tag = tag
    <3>1. input \in Ids
      BY <2>1 DEF IInv, RunInv
    <3>2. input.sources[RepoOf[q]] \in Commits
      <4>1. input.sources \in [Repos -> Commits] /\ RepoOf[q] \in Repos
        BY <3>1, ServiceAssumption DEF Ids
      <4> QED BY <4>1, Zenon
    <3> QED BY <3>2, ServiceAssumption DEF Trees, ImageTag, CheckedOut
  <2> HIDE DEF held, image
  <2>4. CASE q # s
    <3>1. images'[s] = images[s]
      BY <1>1, <2>1, <2>4
    <3>2. Len(images'[s]) = Len(images[s]) /\ Digests(s)' = Digests(s)
      BY <3>1 DEF Digests
    <3>3. UNCHANGED expired
      BY <2>1
    <3> QED BY <1>2, <3>1, <3>2, <3>3
  <2>5. CASE q = s
    <3>1. images'[s] = Append(images[s], image)
      BY <1>1, <2>1, <2>5
    <3>2. /\ Len(images'[s]) = Len(images[s]) + 1
          /\ images'[s][Len(images[s]) + 1] = image
          /\ \A d \in 1 .. Len(images[s]) : images'[s][d] = images[s][d]
      BY <1>1, <2>3, <3>1
    <3>3. \A e \in Digests(s)' \ Digests(s) : images'[s][e].tag = tag
      BY <1>2, <2>3, <3>2 DEF Digests
    <3>4. \A d \in Digests(s) : d > expired[s] => images[s][d].tag # tag
      BY <2>2, <2>5 DEF held
    <3> QED BY <1>2, <2>1, <3>2, <3>3, <3>4 DEF Digests
  <2> QED BY <2>4, <2>5
<1>6. UNCHANGED registry \/ (\E q \in Services : Expire(q)) \/ (\E q \in Services : Push(q) /\ images' # images)
  BY DEF Next, WorkflowStep, vars, registry, PushMain, RestartCI, FinishCI, MergePlatform, StartRun, ReadHead,
         FinishDiscovery, DiscoveryFails, Prepare, Push, Record, FinishBuild, ViewRelease, CreateDraft,
         UploadManifest, PublishRelease, JobFails, PublishStops, Rerun
<1> QED BY <1>1, <1>2, <1>3, <1>4, <1>5, <1>6 DEF Digests

LEMMA HeldStep ==
  ASSUME IInv, HeldInv, [Next]_vars PROVE HeldInv'
<1> SUFFICES ASSUME NEW s \in Services, NEW d \in Digests(s)', NEW e \in Digests(s)',
                    d < e, images'[s][d].tag = images'[s][e].tag
             PROVE  d <= expired'[s]
  BY DEF HeldInv
<1>1. /\ Len(images[s]) \in Nat /\ Len(images'[s]) \in Nat /\ Len(images'[s]) <= Len(images[s]) + 1
      /\ expired[s] \in Nat /\ expired'[s] \in Nat /\ expired[s] <= expired'[s]
      /\ \A c \in Digests(s) : c \in Digests(s)' /\ images'[s][c] = images[s][c]
      /\ \A b \in Digests(s)' \ Digests(s) : \A c \in Digests(s) :
           c > expired[s] => images[s][c].tag # images'[s][b].tag
  BY RegistryStep
<1>2. CASE e \in Digests(s)
  <2>1. d \in Digests(s)
    BY <1>1, <1>2 DEF Digests
  <2>2. images[s][d].tag = images[s][e].tag
    BY <1>1, <1>2, <2>1
  <2>3. d <= expired[s]
    BY <1>2, <2>1, <2>2 DEF HeldInv
  <2> QED BY <1>1, <2>1, <2>3 DEF Digests
<1>3. CASE e \notin Digests(s) /\ d \in Digests(s)
  BY <1>1, <1>3 DEF Digests
<1>4. CASE e \notin Digests(s) /\ d \notin Digests(s)
  BY <1>1, <1>4 DEF Digests
<1> QED BY <1>2, <1>3, <1>4

-----------------------------------------------------------------------------
\* Publication as a catalogue.
Entries == {[id |-> releases[i].id, images |-> releases[i].images] : i \in Published}
Gone == UNION {{s} \X (1 .. expired[s]) : s \in Services}

\* A release is public once.
UniqueInv == \A i, j \in Published : releases[i].id = releases[j].id => i = j

\* Two complete results of one release differ only in images one of which has expired.
LEMMA ResultsDiffer ==
  ASSUME IInv, HeldInv, NEW id, NEW f \in [Services -> Nat], NEW g \in [Services -> Nat],
         SoundResult(id, f), SoundResult(id, g), NEW s \in Services,
         f[s] # 0, g[s] # 0, f[s] # g[s]
  PROVE  {<<s, f[s]>>, <<s, g[s]>>} \cap Gone # {}
<1>1. /\ f[s] \in Digests(s) /\ g[s] \in Digests(s)
      /\ images[s][f[s]].tag = images[s][g[s]].tag
  BY DEF SoundResult, Tagged
<1>2. f[s] \in Nat /\ g[s] \in Nat /\ expired[s] \in Nat
  BY DEF IInv, TypeOK
<1>3. f[s] <= expired[s] \/ g[s] <= expired[s]
  BY <1>1, <1>2 DEF HeldInv
<1>4. f[s] \in 1 .. expired[s] \/ g[s] \in 1 .. expired[s]
  BY <1>2, <1>3
<1>5. \A d \in 1 .. expired[s] : <<s, d>> \in Gone
  BY DEF Gone
<1> QED BY <1>4, <1>5

\* What an edit does to the releases: it makes the targeted one public, with the
\* results of the run.
LEMMA EditEffect ==
  ASSUME IInv, phase = "edit", NEW i \in Target, releases' = Edited(i)
  PROVE  /\ i \in DOMAIN releases /\ releases[i].id = input /\ releases[i] \in Releases
         /\ input \in Ids /\ result \in [Services -> Nat \ {0}]
         /\ SoundResult(input, result)
         /\ DOMAIN releases' = DOMAIN releases
         /\ \A j \in DOMAIN releases : j # i => releases'[j] = releases[j]
         /\ releases'[i].id = input /\ releases'[i].images = result
         /\ Published' = Published \union {i}
<1>1. /\ releases \in Seq(Releases) /\ input \in Ids /\ result \in [Services -> Nat]
      /\ SoundResult(input, result) /\ \A s \in Services : result[s] # 0
  BY DEF IInv, TypeOK, RunInv
<1>2. i \in DOMAIN releases /\ releases[i].id = input /\ releases[i] \in Releases
  BY <1>1 DEF Target, ReleasesOf
<1> DEFINE new == [releases[i] EXCEPT !.draft = FALSE, !.images = result]
<1>3. releases' = [releases EXCEPT ![i] = new]
  BY <1>1, <1>2 DEF Edited, Releases
<1>4. new.id = input /\ new.images = result /\ new.draft = FALSE
  BY <1>2 DEF Releases
<1> HIDE DEF new
<1>5. DOMAIN releases' = DOMAIN releases /\ \A j \in DOMAIN releases : releases'[j] = IF j = i THEN new ELSE releases[j]
  BY <1>1, <1>3
<1>6. Published' = Published \union {i}
  BY <1>2, <1>4, <1>5 DEF Published
<1> QED BY <1>1, <1>2, <1>4, <1>5, <1>6

\* If any release of the input is public, the edit is of the public one.
LEMMA EditUnique ==
  ASSUME IInv, UniqueInv, phase = "edit", NEW i \in Target, releases' = Edited(i) PROVE UniqueInv'
<1>1. \A j \in Published : releases[j].id = input => j = i
  <2>1. i \in ReleasesOf(input) \cap Published \/ ReleasesOf(input) \cap Published = {}
    BY DEF Target
  <2>2. \A j \in Published : releases[j].id = input => j \in ReleasesOf(input) \cap Published
    BY DEF ReleasesOf, Published
  <2> QED BY <2>1, <2>2 DEF UniqueInv, ReleasesOf
<1>2. \A j \in Published : j \in DOMAIN releases
  BY DEF Published
<1>3. \A j \in Published' : j = i \/ (j \in Published /\ releases'[j] = releases[j])
  BY <1>2, EditEffect
<1> QED BY <1>1, <1>3, EditEffect DEF UniqueInv

\* An edit adds a whole manifest of a release that was not public, or goes from one
\* result of the release to another.
LEMMA EditImplements ==
  ASSUME IInv, HeldInv, UniqueInv, phase = "edit", NEW i \in Target, releases' = Edited(i),
         UNCHANGED Gone
  PROVE  Catalogue!Next
<1> DEFINE m == [id |-> releases[i].id, images |-> releases[i].images]
           n == [id |-> input, images |-> result]
<1>1. n.id = input /\ n.images = result /\ m.id = input /\ m.images = releases[i].images
  BY EditEffect
<1>2. Entries' = {[id |-> releases'[j].id, images |-> releases'[j].images] : j \in Published \union {i}}
  BY EditEffect DEF Entries
<1>3. \A j \in Published : j # i => releases'[j] = releases[j]
  BY EditEffect DEF Published
<1>4. [id |-> releases'[i].id, images |-> releases'[i].images] = n
  BY EditEffect
<1>5. n \in Entries'
  BY <1>2, <1>4
<1>6. CASE i \in Published
  <2>1. m \in Entries
    BY <1>6 DEF Entries
  <2>2. \A j \in Published : j # i => releases[j].id # input
    BY <1>6, EditEffect DEF UniqueInv
  <2>3. Entries' = (Entries \ {m}) \union {n}
    <3>1. \A j \in Published : j # i => [id |-> releases[j].id, images |-> releases[j].images] # m
      BY <1>1, <2>2
    <3>2. Entries \ {m} = {[id |-> releases[j].id, images |-> releases[j].images] : j \in Published \ {i}}
      BY <3>1 DEF Entries
    <3> QED BY <1>2, <1>3, <1>4, <3>2
  <2>4. \A s \in Services :
          n.images[s] # m.images[s] => {<<s, m.images[s]>>, <<s, n.images[s]>>} \cap Gone # {}
    <3>1. /\ releases[i].images \in [Services -> Nat] /\ SoundResult(input, releases[i].images)
          /\ \A s \in Services : releases[i].images[s] # 0
      BY EditEffect DEF Releases, IInv, KeptInv
    <3>2. result \in [Services -> Nat] /\ SoundResult(input, result) /\ \A s \in Services : result[s] # 0
      BY EditEffect
    <3> QED BY <1>1, <3>1, <3>2, ResultsDiffer
  <2>5. n.id = m.id /\ n.images \in [Services -> Nat \ {0}]
    BY <1>1, EditEffect
  <2> HIDE DEF m, n
  <2> QED BY <1>5, <2>1, <2>3, <2>4, <2>5 DEF Catalogue!Next, Catalogue!Revise, Entries, Gone
<1>7. CASE i \notin Published
  <2>1. ReleasesOf(input) \cap Published = {}
    BY <1>7 DEF Target
  <2>2. Entries' = Entries \union {n}
    <3>1. \A j \in Published : releases'[j] = releases[j]
      BY <1>3, <1>7
    <3> QED BY <1>2, <1>4, <3>1 DEF Entries
  <2>3. input \notin {e.id : e \in Entries}
    <3> SUFFICES ASSUME NEW j \in Published, releases[j].id = input PROVE FALSE
      BY DEF Entries
    <3> QED BY <2>1 DEF ReleasesOf, Published
  <2>4. n.id \in Ids \ {e.id : e \in Entries} /\ n.images \in [Services -> Nat \ {0}]
    BY <1>1, <2>3, EditEffect
  <2> HIDE DEF n
  <2> QED BY <1>5, <2>2, <2>4 DEF Catalogue!Next, Catalogue!Publish, Entries, Gone
<1> QED BY <1>6, <1>7

LEMMA DraftKeeps ==
  ASSUME IInv, phase = "create", releases' = Draft PROVE UNCHANGED Entries /\ (UniqueInv => UniqueInv')
<1> DEFINE new == [id |-> input, images |-> result, draft |-> TRUE]
<1>1. releases \in Seq(Releases) /\ new \in Releases
  BY DEF IInv, TypeOK, RunInv, Releases
<1>2. releases' = Append(releases, new) /\ new.draft
  BY DEF Draft
<1> HIDE DEF new
<1>3. /\ DOMAIN releases' = DOMAIN releases \union {Len(releases) + 1} /\ Len(releases) + 1 \notin DOMAIN releases
      /\ releases'[Len(releases) + 1] = new
      /\ \A j \in DOMAIN releases : releases'[j] = releases[j]
  BY <1>1, <1>2
<1>4. Published' = Published /\ \A j \in Published : releases'[j] = releases[j]
  BY <1>2, <1>3 DEF Published
<1> QED BY <1>4 DEF Entries, UniqueInv

\* The steps that write releases, and what they leave alone.
LEMMA ReleaseSteps ==
  ASSUME [Next]_vars
  PROVE  \/ UNCHANGED releases
         \/ phase = "create" /\ releases' = Draft /\ UNCHANGED registry
         \/ phase = "edit" /\ (\E i \in Target : releases' = Edited(i)) /\ UNCHANGED registry
BY DEF Next, WorkflowStep, vars, PushMain, RestartCI, FinishCI, MergePlatform, StartRun,
       ReadHead, FinishDiscovery, DiscoveryFails, Prepare, Push, Record, FinishBuild, ViewRelease,
       CreateDraft, UploadManifest, PublishRelease, JobFails, PublishStops, Rerun, Expire

LEMMA UniqueStep ==
  ASSUME IInv, UniqueInv, [Next]_vars PROVE UniqueInv'
<1>1. CASE UNCHANGED releases
  BY <1>1 DEF UniqueInv, Published
<1> QED BY <1>1, ReleaseSteps, DraftKeeps, EditUnique

LEMMA CatalogueStep ==
  ASSUME IInv, HeldInv, UniqueInv, [Next]_vars
  PROVE  Catalogue!Next \/ UNCHANGED <<Entries, Gone>>
<1>1. CASE UNCHANGED releases
  <2>1. UNCHANGED Entries
    BY <1>1 DEF Entries, Published
  <2>2. \A s \in Services : expired[s] \in Nat /\ expired'[s] \in Nat /\ expired[s] <= expired'[s]
    BY RegistryStep
  <2>3. \A s \in Services : 1 .. expired[s] \subseteq 1 .. expired'[s]
    BY <2>2
  <2>4. Gone \subseteq Gone'
    BY <2>3 DEF Gone
  <2> QED BY <2>1, <2>4 DEF Catalogue!Next, Catalogue!Expire, Entries, Gone
<1>2. CASE ~UNCHANGED releases
  <2>1. UNCHANGED registry
    BY <1>2, ReleaseSteps
  <2>2. UNCHANGED Gone
    BY <2>1 DEF Gone, registry
  <2> QED BY <1>2, <2>2, ReleaseSteps, DraftKeeps, EditImplements
<1> QED BY <1>1, <1>2

\* Publication implements the catalogue, whatever the registry keeps: a release is
\* published once, whole, and neither the retry of an edit that took effect nor the
\* re-run of an older failed run changes it, but for images the registry has let go of
\* (publish job, re-runs, immutable tags).
THEOREM PublishedOnce == Spec => PublishesOnce
<1>1. Init => HeldInv /\ UniqueInv
  BY DEF Init, HeldInv, Digests, UniqueInv, Published
<1>2. Init => Catalogue!Init
  <2>1. Init => Entries = {}
    BY DEF Init, Entries, Published
  <2>2. Init => Gone = {}
    BY DEF Init, Gone
  <2> QED BY <2>1, <2>2 DEF Catalogue!Init, Entries, Gone
<1>3. IInv /\ HeldInv /\ UniqueInv /\ [Next]_vars => HeldInv' /\ UniqueInv'
  BY HeldStep, UniqueStep
<1>4. IInv /\ HeldInv /\ UniqueInv /\ [Next]_vars
      => [Catalogue!Next]_<<{[id |-> releases[i].id, images |-> releases[i].images] : i \in Published},
                            UNION {{s} \X (1 .. expired[s]) : s \in Services}>>
  BY CatalogueStep DEF Entries, Gone
<1> QED BY <1>1, <1>2, <1>3, <1>4, Invariance, PTL DEF Spec, PublishesOnce, Catalogue!Spec
=============================================================================
