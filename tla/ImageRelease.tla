---------------------------- MODULE ImageRelease ----------------------------
(***************************************************************************)
(* Publication of image releases (scripts/aws_image_release.py driven by   *)
(* .github/workflows/publish-images.yml): a scheduled workflow looks for   *)
(* tested main commits of the service repositories, builds one image per   *)
(* service whose build inputs are new, reuses the others by their          *)
(* immutable tag, and publishes a GitHub release whose body is the         *)
(* manifest.  ImageDeployment adds the deployments of that manifest.       *)
(*                                                                         *)
(* The workflow's concurrency group lets one workflow run work at a time.  *)
(* A failed run can be re-run later: its finished jobs keep their          *)
(* artifacts, its failed jobs start over.  Meanwhile the repositories move *)
(* on, CI finishes or is started again, and the registry expires old       *)
(* images.                                                                 *)
(*                                                                         *)
(* Only the current manifest schema (3) is modelled.  A definition named   *)
(* ...Mutant is what a plausible mistake would look like; no specification *)
(* uses it.                                                                *)
(***************************************************************************)
EXTENDS Naturals, Sequences

CONSTANTS
  NumRepos,      \* service repositories, in the order of REPOS
  Services,      \* the images of a release
  RepoOf,        \* the repository each service is built from
  LastCommit,    \* bound: commits 1 .. LastCommit of a repository's main
  LastRecipe,    \* bound: platform commits that change the recipe digest
  TreeOf,        \* TreeOf[s][c]: context tree of service s at commit c
  Keep,          \* images a registry repository keeps (60)
  MaxAttempts,   \* attempts of each call of the publish job (4)
  MaxIncidents   \* bound on failing steps and on CI started again

Repos   == 1 .. NumRepos
Commits == 1 .. LastCommit
Recipes == 1 .. LastRecipe

ASSUME SizeAssumption ==
  /\ NumRepos \in Nat /\ LastCommit \in Nat \ {0} /\ LastRecipe \in Nat \ {0}
  /\ Keep \in Nat \ {0} /\ MaxAttempts \in Nat \ {0} /\ MaxIncidents \in Nat
ASSUME ServiceAssumption ==
  /\ RepoOf \in [Services -> Repos]
  /\ DOMAIN TreeOf = Services
  /\ \A s \in Services : Commits \subseteq DOMAIN TreeOf[s]

VARIABLES
  head,        \* newest main commit of each repository
  ci,          \* newest CI run of each commit: none, running, passed or failed
  green,       \* pairs of a repository and a commit CI has ever passed on
  recipe,      \* platform commit (script, workflow and KEDA configuration)
  images,      \* images ever pushed for each service, oldest first
  expired,     \* how many of them the registry no longer has
  phase,       \* step of the workflow run under way
  input,       \* its release-input artifact: commits and recipe (release id)
  job,         \* its build job of each service
  result,      \* digest in the artifact of each build job, 0 for none
  attempt,     \* attempt of the publish job's current call
  rerunnable,  \* failed runs, as their input and results
  releases,    \* GitHub releases, drafts included, oldest first
  incidents    \* incidents so far

origin   == <<head, ci, green, recipe>>
registry == <<images, expired>>
work     == <<phase, input, job, result, attempt, rerunnable>>
vars     == <<origin, registry, work, releases, incidents>>

-----------------------------------------------------------------------------
\* A digest stands for the position of its image among all pushes of its
\* service: two builds of the same inputs have different digests.
Digests(s) == 1 .. Len(images[s])
Trees == {TreeOf[s][c] : s \in Services, c \in Commits}
Ids == [sources : [Repos -> Commits], recipe : Recipes]
Releases == [id : Ids, images : [Services -> Nat], draft : BOOLEAN]
Phases == {"idle", "discover", "build", "view", "create", "upload", "edit"}
NoInput == [sources |-> [r \in Repos |-> 0], recipe |-> 1]
NoResult == [s \in Services |-> 0]

\* A build id hashes the service, the context tree and constants of the code.
ImageTag(id, s) == TreeOf[s][id.sources[RepoOf[s]]]

\* ecr_digest: the image the registry has under the tag, if it has any.
EcrDigest(s, tag) ==
  LET held == {d \in Digests(s) : d > expired[s] /\ images[s][d].tag = tag}
  IN IF held = {} THEN 0 ELSE CHOOSE d \in held : TRUE

ReleasesOf(id) == {i \in DOMAIN releases : releases[i].id = id}
Published == {i \in DOMAIN releases : ~releases[i].draft}

Init ==
  /\ head = [r \in Repos |-> 1]
  /\ ci = [r \in Repos |-> [c \in Commits |-> IF c = 1 THEN "running" ELSE "none"]]
  /\ green = {}
  /\ recipe = 1
  /\ images = [s \in Services |-> <<>>]
  /\ expired = [s \in Services |-> 0]
  /\ phase = "idle"
  /\ input = NoInput
  /\ job = [s \in Services |-> "wait"]
  /\ result = NoResult
  /\ attempt = 1
  /\ rerunnable = {}
  /\ releases = <<>>
  /\ incidents = 0

Incident == incidents < MaxIncidents /\ incidents' = incidents + 1

\* The run under way is over; what its jobs worked with goes with them.
Ended ==
  /\ phase' = "idle"
  /\ input' = NoInput
  /\ job' = [s \in Services |-> "wait"]
  /\ result' = NoResult
  /\ attempt' = 1

\* A failed run keeps its artifacts for a re-run.
RunFails ==
  /\ Ended
  /\ rerunnable' = rerunnable \cup {[input |-> input, result |-> result]}

-----------------------------------------------------------------------------
\* The repositories.

PushMain(r) ==
  /\ head[r] < LastCommit
  /\ head' = [head EXCEPT ![r] = @ + 1]
  /\ ci' = [ci EXCEPT ![r][head[r] + 1] = "running"]
  /\ UNCHANGED <<green, recipe, registry, work, releases, incidents>>

FinishCI(r, c, outcome) ==
  /\ ci[r][c] = "running"
  /\ ci' = [ci EXCEPT ![r][c] = outcome]
  /\ green' = IF outcome = "passed" THEN green \cup {<<r, c>>} ELSE green
  /\ UNCHANGED <<head, recipe, registry, work, releases, incidents>>

\* Somebody starts the CI of a commit again: its newest run is not complete.
RestartCI(r, c) ==
  /\ ci[r][c] \in {"passed", "failed"}
  /\ Incident
  /\ ci' = [ci EXCEPT ![r][c] = "running"]
  /\ UNCHANGED <<head, green, recipe, registry, work, releases>>

MergePlatform ==
  /\ recipe < LastRecipe
  /\ recipe' = recipe + 1
  /\ UNCHANGED <<head, ci, green, registry, work, releases, incidents>>

-----------------------------------------------------------------------------
\* Discovery.

\* A run of the schedule or of an operator, or all jobs of an earlier run
\* again, which works with the platform commit of that run.
StartRun(v) ==
  /\ phase = "idle"
  /\ v <= recipe
  /\ phase' = "discover"
  /\ input' = [NoInput EXCEPT !.recipe = v]
  /\ UNCHANGED <<origin, registry, job, result, attempt, rerunnable, releases, incidents>>

Unread == {r \in Repos : input.sources[r] = 0}

\* Any CI run that passed on the repository's main would do.
CiPassedMutant(r) == \E c \in Commits : ci[r][c] = "passed"

\* Only the newest push run of the very commit counts.
CiPassed(r) == ci[r][head[r]] = "passed"

ReadHead(r) ==
  /\ phase = "discover"
  /\ r \in Unread /\ \A q \in Unread : r <= q
  /\ IF CiPassed(r)
     THEN /\ input' = [input EXCEPT !.sources[r] = head[r]]
          /\ UNCHANGED <<phase, job, result, attempt>>
     ELSE Ended
  /\ UNCHANGED <<origin, registry, rerunnable, releases, incidents>>

FinishDiscovery ==
  /\ phase = "discover" /\ Unread = {}
  /\ IF ReleasesOf(input) \cap Published # {}
     THEN Ended
     ELSE phase' = "build" /\ UNCHANGED <<input, job, result, attempt>>
  /\ UNCHANGED <<origin, registry, rerunnable, releases, incidents>>

\* A request of GitHub fails or the runner is lost; nothing is kept of the run.
DiscoveryFails ==
  /\ phase = "discover"
  /\ Incident
  /\ Ended
  /\ UNCHANGED <<origin, registry, rerunnable, releases>>

-----------------------------------------------------------------------------
\* Build jobs, one per service.

\* Builds although the tag exists.
PreparedMutant(s) == [digest |-> 0, next |-> "build"]

\* An immutable tag with the same build inputs is reused.
Prepared(s) ==
  LET digest == EcrDigest(s, ImageTag(input, s))
  IN [digest |-> digest, next |-> IF digest = 0 THEN "build" ELSE "done"]

Prepare(s) ==
  /\ phase = "build" /\ job[s] = "wait"
  /\ job' = [job EXCEPT ![s] = Prepared(s).next]
  /\ result' = [result EXCEPT ![s] = Prepared(s).digest]
  /\ UNCHANGED <<origin, registry, phase, input, attempt, rerunnable, releases, incidents>>

\* Builds what main is now instead of the recorded commit.
CheckedOutMutant(s) == head[RepoOf[s]]

CheckedOut(s) == input.sources[RepoOf[s]]

\* The registry refuses a second image under an immutable tag.
Push(s) ==
  /\ phase = "build" /\ job[s] = "build"
  /\ IF EcrDigest(s, ImageTag(input, s)) # 0
     THEN /\ job' = [job EXCEPT ![s] = "failed"]
          /\ UNCHANGED <<images, result>>
     ELSE /\ images' = [images EXCEPT ![s] =
               Append(@, [tag |-> ImageTag(input, s), content |-> TreeOf[s][CheckedOut(s)]])]
          /\ result' = [result EXCEPT ![s] = Len(images[s]) + 1]
          /\ job' = [job EXCEPT ![s] = "pushed"]
  /\ UNCHANGED <<origin, expired, phase, input, attempt, rerunnable, releases, incidents>>

\* record_build, and the upload of the job's artifact.
Record(s) ==
  /\ phase = "build" /\ job[s] = "pushed"
  /\ LET agrees == EcrDigest(s, ImageTag(input, s)) = result[s]
     IN /\ job' = [job EXCEPT ![s] = IF agrees THEN "done" ELSE "failed"]
        /\ result' = [result EXCEPT ![s] = IF agrees THEN @ ELSE 0]
  /\ UNCHANGED <<origin, registry, phase, input, attempt, rerunnable, releases, incidents>>

\* The job may fail at any step; fail-fast is off, so the others go on.
JobFails(s) ==
  /\ phase = "build" /\ job[s] \in {"wait", "build", "pushed"}
  /\ Incident
  /\ job' = [job EXCEPT ![s] = "failed"]
  /\ result' = [result EXCEPT ![s] = 0]
  /\ UNCHANGED <<origin, registry, phase, input, attempt, rerunnable, releases>>

Proceed(step) == phase' = step /\ attempt' = 1 /\ UNCHANGED <<input, job, result, rerunnable>>

\* The publish job needs every build job; it checks that all images are there.
FinishBuild ==
  /\ phase = "build" /\ \A s \in Services : job[s] \in {"done", "failed"}
  /\ IF \A s \in Services : job[s] = "done"
     THEN Proceed("view")
     ELSE RunFails
  /\ UNCHANGED <<origin, registry, releases, incidents>>

-----------------------------------------------------------------------------
\* The publish job.

Retry(step) ==
  IF attempt < MaxAttempts
  THEN phase' = step /\ attempt' = attempt + 1 /\ UNCHANGED <<input, job, result, rerunnable>>
  ELSE RunFails

\* ensure_draft asks for the release; a call that fails counts as "no".
ViewRelease ==
  /\ phase = "view"
  /\ \/ /\ ReleasesOf(input) # {}
        /\ Proceed("upload")
        /\ UNCHANGED incidents
     \/ /\ \/ ReleasesOf(input) = {} /\ UNCHANGED incidents
           \/ Incident
        /\ phase' = "create"
        /\ UNCHANGED <<input, job, result, attempt, rerunnable>>
  /\ UNCHANGED <<origin, registry, releases>>

Draft == Append(releases, [id |-> input, images |-> result, draft |-> TRUE])

\* GitHub takes several drafts of a tag, but none of a published one.  A create
\* that answers with an error may have made the draft.
CreateDraft ==
  /\ phase = "create"
  /\ \/ /\ ReleasesOf(input) \cap Published = {}
        /\ releases' = Draft
        /\ Proceed("upload")
        /\ UNCHANGED incidents
     \/ /\ ReleasesOf(input) \cap Published # {}
        /\ Retry("view")
        /\ UNCHANGED <<releases, incidents>>
     \/ /\ Incident
        /\ Retry("view")
        /\ \/ UNCHANGED releases
           \/ ReleasesOf(input) \cap Published = {} /\ releases' = Draft
  /\ UNCHANGED <<origin, registry>>

\* Nothing reads the uploaded file, so only the outcome of the call matters.
UploadManifest ==
  /\ phase = "upload"
  /\ \/ Proceed("edit") /\ UNCHANGED incidents
     \/ Incident /\ Retry("upload")
  /\ UNCHANGED <<origin, registry, releases>>

\* gh resolves a tag to its published release before it looks at drafts.
Target ==
  LET public == ReleasesOf(input) \cap Published
  IN IF public # {} THEN public ELSE ReleasesOf(input)

Edited(i) == [releases EXCEPT ![i].draft = FALSE, ![i].images = result]

PublishRelease ==
  /\ phase = "edit"
  /\ \E i \in Target :
       \/ releases' = Edited(i) /\ Ended /\ UNCHANGED <<rerunnable, incidents>>
       \/ /\ Incident
          /\ Retry("edit")
          /\ releases' \in {releases, Edited(i)}
  /\ UNCHANGED <<origin, registry>>

\* The runner is lost or the job runs into its time limit.
PublishStops ==
  /\ phase \in {"view", "create", "upload", "edit"}
  /\ Incident
  /\ RunFails
  /\ UNCHANGED <<origin, registry, releases>>

\* Takes the artifacts of whatever failed run.
KeptMutant(w) == (CHOOSE v \in rerunnable : TRUE).result

\* Finished jobs keep their artifact.
Kept(w) == w.result

\* An operator re-runs the failed jobs of a run.
Rerun(w) ==
  /\ phase = "idle"
  /\ rerunnable' = rerunnable \ {w}
  /\ phase' = "build"
  /\ input' = w.input
  /\ result' = Kept(w)
  /\ job' = [s \in Services |-> IF Kept(w)[s] = 0 THEN "wait" ELSE "done"]
  /\ UNCHANGED <<origin, registry, attempt, releases, incidents>>

-----------------------------------------------------------------------------
\* The registry's lifecycle policy.

Expire(s) ==
  /\ Len(images[s]) - expired[s] > Keep
  /\ expired' = [expired EXCEPT ![s] = @ + 1]
  /\ UNCHANGED <<origin, images, work, releases, incidents>>

-----------------------------------------------------------------------------
\* Steps of the workflow run under way.
WorkflowStep ==
  \/ \E r \in Repos : ReadHead(r)
  \/ FinishDiscovery
  \/ \E s \in Services : Prepare(s) \/ Push(s) \/ Record(s)
  \/ FinishBuild
  \/ ViewRelease
  \/ CreateDraft
  \/ UploadManifest
  \/ PublishRelease

Next ==
  \/ \E r \in Repos : PushMain(r)
  \/ \E r \in Repos, c \in Commits : RestartCI(r, c)
  \/ \E r \in Repos, c \in Commits, o \in {"passed", "failed"} : FinishCI(r, c, o)
  \/ MergePlatform
  \/ \E v \in Recipes : StartRun(v)
  \/ WorkflowStep
  \/ DiscoveryFails
  \/ \E s \in Services : JobFails(s)
  \/ PublishStops
  \/ \E w \in rerunnable : Rerun(w)
  \/ \E s \in Services : Expire(s)

Spec == Init /\ [][Next]_vars

\* The schedule queues a run, which starts when the group is free; the runner
\* then works its way through the jobs.
Fairness ==
  /\ SF_vars(\E v \in Recipes : v = recipe /\ StartRun(v))
  /\ WF_vars(WorkflowStep)

LiveSpec == Spec /\ Fairness

-----------------------------------------------------------------------------
RunInputs == [sources : [Repos -> Commits \cup {0}], recipe : Recipes]

\* The variables stay in their ranges, and an expired image is one of the oldest
\* of its repository.
TypeOK ==
  /\ head \in [Repos -> Commits]
  /\ ci \in [Repos -> [Commits -> {"none", "running", "passed", "failed"}]]
  /\ green \subseteq Repos \X Commits
  /\ recipe \in Recipes
  /\ images \in [Services -> Seq([tag : Trees, content : Trees])]
  /\ expired \in [Services -> Nat]
  /\ \A s \in Services : expired[s] <= Len(images[s])
  /\ phase \in Phases
  /\ input \in RunInputs
  /\ job \in [Services -> {"wait", "build", "pushed", "done", "failed"}]
  /\ result \in [Services -> Nat]
  /\ attempt \in 1 .. MaxAttempts
  /\ rerunnable \subseteq [input : Ids, result : [Services -> Nat]]
  /\ releases \in Seq(Releases)
  /\ incidents \in 0 .. MaxIncidents

\* Every commit of a published release has passed CI on main, although the
\* repositories are read one after another and move on meanwhile, and however
\* often the run was interrupted and started again (discover).
PublishedIsTested ==
  \A i \in Published, r \in Repos : <<r, releases[i].id.sources[r]>> \in green

\* A published manifest is complete, and the digest it names for a service is
\* of an image pushed under the tag of the release's build inputs and built from
\* them, whichever run and whichever earlier commit the image came from
\* (prepare_build, record_build, finalize).
PublishedAsBuilt ==
  \A i \in Published, s \in Services :
    LET d == releases[i].images[s] IN
    LET tag == ImageTag(releases[i].id, s) IN
    d \in Digests(s) /\ images[s][d] = [tag |-> tag, content |-> tag]

\* Parts of the inductive invariant of the proofs.
\* What stands in a release, an artifact or a failed run is known to be right.
SourceTested(r, c) == c # 0 => <<r, c>> \in green
Tagged(id, s, d) == d \in Digests(s) /\ images[s][d].tag = ImageTag(id, s)
SoundResult(id, res) == \A s \in Services : res[s] # 0 => Tagged(id, s, res[s])

\* A passed CI run is remembered, and so are the sources of whatever has some.
GreenInv ==
  /\ \A r \in Repos, c \in Commits : ci[r][c] = "passed" => <<r, c>> \in green
  /\ \A r \in Repos : SourceTested(r, input.sources[r])
  /\ \A w \in rerunnable, r \in Repos : SourceTested(r, w.input.sources[r])
  /\ \A i \in DOMAIN releases, r \in Repos : SourceTested(r, releases[i].id.sources[r])

\* Every image is of the tree its tag names.
ImageInv == \A s \in Services : \A d \in Digests(s) : images[s][d].content = images[s][d].tag

\* The results of the run under way, by its phase.
RunInv ==
  /\ phase \in {"idle", "discover"} => \A s \in Services : result[s] = 0 /\ job[s] = "wait"
  /\ phase \notin {"idle", "discover"} =>
       /\ input \in Ids
       /\ SoundResult(input, result)
       /\ \A s \in Services : job[s] \in {"pushed", "done"} => result[s] # 0
  /\ phase \in {"view", "create", "upload", "edit"} => \A s \in Services : result[s] # 0

\* Failed runs and releases, drafts included.
KeptInv ==
  /\ \A w \in rerunnable : SoundResult(w.input, w.result)
  /\ \A i \in DOMAIN releases :
       /\ SoundResult(releases[i].id, releases[i].images)
       /\ \A s \in Services : releases[i].images[s] # 0

\* The inductive invariant behind PublishedIsTested and PublishedAsBuilt.
IInv == TypeOK /\ GreenInv /\ ImageInv /\ RunInv /\ KeptInv

\* A tag is pushed again only once its earlier image has expired.
HeldInv ==
  \A s \in Services : \A d, e \in Digests(s) :
    d < e /\ images[s][d].tag = images[s][e].tag => d <= expired[s]

\* Publication is a catalogue of whole manifests in which a release appears once:
\* neither retries of an edit that took effect nor re-runs of older failed runs change
\* what is published, except for images the registry has let go of (publish job;
\* docs/aws-image-releases.md on editing published releases).
Catalogue ==
  INSTANCE ReleaseCatalogue WITH
    Images <- Nat \ {0},
    catalogue <- {[id |-> releases[i].id, images |-> releases[i].images] : i \in Published},
    gone <- UNION {{s} \X (1 .. expired[s]) : s \in Services}
PublishesOnce == Catalogue!Spec

\* A release tag is created once: ensure_draft asks before every attempt so that
\* a release that was made although an error came back is not made again
\* (publish-images.yml).  The question may fail like the call before it.
CreatedOnce ==
  \A i, j \in DOMAIN releases : releases[i].id = releases[j].id => i = j

\* Main commits that stay and whose CI passes are published, with the recipe
\* that stays, after any number of interrupted builds and publications
\* (schedule of publish-images.yml, reuse of tags in prepare_build).
Tested == \A r \in Repos : CiPassed(r)
HeadsPublished ==
  \E i \in Published : releases[i].id = [sources |-> head, recipe |-> recipe]
TestedHeadsPublished == <>[]Tested => []<>HeadsPublished
=============================================================================
