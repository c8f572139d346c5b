# TLA+ models of the Fruition platform

The repository holds the operations side of Fruition: the Terraform and
Kubernetes configuration of one EKS installation, the Python tools that publish,
deploy, migrate and recover releases, three Lambda functions, and the shell
scripts that run the stack locally. Most of its lines are documents. What can go
wrong is in the tools: each is a long sequence of calls to AWS or Kubernetes that
other actors interleave with and that may stop after any call.

## Inventory

| Part | State it keeps | Operations | Hard because | Modules |
| --- | --- | --- | --- | --- |
| Request wake controller (`infra/lambda/request_wake/handler.py`, `infra/terraform/request-wake.tf`) | a DynamoDB item: phase, owned ASGs, since | sleep, wake, request, tick | reads that are stale when used, the autoscaler and EKS next to it, crash at any call, late datapoints | `RequestWake`, `MetricWindow` |
| Deployment, cutover, recovery (`scripts/aws_deploy.py`, `scripts/aws_maintenance.py`) | ConfigMaps: release records and the immutable maintenance ledger; schemas, Deployments, Ingress | deploy, rollback, maintenance cutover, recover | kills without cleanup, migrations that outlive the tool, operators and KEDA, a broker that restarts, reservations left behind, an order that keeps mixed versions from the public | `ReleaseDeploy` |
| Initial install chain (`aws_deploy.py`, `initial_install_state`) | immutable ConfigMaps: marker, repairs, readiness | bootstrap, three reviewed repairs, first deploy | each record names the one before it, runs stop between any two, other modes of deployment ask for none of them | `InitialInstall`, `Installation` |
| Release publication (`scripts/aws_image_release.py`, `publish-images.yml`) | immutable build tags in ECR, GitHub releases (draft, published) with the manifest in their body | discover, prepare-build, record-build, finalize, notes, fetch, verify | sources that move on, jobs that fail after their effect, re-runs of old runs, expiring images, a registry that moves on during a verification | `ImageRelease`, `ImageDeployment`, `ReleaseCatalogue` |
| Smoke (`aws_release_safety.py`, `aws_pdf_smoke.py`, `aws_security_auth_smoke.py`) | documents of the smoke workspace, the list of those to delete | login, upload, replay, convert, ingest, poll, delete, report | cleanup after failures, optimistic lock, lost answers, a release that may be broken | `SmokeDocument` |
| Secrets and JWT keys (`aws_secret_tools.py`, `aws_jwt_keys.py`, `aws_waf_access_code.py`) | secret versions and their stages | stage, rotate, retire, copy for the WAF, promote | read-modify-write without a lock, lost answers, repeated rotations | `SecretRotation` |
| Local runtime (`dev-up.sh`, `dev-down.sh`, `lib/runtime.sh`, `*-up.sh`, `*-down.sh`) | PID files, ports | start, stop | recycled PIDs, partial starts | not modelled |
| Budget and credential Lambdas | none or one flag | notify, deactivate | duplicates of events | not modelled |
| Terraform, manifests, WAF, database isolation, dashboards, load tests, e2e scripts | declarative or tests | - | - | not modelled |

The parts meet in the cluster. The deployment tool and the wake controller never
call each other: the procedure in `docs/aws-maintenance-cutover.md` stops the wake
automation before a cutover. The publication gives the deployment the manifest
whose SHA names a release here. The smoke is the last gate before a release record, and the PDF probe runs
after it. The keys the secret tool changes are what the smoke's tokens are signed and
verified with.

What makes each part correct:

- Wake controller: the phase on record tells the truth about the node groups; a
  crash never leaves a mutation without a recorded intent; a request is never lost;
  a wake completes and is never turned back; groups it does not own are left alone.
- Deployment: under an unresolved cutover nothing but its recovery runs; migrations
  run without writers; applications run on reviewed schemas only; the public never
  meets mixed versions; a record of success or of containment says what is so;
  one process owns an attempt.
- Publication: a release is published once, whole and from tested commits; each
  image it names was built from its inputs; tested heads get published in the end; a
  service that a deployment does not touch goes on with its image.
- First installation: databases are migrated only if they were empty when they were
  bound to a release; the chain of records grows by reviewed repairs only and always
  has an input that goes on with it; what is released is what was made ready.
- Secrets: nobody's change is overwritten; a key goes on verifying until it is
  retired; a report says what happened.
- Smoke: a check that passes leaves nothing; what stays behind is counted or told; a report is always written.

The hazards at their source lines are listed in `PROJECT.json`.

## Modules

### `RequestWake`

One run of the Lambda is a sequence of AWS calls. `pc` is the call it makes next,
and the group it makes it for; each call is one action, `Crash` may end the run at
any of them, and the locals of the run (`nodes`, `groups`, `done`) are what it saw
earlier. Reserved concurrency 1 (`request-wake.tf:92`) is why there is one `pc`.

| Code (`handler.py`) | Definition |
| --- | --- |
| `run`, commands and tick, lines 88-120 | `InvokeSleep`, `InvokeWake`, `InvokeRequest`, `InvokeTick`, `CheckNodegroup`, `CheckAsg`, `SaveSleeping`, `Detect` |
| `save` | `SaveWaking`, `SaveSleeping`, `Finish` |
| `nodegroups`, `asg`, ownership check, 122-127 | `DescribeNodegroup`, `DescribeAsg`, `SameGroups` |
| suspend and resume, 129-150 | `Launch` |
| `resize`, 69-85 | `Minimum`, `Wanted`, `Settled`, `ResizeGroup`, `AiUpdateFails` |
| completion of sleep and wake, 136-165 | `SleepComplete`, `WakeComplete`, `Finish` |

Outside: EKS (`EksApply`, `EksSync`, `OutsideUpdate`), the ASG
(`StartInstance`, `StopInstance`, `LoseInstance`, `InstanceServes`), the
autoscaler (`Autoscale`), operators (`OperatorSuspend`, `OperatorResume`,
`ReplaceNodegroup`), users and CloudWatch (`UserHit`, `Publish`). EKS rejects an
update while another is in progress, which is the conflict the wake survives for
the AI group.

Abstractions. The detection window is one datapoint that is absent, not yet
published, or published; `since` is rounded down to a minute, so a hit of the run
that records asleep stays in the window and an earlier one may. The validation of
the command is left out, and so is `status`, which changes nothing.

### `MetricWindow`

The query of `has_request` (lines 52-67): `Unit` and `Period` are the choice of the
period from the age of the sleep, `Points` the periods its window can touch.
`Accepted` is what CloudWatch demands of a query: at most 1440 datapoints, and a period
of a multiple of 60 s, of 300 s once the start is 15 days ago, of 3600 s after 63 days.
`QueryAccepted` asks it of the query of every `Detect`, at ages around every change of
unit or period in ten months; `MetricWindow_proofs` proves it for every age. The query
of `RequestWake`'s `Detect` is therefore one that answers.

### `ReleaseDeploy`

A run of the tool is one process with its own `at`. A step of the model is a group
of calls nothing depends on in between. The state is the release records, the
ledger of each release, the reviewed fingerprints, the schema of each database, the
migration Job of each database, the Deployments and their Pods, the Ingress and
its bindings, and the scalers. A schema is the set of releases whose migrations it
has had, so two fingerprints are equal when those sets are.

| Code | Definition |
| --- | --- |
| `guarded_deploy`, lines 262-307 | `Guard`, `Inspect`, `Preflight`, `Reassert`, `Lock` |
| `complete_migrated_release`, 179-242 | `RecoverGuard`, `RecoverInspect`, `RecoverSchema`, `Reassert`, `Lock` |
| `assert_quiescent`, `maintenance_routes`, `preflight_job` | `Quiescent`, `Offlined`, `QuietDb` |
| `_deploy`, 676-730 | `Existing`, `Before`, `Recheck`, `StartJob`, `AwaitJob`, `AfterJobs` |
| `complete_rollout`, 793-862 | `Events`, `Settled`, `Begin`, `Bind`, `AwaitBinding`, `Apply`, `AwaitRollout`, `ApplyScalers`, `Unblock`, `Rebind`, `Public`, `Smoke`, `WriteRecord` |
| `wait_kafka_settled`, 389-410 | `AwaitKafka` |
| `reserve_deployment_headroom`, 736-776 | `Reserve`, `Unreserve` |
| the handlers of both, 310-330 and 245-259 | `Raise`, `ContainRoutes`, `ContainApps`, `MarkFailed` |
| SIGKILL, a lost host | `Kill` |

Outside: migration Jobs that finish or fail whether or not the tool still waits
(`MigrationSucceeds`, `MigrationFails`), the Deployment controller
(`PodsConverge`), the load balancer controller (`BindingsFollow`), KEDA (`Keda`),
Strimzi, which restarts the broker (`Strimzi`), the deadline of a reservation that was
left behind (`HeadroomExpires`) and the operators. The operators follow `docs/aws-maintenance-cutover.md`: they may
take the installation down at any time except during a rollout, and bring nothing
up under an unresolved attempt. They do not restore the scalers while an offline
run is under way; if they did so between the second quiescence check and the lock,
a containment on record as "requested" would not hold, because KEDA would scale a
worker up again.

Abstractions. The configuration, the images of a release and its review are fixed
by its id, so the checks that compare them only appear where another release's
could be found (`RecoverInspect`). A review of a cutover is rewritten with the
schemas of the day until its attempt is on record. `PlatformWaits` says whether a
rollout may find the broker restarting and another run's reservation; where it is FALSE
both waits end at once. The wait for foundation resources is a step that may fail. A
second process, which only an operator can start past the workflow's concurrency group,
runs the same release and also offline, or also online.

### `InitialInstall` and `Installation`

The first installation is one run at a time (`run`), the ConfigMaps it writes (`rec`,
`release`), the databases, their Jobs and the release the applications are of. A
manifest is the set of reviewed changes it has, so a repair is one more element, and an
input that differs from the records in any other way is refused.

| Code (`aws_deploy.py`) | Definition |
| --- | --- |
| `validate_deploy_inputs`, 626-641 | `Inputs` |
| `initial_install_state`, 533-618 | `Accepts`: `ChainHolds`, `LinkHolds`, `WiringHolds`, `ReadyManifest`, `StageHolds`; `Pending` |
| the three comparisons of manifests, 448-530 | `Reviewed` |
| `install_record`, `apply` of an immutable ConfigMap | `Expected`, `Put` |
| `_deploy`, 676-733 | `WriteRepair`, `CheckEmpty`, `Bind`, `StartJob`, `AwaitJob`, `Fingerprint` |
| `complete_rollout` | `Rollout`, `MarkReady`, `RecordRelease` |

Outside: Jobs that end with or without the run (`MigrationSucceeds`, `MigrationFails`),
and deployments of another mode, each one step (`OrdinaryBootstrap`, `OrdinaryDeploy`).
These ask for none of the records, so they can take an installation over; the
properties speak of one that is `Open`. Operators start no ordinary deployment that
could fail while an installation is bound: it would leave schemas that no record names.

Abstractions. The configuration of the environment is the same in every input. What a
rollout does is `ReleaseDeploy`'s part and is one step here. A step that fails may have
taken effect: `Fail` comes before it or after it. Two repairs by hand at the same time,
which the workflow's concurrency group excludes, are not modelled; each would record the
manifest it started from, and the two records would not form a chain.

`Installation` is the promise to whoever runs it: bound once, changed by reviewed
repairs only, made ready once and released once. `InstallsOnce` says that
`InitialInstall` implements it, the stage and the manifest being read off the records.

### `SecretRotation`

Runs of the three tools are processes with an `at`; each call to Secrets Manager is a
step. A secret is the version AWSCURRENT is on and how many versions have had it, so
that "is it still the version I read" is a comparison of two numbers.

| Code | Definition |
| --- | --- |
| `aws_jwt_keys.stage`, `main` | `Allowed`, `Changed`, `Read` |
| `aws_waf_access_code.sync` | `ReadSource`, `ReadDestination`, `Recheck` |
| `promote_secret` | `Put`, `Promote`, `Move`, `Confirm` |
| `_remove_stage` | `Unlabel` |
| `aws` when a call fails | `CallFails`, and the second alternatives of `Put`, `Promote`, `Unlabel` |

Outside: somebody else who changes the access code (`Edit`), and kills (`Kill`).

Abstractions. A key pair is a number and an access code the number of its change.
`--consumers-verified` is said of a secret the tool has not read yet, and nothing ties
it to a version; a retirement is taken as meant. Copies for the WAF run one at a time,
as the tool is run before a Terraform plan: a second one could replace what the first
found "already synchronized".

### `SmokeDocument`

The smoke of a deployment and the PDF probe that follows it share one process `probe`
and one document service. `at` is the call it makes next, `created` what it will delete,
`left` how far the cleanup is.

| Code | Definition |
| --- | --- |
| `Probe.api`, `login` (`aws_pdf_smoke.py`) | `Login`, `Unauthorized`, `CallFails`, `Answered`, `Raised` |
| `Probe.run`, 151-223 | `Start`, `PartUrl`, `PartPut`, `Complete`, `Replay`, `Abort`, `Preview`, `ByteRange`, `Convert`, `Poll`, `Judged`, `Ingest`, `TimeOut` |
| `remember`, `cleanup`, `main` | `Remember`, `Cleanup`, `Get`, `Delete`, `Finish` |
| `authenticated_smoke` (`aws_release_safety.py`, 47-119) | `Create`, `View`, and `Ingest`, `Poll`, `Get`, `Delete` in phase "release" |

Outside is the service under test, which may be the broken release the checks are there
to find: it may make a second document of a replay, split a document, fail an ingest,
go on with a document while it is deleted, or never finish (`Converted`, `Split`,
`AutoIngest`, `Ingested`); it may reject every token (`Reject`), and tokens expire.

Abstractions. Deadlines are a number of polls. The size of the parts, the check of the
signed URL and the two headers are calls that may fail. A probe that is killed writes no
report and leaves its documents; that is what the workspace of its own is for.

### `ImageRelease`, `ImageDeployment` and `ReleaseCatalogue`

One workflow run works at a time (the concurrency group of `publish-images.yml`);
`phase`, `input` (its `release-input` artifact), `job` and `result` (the artifact of
each build job) are its state. A run that fails stays in `rerunnable`; a re-run
keeps the finished jobs and starts the others over. `images` is every push of a
service, so a digest is a position in it and two builds of the same inputs differ;
`expired` is how many of the oldest the lifecycle policy has removed. Jobs run on fresh
runners, so nothing of a run but its artifacts outlives it (`Ended`).

| Code | Definition |
| --- | --- |
| `discover`, `ci_passed` | `StartRun`, `ReadHead`, `CiPassed`, `FinishDiscovery`, `DiscoveryFails` |
| `build_id`, `image_tag`, `ecr_digest` | `ImageTag`, `EcrDigest` |
| `prepare_build`, the push, `record_build` | `Prepare`, `Push`, `Record`, `JobFails` |
| `needs`, `finalize`, `notes` | `FinishBuild`, `Draft`, `Edited` |
| `ensure_draft`, `retry`, upload, edit | `ViewRelease`, `CreateDraft`, `UploadManifest`, `PublishRelease`, `Retry`, `PublishStops` |
| re-run of failed jobs, of all jobs | `Rerun`, `StartRun` with an older recipe |
| lifecycle policy (`ecr.tf`) | `Expire` |
| `fetch`, `verify --manifest` (`deploy.yml`) | `ImageDeployment`: `Fetch`, `VerifyImage`, `Matches`, `DeploymentStops` |

Outside: commits, CI and its restarts (`PushMain`, `FinishCI`, `RestartCI`), commits
of this repository that change the recipe (`MergePlatform`). GitHub takes several
drafts of one tag, refuses a draft of a published one, and `gh` resolves a tag to the
published release first (`Target`).

`ImageDeployment` adds the deployments and rollbacks to that: `fetched` is the manifest
under way, `verified` how many of its images have been found, each by a call of its own
in the order of the manifest, and `deployed` the manifest of the last deployment that
went ahead. Everything else goes on between the calls, so an image that was found may
have expired when the last one is; the code does not look again, and neither does the
model. What the checks establish all the same is `UnchangedServiceStays`.
A deployment writes nothing that publication reads (`PublicationGoesOn`).

`ReleaseCatalogue` is the promise to whoever deploys: a set of manifests, one for each
release, each whole and not edited but where one of the two builds of an image is gone.
`PublishesOnce` says that `ImageRelease` implements it, the catalogue being the published
releases and what is gone the expired images.

Abstractions. A tree is a value, equal for equal contexts; the hashes that make up
release and build ids are injective. `BUILDER_VERSION` is a constant of the code and
part of every tag, so it does not appear. Only schema 3 is written and modelled. The
uploaded `release.json` is left out: deployments read the body. The account and
mutability checks of `prepare_build` are failures of the job (`JobFails`). An artifact
that expires after seven days makes a re-run fail, which it may do anyway.

The `MC` modules give sizes, orders, trees and symmetry their values for TLC.

## Runs

| Run | Instance | Shows |
| --- | --- | --- |
| `wake_race` | groups of the smallest size, one scaling, one replacement of a group | asleep and awake on record are true, foreign groups stay untouched, the metric query is accepted, and the inductive invariant holds |
| `wake_live` | one fault instead, with fairness | intent covers mutations, wakes are not cancelled or cut short; wakes complete, sleeps settle, requests wake |
| `wake_capacity` | one node more per group, one scaling | a violation: the wake lowers a size written after its describe |
| `cutover` | one release over two Deployments, one under KEDA, one fault, all operations | writers stay away from migrations, other operations from an unresolved attempt, the public from mixed versions; records are true |
| `chain` | three releases, two processes, two databases, two faults, the waits of the platform | `Safety`: all of that, and the created record as a lock, over cutovers after each other; applications stay away from half-migrated schemas; nothing is replaced before Kafka has settled |
| `refusal` | three releases, two faults | a violation: a finished recovery blocks later ones |
| `release_publish` | two repositories with a service each, two commits, a registry that keeps one image, one incident, deployments | what is published is tested, a service a deployment does not touch goes on with its image, and the inductive invariant of publication and deployment holds |
| `release_live` | one repository, two commits, two recipes, a registry that keeps one image, two incidents, with fairness | what is published is built from its inputs; implements `ReleaseCatalogue`; tested heads are published |
| `release_drafts` | one release, two incidents | a violation: a second draft of one release |
| `install` | two releases, two databases, four faults, every input, with fairness | `Safety`: records always let the operator go on; implements `Installation`; databases are migrated and released as promised; installations complete |
| `rotation` | two runs of any of the five operations, three key pairs, an edit, two faults | no change lost, no key dropped, reports and copies true, labels accounted for |
| `smoke` | two parts, four polls, four faults, with fairness | a pass leaves nothing, what is left is counted or told, a report is written |

`Safety` of a module is the conjunction of its type invariant and of named parts that are
asked of the same instance. The type invariants of `RequestWake` and `ImageRelease` are
the first conjunct of `IInv`, and `DeployInv` has `IInv` and that of `ImageDeployment`.

Bounds. One fault reaches a crash at every call, and two reach a fault inside the
handling of the first one (failed containment, killed recovery). One scaling
suffices for each race with the autoscaler, which is a single write after a read.
A fault and a scaling together are left to the proofs, which hold for all bounds (a
run of TLC over both had 2.9 million states and found no violation either).
Two databases are the least with a half-done migration (`chain`), two Deployments the
least with a half-done rollout (`cutover`; with two databases as well it has 3.0 million
states and no violation), and the three kinds of release (predecessor, finished,
unresolved) meet with three ids. Two processes are enough for a race on one record, and two
of the secret tools meet in every pair of their calls. Three key pairs are a rotation, one
that overtakes it and one after a retirement. Four faults of an installation are a failure
between each two of marker, repair, readiness and release; four of a smoke are a lost
answer, its abort, and two failures of the cleanup; two parts are the least the
probe accepts. Two incidents of a publication
are a call that took effect but failed and a fault of what follows it, or two failed
runs of one release (`release_live`); with one, `release_publish` has the failed run whose
re-run meets a registry that has moved on (with two it has 1.6 million states and no
violation); two attempts stand for the four of the code, the last and one
before it. With one image kept, the image of the first commit expires when the second
is pushed, and is built again by a re-run; a commit that leaves a tree alone reuses it.
Deadlock is checked in every run but `smoke`, whose checks end with their report.

The exception in `PublishesOnce` does happen: two failed runs of one release can keep
different digests of a tag that expired between them, and the re-run of the older one
then rewrites the published manifest with the expired digest (`Revise`; without it TLC
finds `release_live` violated). The code keeps 60 images and artifacts for seven days, so
this takes 60 pushes to one repository in a week.

The three violations are behaviours of the code:

- `WakeRetainsCapacity`: `handler.py:76` promises to retain larger capacity; the
  wanted size is the maximum over an earlier describe.
- `RecoveryRefusalIsReal`: `aws_maintenance.py:200` does not strip `-recovery` as
  `:274` does, so one finished recovery makes every later one fail with "another
  unresolved maintenance attempt exists".
- `CreatedOnce`: `publish-images.yml:140-141` promises not to make a release again
  that was made although an error came back; `view || create` takes a view that fails
  for an absent release. What is published is right all the same (`release_publish`).

Each property has a mutant in `PROJECT.json`: a definition with a plausible mistake
under which TLC finds the property violated.

## Fairness

`RequestWake`. `SF(InvokeTick)`: EventBridge fires every minute and drops what
it cannot deliver (`request-wake.tf:132-135`, no retry), so a tick lands when the
Lambda is free again and again. `WF(LambdaCall)`: each call has connect and read
timeouts and the Lambda ends after 55 s. `WF` of EKS applying an update, of the ASG
starting and stopping instances, of their entering service and of CloudWatch
publishing: AWS works off its own queue. Operators, users and the autoscaler
promise nothing; faults are bounded. Synchronising the EKS copy of the size gets
no fairness: completion must not depend on it.

`ImageRelease`. `SF(StartRun)` with the newest recipe: the schedule queues a run every
15 minutes and the concurrency group starts it when it is free. `WF(WorkflowStep)`:
jobs have time limits, so a run goes on until it ends or fails, and failures are
bounded. Re-runs by operators, commits and CI promise nothing; `TestedHeadsPublished`
assumes heads that stay and whose CI has passed.

`InitialInstall`. `WF(Step)`: every `kubectl wait` has a time limit. `WF` of a Job's
success: its controller works it off, and failures are bounded. `SF(Resume)`: "if it
failed it can be run again with the same inputs" is what the operator is told to do;
`InstallCompletes` says that this is enough, with no other input than the records name.

`SmokeDocument`. `WF(Progress)`: every call has a time limit and every wait a deadline.
The service gets no fairness: the report must come even if it never finishes.

## Proofs

Every safety property of the passing runs and both refinements are theorems: TLC checks
them on the instances above, the proofs for every value of the constants. A `_proofs`
module extends the module it is about. Each proof has an inductive invariant `IInv`,
which TLC checked first; its parts are named and the reason for each is below. The proof
that `IInv` is inductive has a lemma for each action, or for each of its parts where
the parts are independent. `Invariance` states the result, and the properties follow
from it.

| Module | Theorems about | Assumptions on the constants |
| --- | --- | --- |
| `RequestWake_proofs` | `IInv`, `IntentCoversMutation`, `AsleepMeansGone`, `AwakeKeepsCapacity`, `WakeNotCancelled`, `AwakeOnlyWhenReady`, `ForeignGroupUntouched` | a first group, a maximum of at least what a wake asks for |
| `MetricWindow_proofs` | `QueryAccepted` | none: every natural age |
| `ReleaseDeploy_proofs` | `Safety` and its parts, `AppsOnReviewedSchema`, `NoMixedTraffic`, `SuccessIsLive`, `ReplacedOnSettledKafka` | the base is a release, the order of replacement has the API, at least one database |
| `InitialInstall_proofs` | `Safety`, `ReleaseIsPromoted`, `MigratesOwnDatabases`, `InstallsOnce` | the three reviewed changes are changes, at least one database |
| `SecretRotation_proofs` | `Safety`, `EditsKept`, `ReportsAreTrue`, `KeysKeptUntilRetired`, `SyncedWhenReported` | finitely many runs |
| `SmokeDocument_proofs` | `Safety`, `CleanAfterPass`, `LeftoversTold` | two parts at least, the least the probe accepts |
| `ImageRelease_proofs` | `IInv`, `PublishedIsTested`, `PublishedAsBuilt`, `PublishesOnce` | each service has a repository, and a tree at each commit |
| `ImageDeployment_proofs` | `DeployInv`, `UnchangedServiceStays` | a manifest names each service, and at least one |

Bounds are natural numbers, and `None` is none of the values it stands beside.

### `RequestWake_proofs`

The safety properties speak of the phase on record, and a run acts on what it described
earlier. `IInv` adds

- `StageInv`: which phase each stage belongs to and what the locals hold there;
- `AsgInv`: the described ASGs are the current ones while a run acts;
- `LaunchInv`: a Launch process is held under a recorded intent only, and is held
  before anything can be sized to zero;
- `SeenInv`: a minimum of zero was seen after Launch was suspended, so a group
  seen empty stays empty; a minimum of two seen in a wake stays;
- `CapacityInv`: the ASG of the general group obeys the minimum of its node group.

`TypeStep`, `StageStep`, `AsgStep`, `LaunchStep`, `SeenStep`, `CapacityStep` and
`AsleepStep` prove one conjunct each over all actions. `MetricWindow_proofs` shows for
each of the three units of a query that 1400 periods are longer than the sleep and that
the period is a multiple of the unit (`PeriodOfUnit`).

### `ReleaseDeploy_proofs`

Any number of releases, databases, Deployments, faults and runs at a time. The properties
say what is so under an unresolved attempt; why it stays so depends on where each run
is and what its checks found. For the local state of each run, `IInv` has

- `PlaceInv`: the places that each kind of run passes, and its counter there;
- `PassedInv`: a run past its ledger check has nothing unresolved beside it but its own
  attempt, and one past its lock is on record with it;
- `GateInv`: what the checks before the lock found still holds when the lock is created,
  because whoever could change it is excluded by the routes, the scalers or the ledger;
- `MigrationInv`: of the databases of a cutover those before the current one are
  migrated, those after it as reviewed, and the current one is either, even if its Job ends
  after the run stopped waiting;
- `RolloutInv`: the databases of a rollout are migrated, and the Deployments before the
  current one replaced;
- `ContainInv`: what a containment without a failed call has done so far.

`TogetherInv` relates every two runs: they are of one release and kind, and at most one is
past its lock (`Owner`). `LedgerInv` and `DownInv` are the part without runs: a recovery
is of a failed attempt; under an unresolved attempt the applications are down or the
databases settled, and KEDA has nothing to scale.

`RunStep` reduces a step of a run to its new local state, the shared part and the other
runs. From it come one lemma for moves that change no record and no workload (`Advance`),
one for runs of an ordinary deployment (`OnlineStep`), of which the invariant asks
little because nothing is unresolved when they work, and one for a run that is past its
lock (`OwnerStep`): the others are then before theirs, idle, or ended by the record.
`LockStep` is the point where two runs may meet: the one whose record is created second
gets nothing. The steps of the cluster and of the operators follow (`ClusterStep`).

`SuccessIsLive` is an action property: only `WriteRecord` writes a release record
(`RecordKept`), and when it does every Deployment was replaced (`AllReplaced`) and the
routes and schemas are those of `RolloutInv`.

`ReplacedOnSettledKafka` needs more than `IInv`: two ordinary deployments at a time would
apply Kafka under each other. `KafkaIsSettled` therefore assumes `OneRollout`: one run at
a time, which is what the workflow's concurrency group gives, or any number of cutovers
and recoveries, which the ledger keeps apart. The run `chain` is of the second kind.

### `InitialInstall_proofs`

- `RecInv`: the records form a chain, each repair a reviewed change of what the one
  before it left;
- `SchemaInv`: a Job is under way only while something is bound and not ready; the
  schemas and images are of the bound release until something else is released;
- `RunInv`: what a run knows once its repair is on record, by its place;
- `RerunInv`: the input of a failed run is accepted again, or did all it was for.

`Acceptance` is the core: an input that agrees with what is on record is accepted by
`initial_install_state`. `InstallIsResumable` follows from it, both for the repetition of
a failed run and for each repair that is due. `InstallationIsImplemented` is the refinement: `Bind`,
`WriteRepair`, `MarkReady` and `RecordRelease` are the steps of `Installation`
(`BindImplements`, `RepairImplements`, `ReadyImplements`, `ReleaseImplements`), all
others leave the stage, the release and the manifest alone.

### `SecretRotation_proofs`

- `CountInv`: the labels left are at least the runs that have yet to remove one, and a key
  pair about to be made is not in use; it needs the cardinalities of sets of runs
  (`CountChange`);
- `LocalInv`: what the locals of a run say where it is;
- `HeldInv`: what a run is about to promote was made from what is current, as long as the
  version it read is; so a promotion that moves the label from that version loses nothing;
- `CopyInv`: the same of the copy for the WAF, up to its last look.

The lemmas named `...Effect` say what each step does to the locals, field by field; each
part of `IInv` is then one lemma over all steps.

### `SmokeDocument_proofs`

- `LocalInv`: what is remembered, renewed and counted at each place;
- `CountInv`: each known document that is alive is still to be deleted or was counted as
  a failure;
- `ToldInv`: a document that is alive and not known came from the call that the report
  names, or was split off while the probe polled;
- `DueInv`: what a check that has not failed knows to exist, so that one that passes has
  deleted all there is.

The parts are predicates of the local state and the documents, so a failure after a call
took effect (`RaisedKept`) is one lemma for all calls.

### `ImageRelease_proofs`

- `GreenInv`: the sources of every run, failed run, draft and release have passed CI;
- `ImageInv`: an image is of the tree its tag names;
- `RunInv`: the results of a run are images of its own tags and complete once it publishes;
- `KeptInv`: the same of failed runs and releases.

The lemmas go by what a step leaves alone (`OriginFrame`, `WorkFrame`, `PublishFrame`);
`ReleaseWritten` is the fact that a release is only ever written with the run's input and
results.

The refinement of `ReleaseCatalogue` needs two more invariants: `HeldInv`, a tag is pushed
again only once its earlier image has expired, because a tag that the registry has is
reused or refused (`RegistryStep`), and `UniqueInv`, a release is public once, because an
edit goes to the public release if there is one. So two complete results for one release
differ only in images one of which has expired (`ResultsDiffer`), and an edit is a
publication or a revision of the catalogue (`EditImplements`).

### `ImageDeployment_proofs`

`DeployInv` is `IInv` with

- `HeldInv` of `ImageRelease_proofs`;
- `ManifestInv`: the manifests under way and in use are complete and of their own inputs;
- `VerifiedInv`: for each service checked so far, the image in use stays or has expired and
  the fetched one is newer.

An image that a check finds is the only one in the registry with its tag (`FoundStays`),
and what that shows outlasts every later push and expiry, since an image that has expired
never comes back (`RegistryStep`, `ManifestsKept`). So the last check may rely on all
before it, although an image of one of them may be gone by then.

### Only model-checked

- Liveness: `WakeCompletes`, `SleepSettles`, `RequestWakes`, `TestedHeadsPublished`,
  `InstallCompletes` and `ReportWritten`. Fairness speaks of `ENABLED`, which the prover
  does not reason about.
- The three violations: TLC finds the counterexample, there is nothing to prove.
- `ReplacedOnSettledKafka` for two ordinary deployments at a time is neither claimed nor
  checked.

## Plan

1. An abstract specification of a cutover (unresolved, contained, released) that
   `ReleaseDeploy` implements, with its refinement proved from `IInv`.
2. `RequestWake` as an implementation of a switch between asleep and awake that a request
   turns on, with the safety part of the refinement proved.
3. The two checks of the smoke on a service that other checks use at the same time.

## Not modelled

- Terraform, manifests, WAF rules, dashboards, database isolation SQL, load tests and e2e
  scripts are declarative or tests.
- The rendering of manifests and the validation of configurations and reviews decide
  whether a run starts and leave no state.
- The local runtime scripts work on process ids and ports of one developer's machine;
  what is hard there is the operating system's reuse of both.
- The Lambdas of budget and credentials keep no state between events.
- `aws_security_auth_smoke.py` and `aws_waf_content_probe.py` only read.
