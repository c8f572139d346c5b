---------------------------- MODULE ReleaseDeploy ----------------------------
(***************************************************************************)
(* The deployment tool (scripts/aws_deploy.py, scripts/aws_maintenance.py) *)
(* against a running installation: ordinary deployments and redeployments  *)
(* of a recorded release, the maintenance cutover with its ledger of       *)
(* immutable ConfigMaps, and the recovery of a cutover that failed after   *)
(* its migrations.                                                         *)
(*                                                                         *)
(* A run of the tool is one process.  It makes one step per group of calls *)
(* that nothing depends on in between; the operators, the cluster's        *)
(* controllers and other runs interleave.  A step may raise, which unwinds *)
(* through the handlers of the code, or the process may be killed.         *)
(*                                                                         *)
(* A definition named ...Mutant precedes the definition it would replace:  *)
(* what a plausible mistake in that code would look like.  No              *)
(* specification uses it.                                                  *)
(***************************************************************************)
EXTENDS Naturals, Sequences

CONSTANTS
  Releases,   \* release ids (the SHA of an image manifest)
  Base,       \* the release that is installed and recorded at first
  Runs,       \* processes of the tool that may be under way at a time
  Ops,        \* what the operators run it for
  Order,      \* the Deployments, in the order in which they are rolled out
  NumJobs,    \* number of migration Jobs (one per database)
  PlatformWaits, \* must a rollout wait for Kafka and for room, or has it both at once?
  MaxFaults,  \* bound on exceptions, kills and failed migrations
  None        \* no release, no record

ASSUME ReleaseAssumption == Base \in Releases /\ None \notin Releases
\* complete_rollout replaces the converter first and the API services next.
ASSUME OrderAssumption ==
  Order \in Seq({"converter", "api", "worker"}) /\ "api" \in {Order[i] : i \in DOMAIN Order}
\* "deploy" with a review of mode none or expand-only, or of maintenance-cutover.
ASSUME OpsAssumption == Ops \subseteq {"deploy", "rollback", "maintenance", "recover"}
ASSUME JobAssumption == NumJobs \in Nat \ {0} /\ MaxFaults \in Nat /\ PlatformWaits \in BOOLEAN

VARIABLES
  record,     \* ConfigMap fruition-release-<r>: its fingerprints, or None
  ledger,     \* ConfigMaps fruition-maintenance-<r>-<suffix> of each release
  review,     \* before_fingerprints of the reviewed maintenance of r, or None
  schema,     \* schema of each database: the releases whose migration it has had
  job,        \* the migration Job object of each database
  image,      \* release of the images each Deployment specifies
  replicas,   \* whether a Deployment asks for any replica
  pod,        \* release of the Pods that exist for a Deployment, or None
  routes,     \* what the Ingress says: "normal" or the fixed 503 "maintenance"
  bound,      \* the ALB target group bindings exist
  scalers,    \* the ScaledObjects and HPAs exist
  kafka,      \* the broker runs what the Kafka object says, and is up
  headroom,   \* the run that created the Job fruition-deploy-headroom, or None
  run,        \* the local state of each process
  faults      \* faults so far

records == <<record, ledger, review>>
db      == <<schema, job>>
apps    == <<image, replicas, pod>>
edge    == <<routes, bound, scalers>>
platform == <<kafka, headroom>>
vars    == <<records, db, apps, edge, platform, run, faults>>

-----------------------------------------------------------------------------
Jobs == 1 .. NumJobs
Apps == {Order[i] : i \in DOMAIN Order}
\* Deployments whose replicas a ScaledObject sets; "api" stands for the others.
KedaApps == Apps \ {"api"}
Schemas == [Jobs -> SUBSET Releases]
Suffixes == {"started", "failed", "recovery-started", "recovery-failed"}
\* Suffixes whose record says that the containment is unverified.
Unverified == {"failed-unverified", "recovery-failed-unverified"}

\* Both end with the routes of complete_rollout's maintenance branch.
Offline == {"maintenance", "recover"}

Gates == {"guard", "inspect", "preflight", "reassert", "lock",
          "recover_guard", "recover_inspect", "recover_schema"}
Deploying == {"existing", "before", "recheck", "start_job", "await_job", "after"}
Rolling == {"events", "await_kafka", "bind", "await_binding", "reserve", "reserved", "apply", "await_rollout", "scalers", "unblock",
            "rebind", "public", "smoke", "record", "return"}
Cleanup == {"contain_routes", "contain_apps", "mark_failed"}
Idle == [at |-> "idle", op |-> "deploy", rel |-> Base, i |-> 1, existing |-> FALSE,
         current |-> None, dirty |-> FALSE]

Released == {r \in Releases : record[r] # None}
Started == {r \in Releases : "started" \in ledger[r]}
Recovering == {r \in Releases : "recovery-started" \in ledger[r]}
\* What the review expects after the migrations of r.
After(r) == [j \in Jobs |-> review[r][j] \union {r}]

Init ==
  /\ record = [r \in Releases |-> IF r = Base THEN [j \in Jobs |-> {Base}] ELSE None]
  /\ ledger = [r \in Releases |-> {}]
  /\ review = [r \in Releases |-> None]
  /\ schema = [j \in Jobs |-> {Base}]
  /\ job = [j \in Jobs |-> [of |-> Base, status |-> "complete"]]
  /\ image = [a \in Apps |-> Base] /\ replicas = [a \in Apps |-> TRUE] /\ pod = [a \in Apps |-> Base]
  /\ routes = "normal" /\ bound = TRUE /\ scalers = TRUE
  /\ kafka = TRUE /\ headroom = None
  /\ run = [p \in Runs |-> Idle]
  /\ faults = 0

-----------------------------------------------------------------------------
(* Steps of a run.                                                         *)
At(p, s) == run[p].at = s
Goto(p, s) == run' = [run EXCEPT ![p].at = s]
End(p) == run' = [run EXCEPT ![p] = Idle]

\* Where the code's exception handlers take a run that raises: past the lock,
\* a maintenance run contains the applications, anything else just ends.
Guarded(p) ==
  \/ run[p].op = "maintenance" /\ run[p].at \in Deploying \union Rolling
  \/ run[p].op = "recover" /\ run[p].at \in Rolling
Raise(p) == IF Guarded(p) THEN Goto(p, "contain_routes") ELSE End(p)

\* The step goes on to s if the check holds and raises otherwise.
Check(p, condition, s) == IF condition THEN Goto(p, s) ELSE Raise(p)

\* The operator starts the tool.  A maintenance review is rewritten with the
\* schemas of the day until its attempt is on record.  The concurrency group
\* of deploy.yml keeps workflow runs apart; a second run, by hand, is of the
\* release under way and with the routes it has, online or offline.
Invoke(p, op, r) ==
  /\ At(p, "idle")
  /\ \A q \in Runs : At(q, "idle") \/ (run[q].rel = r /\ (run[q].op \in Offline <=> op \in Offline))
  /\ run' = [run EXCEPT ![p] =
       [Idle EXCEPT !.at = IF op = "recover" THEN "recover_guard" ELSE "guard", !.op = op, !.rel = r]]
  /\ review' = IF op = "maintenance" /\ r \notin Started \union Released
               THEN [review EXCEPT ![r] = schema] ELSE review
  /\ UNCHANGED <<record, ledger, db, apps, edge, platform, faults>>

\* The ledger check of guarded_deploy, for every mode.
Unfinished == (Started \union Recovering) \ Released
\* Mutant: an ordinary deployment asks only for interrupted recoveries.
GuardMutant(p) ==
  /\ At(p, "guard")
  /\ LET r == run[p].rel IN
     IF run[p].op = "maintenance"
     THEN Check(p, Unfinished = {} /\ r \notin Released /\ Released \ {r} # {}, "inspect")
     ELSE Check(p, Recovering \ Released = {}, "existing")
  /\ UNCHANGED <<records, db, apps, edge, platform, faults>>

Guard(p) ==
  /\ At(p, "guard")
  /\ LET r == run[p].rel IN
     IF run[p].op = "maintenance"
     THEN Check(p, Unfinished = {} /\ r \notin Released /\ Released \ {r} # {}, "inspect")
     ELSE Check(p, Unfinished = {}, "existing")
  /\ UNCHANGED <<records, db, apps, edge, platform, faults>>

\* assert_quiescent, and the database clients the preflight Jobs see.
QuietDb == /\ \A a \in Apps : pod[a] = None
           /\ \A j \in Jobs : job[j].status # "active"
Quiescent == QuietDb /\ (\A a \in Apps : ~ replicas[a]) /\ ~ scalers
Offlined == routes = "maintenance" /\ ~ bound

Inspect(p) ==
  /\ At(p, "inspect")
  /\ Check(p, Quiescent /\ Offlined, "preflight")
  /\ UNCHANGED <<records, db, apps, edge, platform, faults>>

Preflight(p) ==
  /\ At(p, "preflight")
  /\ Check(p, QuietDb /\ schema = review[run[p].rel], "reassert")
  /\ UNCHANGED <<records, db, apps, edge, platform, faults>>

Reassert(p) ==
  /\ At(p, "reassert")
  /\ Check(p, Quiescent, "lock")
  /\ UNCHANGED <<records, db, apps, edge, platform, faults>>

\* Mutant: the lock is applied rather than created.
LockMutant(p) ==
  LET r == run[p].rel
      suffix == IF run[p].op = "recover" THEN "recovery-started" ELSE "started"
  IN
  /\ At(p, "lock")
  /\ ledger' = [ledger EXCEPT ![r] = @ \union {suffix}]
  /\ Goto(p, IF run[p].op = "recover" THEN "events" ELSE "existing")
  /\ UNCHANGED <<record, review, db, apps, edge, platform, faults>>

\* create, not apply: it fails when the record is there already.
Lock(p) ==
  LET r == run[p].rel
      suffix == IF run[p].op = "recover" THEN "recovery-started" ELSE "started"
  IN
  /\ At(p, "lock")
  /\ IF suffix \in ledger[r]
     THEN Raise(p) /\ UNCHANGED ledger
     ELSE /\ ledger' = [ledger EXCEPT ![r] = @ \union {suffix}]
          /\ Goto(p, IF run[p].op = "recover" THEN "events" ELSE "existing")
  /\ UNCHANGED <<record, review, db, apps, edge, platform, faults>>

-----------------------------------------------------------------------------
(* complete_migrated_release: the checks before its lock.                  *)

\* Another attempt in the ledger.  The release of a name is what remains
\* without "-started", so one of a recovery is never found released.
OtherAttempt(r) == Started \ (Released \union {r}) # {} \/ Recovering # {}

RecoverGuard(p) ==
  LET r == run[p].rel IN
  /\ At(p, "recover_guard")
  /\ Check(p, /\ r \notin Released /\ r \notin Recovering /\ ~ OtherAttempt(r)
              /\ {"started", "failed"} \subseteq ledger[r],
           "recover_inspect")
  /\ UNCHANGED <<records, db, apps, edge, platform, faults>>

RecoverInspect(p) ==
  LET r == run[p].rel IN
  /\ At(p, "recover_inspect")
  /\ Check(p, /\ Quiescent /\ Offlined
              /\ \A a \in Apps : image[a] = r
              /\ \A j \in Jobs : job[j] = [of |-> r, status |-> "complete"],
           "recover_schema")
  /\ UNCHANGED <<records, db, apps, edge, platform, faults>>

RecoverSchema(p) ==
  /\ At(p, "recover_schema")
  /\ IF QuietDb /\ schema = After(run[p].rel)
     THEN run' = [run EXCEPT ![p].at = "reassert", ![p].current = schema]
     ELSE Raise(p)
  /\ UNCHANGED <<records, db, apps, edge, platform, faults>>

-----------------------------------------------------------------------------
(* _deploy: what comes before the rollout.                                 *)

\* A recorded release is only put on the schema it was recorded with; from
\* there a rollback is a redeployment.
Existing(p) ==
  LET r == run[p].rel IN
  /\ At(p, "existing")
  /\ IF r \in Released
     THEN IF schema = record[r]
          THEN run' = [run EXCEPT ![p].at = "events", ![p].op = IF @ = "rollback" THEN "deploy" ELSE @,
                                  ![p].existing = TRUE, ![p].current = schema]
          ELSE Raise(p)
     ELSE Check(p, run[p].op # "rollback", "before")
  /\ UNCHANGED <<records, db, apps, edge, platform, faults>>

NextJob(p) == IF run[p].op = "maintenance" THEN "recheck" ELSE "start_job"

\* After the foundation is applied: the schemas once more, before any migration.
\* A review of mode none has no migration run.
Before(p) ==
  /\ At(p, "before")
  /\ IF run[p].op = "maintenance"
     THEN Check(p, QuietDb /\ schema = review[run[p].rel], "recheck")
     ELSE Goto(p, "start_job") \/ Goto(p, "after")
  /\ UNCHANGED <<records, db, apps, edge, platform, faults>>

\* Mutant: no second look at the workloads before a migration.
RecheckMutant(p) ==
  /\ At(p, "recheck")
  /\ Goto(p, "start_job")
  /\ UNCHANGED <<records, db, apps, edge, platform, faults>>

Recheck(p) ==
  /\ At(p, "recheck")
  /\ Check(p, Quiescent, "start_job")
  /\ UNCHANGED <<records, db, apps, edge, platform, faults>>

\* job(): delete whatever Job has the name, create it anew ...
StartJob(p) ==
  /\ At(p, "start_job")
  /\ job' = [job EXCEPT ![run[p].i] = [of |-> run[p].rel, status |-> "active"]]
  /\ Goto(p, "await_job")
  /\ UNCHANGED <<records, schema, apps, edge, platform, faults>>

\* ... and wait for Complete, which times out for every other outcome.
AwaitJob(p) ==
  LET i == run[p].i
      next == IF i = NumJobs THEN "after" ELSE NextJob(p)
  IN
  /\ At(p, "await_job")
  /\ \/ job[i].status = "complete"
        /\ run' = [run EXCEPT ![p].at = next, ![p].i = IF i = NumJobs THEN 1 ELSE i + 1]
     \/ job[i].status # "complete" /\ Raise(p)
  /\ UNCHANGED <<records, db, apps, edge, platform, faults>>

\* Mutant: a cutover records the fingerprints of before its migrations.
AfterJobsMutant(p) ==
  /\ At(p, "after")
  /\ IF run[p].op = "maintenance" /\ schema # After(run[p].rel)
     THEN Raise(p)
     ELSE run' = [run EXCEPT ![p].at = "events",
                            ![p].current = IF run[p].op = "maintenance" THEN review[run[p].rel] ELSE schema]
  /\ UNCHANGED <<records, db, apps, edge, platform, faults>>

AfterJobs(p) ==
  /\ At(p, "after")
  /\ IF run[p].op = "maintenance" /\ schema # After(run[p].rel)
     THEN Raise(p)
     ELSE run' = [run EXCEPT ![p].at = "events", ![p].current = schema]
  /\ UNCHANGED <<records, db, apps, edge, platform, faults>>

-----------------------------------------------------------------------------
(* complete_rollout.                                                       *)

\* Where the rollout of the i-th Deployment begins: room is made before the APIs.
Begin(i) == IF Order[i] = "api" /\ PlatformWaits THEN "reserve" ELSE "apply"

\* Mutant: a cutover applies the Ingress first as well.
SettledMutant(p) == "bind"

\* What follows the events: an online rollout applies the Ingress before the rest.
Settled(p) == IF run[p].op \in Offline THEN Begin(1) ELSE "bind"

\* Kafka is applied; Strimzi is to restart the broker if that changes it.
Events(p) ==
  /\ At(p, "events")
  /\ kafka' \in {kafka} \union (IF PlatformWaits THEN {FALSE} ELSE {})
  /\ Goto(p, IF kafka' THEN Settled(p) ELSE "await_kafka")
  /\ UNCHANGED <<records, db, apps, edge, headroom, faults>>

\* Mutant: only the condition Ready is waited for, which is there from before.
AwaitKafkaMutant(p) ==
  /\ At(p, "await_kafka")
  /\ Goto(p, Settled(p))
  /\ UNCHANGED <<records, db, apps, edge, platform, faults>>

\* wait_kafka_settled: "Ready may be the old state of before the restart".
AwaitKafka(p) ==
  /\ At(p, "await_kafka")
  /\ Check(p, kafka, Settled(p))
  /\ UNCHANGED <<records, db, apps, edge, platform, faults>>

Bind(p) ==
  /\ At(p, "bind")
  /\ routes' = "normal"
  /\ Goto(p, "await_binding")
  /\ UNCHANGED <<records, db, apps, bound, scalers, platform, faults>>

\* wait_alb_bindings returns, or times out while they are missing.
AwaitBinding(p) ==
  /\ At(p, "await_binding")
  /\ Check(p, bound, Begin(1))
  /\ UNCHANGED <<records, db, apps, edge, platform, faults>>

\* reserve_deployment_headroom: "create fails on a concurrent reservation; never
\* delete somebody else's Job".
Reserve(p) ==
  /\ At(p, "reserve")
  /\ IF headroom = None THEN Goto(p, "reserved") /\ headroom' = p ELSE Raise(p) /\ UNCHANGED headroom
  /\ UNCHANGED <<records, db, apps, edge, kafka, faults>>

\* Its Pod runs or does not within the time; the Job is deleted in either case.
Unreserve(p) ==
  /\ At(p, "reserved")
  /\ headroom' = None
  /\ \/ Goto(p, "apply") /\ UNCHANGED faults
     \/ Raise(p) /\ faults < MaxFaults /\ faults' = faults + 1
  /\ UNCHANGED <<records, db, apps, edge, kafka>>

\* Deployments are applied with their replicas, but without them where KEDA
\* sets them: then they stay, or once become the default of one.
Apply(p) ==
  LET a == Order[run[p].i] IN
  /\ At(p, "apply")
  /\ image' = [image EXCEPT ![a] = run[p].rel]
  /\ \E on \in {TRUE} \union (IF run[p].op \notin Offline /\ a \in KedaApps THEN {replicas[a]} ELSE {}) :
       replicas' = [replicas EXCEPT ![a] = on]
  /\ Goto(p, "await_rollout")
  /\ UNCHANGED <<records, db, pod, edge, platform, faults>>

Converged(a) == pod[a] = IF replicas[a] THEN image[a] ELSE None

\* Mutant: rollout status is asked for the APIs only.
AwaitRolloutMutant(p) ==
  LET i == run[p].i
      last == i = Len(Order)
      next == IF ~ last THEN Begin(i + 1) ELSE IF run[p].op \in Offline THEN "unblock" ELSE "scalers"
  IN
  /\ At(p, "await_rollout")
  /\ \/ /\ Order[i] # "api" \/ Converged(Order[i])
        /\ run' = [run EXCEPT ![p].at = next, ![p].i = IF last THEN 1 ELSE i + 1]
     \/ Order[i] = "api" /\ ~ Converged(Order[i]) /\ Raise(p)
  /\ UNCHANGED <<records, db, apps, edge, platform, faults>>

\* rollout status, one Deployment at a time.
AwaitRollout(p) ==
  LET i == run[p].i
      last == i = Len(Order)
      next == IF ~ last THEN Begin(i + 1) ELSE IF run[p].op \in Offline THEN "unblock" ELSE "scalers"
  IN
  /\ At(p, "await_rollout")
  /\ \/ Converged(Order[i])
        /\ run' = [run EXCEPT ![p].at = next, ![p].i = IF last THEN 1 ELSE i + 1]
     \/ ~ Converged(Order[i]) /\ Raise(p)
  /\ UNCHANGED <<records, db, apps, edge, platform, faults>>

ApplyScalers(p) ==
  /\ At(p, "scalers")
  /\ scalers' = TRUE
  /\ Goto(p, "public")
  /\ UNCHANGED <<records, db, apps, routes, bound, platform, faults>>

\* A cutover restores the Ingress only now and waits for its bindings.
Unblock(p) ==
  /\ At(p, "unblock")
  /\ routes' = "normal"
  /\ Goto(p, "rebind")
  /\ UNCHANGED <<records, db, apps, bound, scalers, platform, faults>>

Rebind(p) ==
  /\ At(p, "rebind")
  /\ Check(p, bound, "public")
  /\ UNCHANGED <<records, db, apps, edge, platform, faults>>

Public(p) ==
  /\ At(p, "public")
  /\ Check(p, routes = "normal" /\ bound /\ pod["api"] # None, "smoke")
  /\ UNCHANGED <<records, db, apps, edge, platform, faults>>

\* The smoke logs in, stores a document and has a worker ingest it.
Smoke(p) ==
  /\ At(p, "smoke")
  /\ Check(p, routes = "normal" /\ bound /\ pod["api"] # None, "record")
  /\ UNCHANGED <<records, db, apps, edge, platform, faults>>

\* An immutable record is not applied over one that differs.
WriteRecord(p) ==
  LET r == run[p].rel IN
  /\ At(p, "record")
  /\ IF run[p].existing \/ record[r] = run[p].current
     THEN Goto(p, "return") /\ UNCHANGED record
     ELSE IF record[r] # None
          THEN Raise(p) /\ UNCHANGED record
          ELSE record' = [record EXCEPT ![r] = run[p].current] /\ Goto(p, "return")
  /\ UNCHANGED <<ledger, review, db, apps, edge, platform, faults>>

Return(p) ==
  /\ At(p, "return")
  /\ End(p)
  /\ UNCHANGED <<records, db, apps, edge, platform, faults>>

-----------------------------------------------------------------------------
(* Failure.                                                                *)

\* Any call may raise, before or after it took effect.
Fail(p) ==
  /\ run[p].at \in Deploying \union Rolling
  /\ faults < MaxFaults /\ faults' = faults + 1
  /\ Raise(p)
  /\ UNCHANGED <<records, db, apps, edge, platform>>

\* The handler: 503 again, then no replicas, then the record of the failure.
\* A call of it that fails is noted and the handler goes on.
ContainRoutes(p) ==
  /\ At(p, "contain_routes")
  /\ \/ /\ routes' = "maintenance"
        /\ Goto(p, "contain_apps") /\ UNCHANGED faults
     \/ /\ faults < MaxFaults /\ faults' = faults + 1
        /\ run' = [run EXCEPT ![p].at = "contain_apps", ![p].dirty = TRUE] /\ UNCHANGED routes
  /\ UNCHANGED <<records, db, apps, bound, scalers, platform>>

ContainApps(p) ==
  /\ At(p, "contain_apps")
  /\ \/ /\ replicas' = [a \in Apps |-> FALSE]
        /\ Goto(p, "mark_failed") /\ UNCHANGED faults
     \/ /\ faults < MaxFaults /\ faults' = faults + 1
        /\ \E stuck \in Apps : replicas' = [a \in Apps |-> a = stuck /\ replicas[a]]
        /\ run' = [run EXCEPT ![p].at = "mark_failed", ![p].dirty = TRUE]
  /\ UNCHANGED <<records, db, image, pod, edge, platform>>

\* Mutant: the record never says that the containment is unverified.
MarkFailedMutant(p) ==
  LET suffix == IF run[p].op = "recover" THEN "recovery-failed" ELSE "failed" IN
  /\ At(p, "mark_failed")
  /\ \/ ledger' = [ledger EXCEPT ![run[p].rel] = @ \union {suffix}] /\ UNCHANGED faults
     \/ faults < MaxFaults /\ faults' = faults + 1 /\ UNCHANGED ledger
  /\ End(p)
  /\ UNCHANGED <<record, review, db, apps, edge, platform>>

\* The record says "unverified" instead of "requested" after a failed call.
MarkFailed(p) ==
  LET suffix == IF run[p].op = "recover" THEN "recovery-failed" ELSE "failed"
      noted == IF run[p].op = "recover" THEN "recovery-failed-unverified" ELSE "failed-unverified"
  IN
  /\ At(p, "mark_failed")
  /\ \/ ledger' = [ledger EXCEPT ![run[p].rel] = @ \union {suffix} \union (IF run[p].dirty THEN {noted} ELSE {})]
        /\ UNCHANGED faults
     \/ faults < MaxFaults /\ faults' = faults + 1 /\ UNCHANGED ledger
  /\ End(p)
  /\ UNCHANGED <<record, review, db, apps, edge, platform>>

\* SIGKILL, or the host goes away: no handler runs.
Kill(p) ==
  /\ ~ At(p, "idle")
  /\ faults < MaxFaults /\ faults' = faults + 1
  /\ End(p)
  /\ UNCHANGED <<records, db, apps, edge, platform>>

-----------------------------------------------------------------------------
(* The cluster.                                                            *)
MigrationSucceeds(j) ==
  /\ job[j].status = "active"
  /\ schema' = [schema EXCEPT ![j] = @ \union {job[j].of}]
  /\ job' = [job EXCEPT ![j].status = "complete"]
  /\ UNCHANGED <<records, apps, edge, platform, run, faults>>

\* It may fail after it changed the schema.
MigrationFails(j) ==
  /\ job[j].status = "active"
  /\ faults < MaxFaults /\ faults' = faults + 1
  /\ schema' \in {schema, [schema EXCEPT ![j] = @ \union {job[j].of}]}
  /\ job' = [job EXCEPT ![j].status = "failed"]
  /\ UNCHANGED <<records, apps, edge, platform, run>>

PodsConverge(a) ==
  /\ ~ Converged(a)
  /\ pod' = [pod EXCEPT ![a] = IF replicas[a] THEN image[a] ELSE None]
  /\ UNCHANGED <<records, db, image, replicas, edge, platform, run, faults>>

BindingsFollow ==
  /\ bound # (routes = "normal") /\ bound' = (routes = "normal")
  /\ UNCHANGED <<records, db, apps, routes, scalers, platform, run, faults>>

\* KEDA scales a worker to zero and back.
Keda(a) ==
  /\ scalers /\ a \in KedaApps
  /\ replicas' = [replicas EXCEPT ![a] = ~ @]
  /\ UNCHANGED <<records, db, image, pod, edge, platform, run, faults>>

\* Strimzi has restarted the broker and reports the new generation.
Strimzi ==
  /\ ~ kafka /\ kafka' = TRUE
  /\ UNCHANGED <<records, db, apps, edge, headroom, run, faults>>

\* A Job left behind ends at its deadline, which is past what a run waits for.
HeadroomExpires ==
  /\ headroom # None /\ headroom' = None
  /\ \A p \in Runs : ~ At(p, "reserved")
  /\ UNCHANGED <<records, db, apps, edge, kafka, run, faults>>

(* The operator follows the procedure of docs/aws-maintenance-cutover.md:  *)
(* takes the installation down, and brings nothing up under an unresolved  *)
(* attempt.                                                                *)
OperatorBlocks ==
  /\ routes = "normal" /\ routes' = "maintenance"
  /\ \A p \in Runs : run[p].at \notin Rolling
  /\ UNCHANGED <<records, db, apps, bound, scalers, platform, run, faults>>

OperatorDeletesScalers ==
  /\ scalers /\ scalers' = FALSE
  /\ UNCHANGED <<records, db, apps, routes, bound, platform, run, faults>>

OperatorStops(a) ==
  /\ replicas[a] /\ replicas' = [replicas EXCEPT ![a] = FALSE]
  /\ \A p \in Runs : run[p].at \notin Rolling
  /\ UNCHANGED <<records, db, image, pod, edge, platform, run, faults>>

OperatorStarts(a) ==
  /\ Unfinished = {}
  /\ ~ replicas[a] /\ replicas' = [replicas EXCEPT ![a] = TRUE]
  /\ UNCHANGED <<records, db, image, pod, edge, platform, run, faults>>

OperatorRestoresScalers ==
  /\ Unfinished = {} /\ ~ scalers /\ scalers' = TRUE
  /\ \A p \in Runs : run[p].op \notin Offline
  /\ UNCHANGED <<records, db, apps, routes, bound, platform, run, faults>>

-----------------------------------------------------------------------------
Step(p) ==
  \/ \E op \in Ops, r \in Releases : Invoke(p, op, r)
  \/ Guard(p) \/ Inspect(p) \/ Preflight(p) \/ Reassert(p) \/ Lock(p)
  \/ RecoverGuard(p) \/ RecoverInspect(p) \/ RecoverSchema(p)
  \/ Existing(p) \/ Before(p) \/ Recheck(p) \/ StartJob(p) \/ AwaitJob(p) \/ AfterJobs(p)
  \/ Events(p) \/ AwaitKafka(p) \/ Bind(p) \/ AwaitBinding(p) \/ Reserve(p) \/ Unreserve(p) \/ Apply(p) \/ AwaitRollout(p) \/ ApplyScalers(p)
  \/ Unblock(p) \/ Rebind(p) \/ Public(p) \/ Smoke(p) \/ WriteRecord(p) \/ Return(p)
  \/ Fail(p) \/ ContainRoutes(p) \/ ContainApps(p) \/ MarkFailed(p) \/ Kill(p)

Cluster ==
  \/ \E j \in Jobs : MigrationSucceeds(j) \/ MigrationFails(j)
  \/ \E a \in Apps : PodsConverge(a) \/ Keda(a) \/ OperatorStops(a) \/ OperatorStarts(a)
  \/ BindingsFollow \/ Strimzi \/ HeadroomExpires \/ OperatorBlocks \/ OperatorDeletesScalers \/ OperatorRestoresScalers

Next == (\E p \in Runs : Step(p)) \/ Cluster

Spec == Init /\ [][Next]_vars

-----------------------------------------------------------------------------
TypeOK ==
  /\ record \in [Releases -> Schemas \union {None}] /\ review \in [Releases -> Schemas \union {None}]
  /\ ledger \in [Releases -> SUBSET (Suffixes \union Unverified)]
  /\ schema \in Schemas
  /\ job \in [Jobs -> [of : Releases, status : {"active", "complete", "failed"}]]
  /\ image \in [Apps -> Releases] /\ replicas \in [Apps -> BOOLEAN]
  /\ pod \in [Apps -> Releases \union {None}]
  /\ routes \in {"normal", "maintenance"} /\ bound \in BOOLEAN /\ scalers \in BOOLEAN
  /\ kafka \in BOOLEAN /\ headroom \in Runs \union {None}
  /\ run \in [Runs -> [at : {"idle"} \union Gates \union Deploying \union Rolling \union Cleanup,
                       op : Ops \union {"deploy"}, rel : Releases, i : Nat, existing : BOOLEAN,
                       current : Schemas \union {None}, dirty : BOOLEAN]]
  /\ \A p \in Runs :
       /\ run[p].at \in {"start_job", "await_job"} => run[p].i \in Jobs
       /\ run[p].at \in {"apply", "await_rollout"} => run[p].i \in DOMAIN Order
  /\ faults \in 0 .. MaxFaults

\* Runs past the lock of a cutover or a recovery.
Owner(s) ==
  \/ s.op = "maintenance" /\ s.at \in Deploying \union Rolling \union Cleanup
  \/ s.op = "recover" /\ s.at \in Rolling \union Cleanup
Owns(p) == Owner(run[p])

\* "keep downtime; explicit reviewed recovery required": under an attempt that
\* has no release record nothing gets past the ledger check but the attempt
\* itself and its recovery, even if only "-started" was left by a SIGKILL.
DowntimeKept ==
  \A p \in Runs, r \in Unfinished :
    run[p].at \in Deploying \union Rolling => Owns(p) /\ run[p].rel = r

\* The migrations of a cutover run without a writer: no Pod, no replica asked
\* for and no scaler to ask for one, although an operator may start things
\* between the checks and the record that stops him.
MigratesOffline ==
  \A p \in Runs, j \in Jobs :
    run[p].op = "maintenance" /\ At(p, "await_job") =>
      ~ scalers /\ \A a \in Apps : ~ replicas[a] /\ pod[a] = None

\* Under an unresolved attempt no application runs on a half-migrated set of
\* databases, and the rollout of a cutover or recovery starts them on exactly
\* the rehearsed schemas, after a failed, killed or half-done migration as well.
AppsOnReviewedSchema ==
  /\ \A r \in Unfinished : (\E a \in Apps : pod[a] # None) => schema \in {review[r], After(r)}
  /\ \A p \in Runs : run[p].op \in Offline /\ run[p].at \in Rolling => schema = After(run[p].rel)

\* "Keep 503 until every new workload is ready; no mixed-version public
\* traffic": public traffic under an unresolved attempt meets only its release.
NoMixedTraffic ==
  \A r \in Unfinished : routes = "normal" => \A a \in Apps : image[a] = r /\ pod[a] \in {r, None}

\* A release record of a cutover names the reviewed schemas, and a recovery is
\* only ever on record for a release whose migrations were complete.
RecordIsReviewed ==
  \A r \in Started :
    /\ r \in Released => record[r] = After(r)
    /\ r \in Recovering \ Released => {"started", "failed"} \subseteq ledger[r] /\ schema = After(r)

\* A failure recorded as contained left the 503 routes and nothing that runs,
\* until somebody starts the recovery.
ContainmentHolds ==
  \A r \in Unfinished :
    "failed" \in ledger[r] /\ "failed-unverified" \notin ledger[r] /\ r \notin Recovering
      => routes = "maintenance" /\ ~ scalers /\ \A a \in Apps : ~ replicas[a]

\* "a concurrent or interrupted attempt must never overwrite the lock": of the
\* runs that are under way at a time at most one owns a release's attempt.
LockExclusive ==
  \A p, q \in Runs : Owns(p) /\ Owns(q) /\ run[p].rel = run[q].rel => p = q

\* What attempts of two releases by two runs, with recoveries between them, must
\* keep: states are of their types, one run owns an attempt, and the promises above
\* on downtime, migrations, records and containment hold.
Safety ==
  /\ TypeOK /\ LockExclusive /\ DowntimeKept /\ MigratesOffline
  /\ RecordIsReviewed /\ ContainmentHolds

\* A cutover is recorded only while it is what runs: every Deployment has Pods of
\* it and no others, the public routes are open and the recorded schemas live.
SuccessIsLive ==
  [][\A r \in Started \ Released : record'[r] # None =>
       /\ record'[r] = schema /\ routes = "normal"
       /\ \A a \in Apps : image[a] = r /\ pod[a] = r]_vars

\* A Deployment is replaced only when the broker has settled on the Kafka that was
\* applied, also if a run that changed it was killed while the broker restarted.
ReplacedOnSettledKafka == \A p \in Runs : At(p, "apply") => kafka

\* "another unresolved maintenance attempt exists": a recovery is refused for
\* another attempt only if one has no release record.
RecoveryRefusalIsReal ==
  [][\A p \in Runs : RecoverGuard(p) /\ OtherAttempt(run[p].rel) /\ run[p].rel \notin Released \union Recovering
       => Unfinished \ {run[p].rel} # {}]_vars

-----------------------------------------------------------------------------
(* The strengthening under which the safety properties are inductive.  The *)
(* first parts say of the local state s of a run how it fits the records,  *)
(* the databases and the cluster, the others how those fit each other.     *)
NoneActive == \A j \in Jobs : job[j].status # "active"
Down == \A a \in Apps : ~ replicas[a] /\ pod[a] = None

OfflineRolling == Rolling \ {"bind", "await_binding", "scalers"}
PlacesOf(op) ==
  CASE op = "maintenance" -> {"guard", "inspect", "preflight", "reassert", "lock"}
                               \union Deploying \union OfflineRolling \union Cleanup
    [] op = "recover" -> {"recover_guard", "recover_inspect", "recover_schema", "reassert", "lock"}
                           \union OfflineRolling \union Cleanup
    [] op = "rollback" -> {"guard", "existing"}
    [] op = "deploy" -> {"idle", "guard"} \union (Deploying \ {"recheck"}) \union (Rolling \ {"unblock", "rebind"})

PlaceInv(s) ==
  /\ s.at \in PlacesOf(s.op)
  /\ IF s.at \in {"recheck", "start_job", "await_job"} THEN s.i \in Jobs
     ELSE IF s.at \in {"reserve", "reserved", "apply", "await_rollout"} THEN s.i \in DOMAIN Order
     ELSE s.at \in Cleanup \/ s.i = 1
  /\ s.existing => s.op = "deploy"

\* The record that the lock of the run is to create is not there yet.
Fresh(s) == (IF s.op = "recover" THEN "recovery-started" ELSE "started") \notin ledger[s.rel]

\* What the ledger and the records say to a run past its check of them.
PassedInv(s) ==
  /\ s.at \notin {"idle", "guard", "recover_guard"} =>
       Unfinished \subseteq (IF s.op \in Offline THEN {s.rel} ELSE {})
  /\ s.op = "recover" /\ s.at # "recover_guard" => {"started", "failed"} \subseteq ledger[s.rel]
  /\ s.op \in Offline /\ s.at \in Gates \ {"guard", "recover_guard"} /\ Fresh(s) => s.rel \notin Released
  /\ Owner(s) =>
       /\ "started" \in ledger[s.rel]
       /\ IF s.op = "recover" THEN "recovery-started" \in ledger[s.rel] ELSE "failed" \notin ledger[s.rel]
       /\ s.at \notin Cleanup \union {"return"} => s.rel \notin Released

\* What the checks before the lock found still holds when the lock succeeds.
GateInv(s) ==
  /\ s.op = "maintenance" /\ Fresh(s) =>
       /\ s.at \in {"preflight", "reassert", "lock"} => routes = "maintenance" /\ ~ scalers
       /\ s.at \in {"reassert", "lock"} => NoneActive /\ schema = review[s.rel]
  /\ s.op = "recover" /\ s.at \in {"reassert", "lock"} =>
       /\ s.current = After(s.rel)
       /\ Fresh(s) => NoneActive /\ schema = After(s.rel)

\* The migrations of a cutover so far, one database after the other.
MigrationInv(s) ==
  s.op = "maintenance" /\ s.at \in Deploying =>
    /\ s.at \in {"start_job", "await_job"} => Down
    /\ \A j \in Jobs :
         IF s.at = "await_job" /\ j = s.i
         THEN /\ job[j].of = s.rel
              /\ schema[j] = After(s.rel)[j] \/ (job[j].status # "complete" /\ schema[j] = review[s.rel][j])
         ELSE /\ job[j].status # "active"
              /\ schema[j] = IF j < s.i \/ s.at = "after" THEN After(s.rel)[j] ELSE review[s.rel][j]

\* The rollout of a cutover or a recovery so far, one Deployment after the other.
Done == {"unblock", "rebind", "public", "smoke", "record"}
Replaced(s) ==
  \A k \in DOMAIN Order :
    /\ k < s.i \/ s.at \in Done \/ (s.at = "await_rollout" /\ k = s.i) =>
         image[Order[k]] = s.rel /\ replicas[Order[k]]
    /\ k < s.i \/ s.at \in Done => pod[Order[k]] = s.rel
RolloutInv(s) ==
  s.op \in Offline /\ s.at \in Rolling =>
    /\ NoneActive /\ schema = After(s.rel) /\ s.current = After(s.rel)
    /\ Replaced(s)
    /\ s.at \in Done \ {"unblock"} => routes = "normal"

\* What a containment that no failed call has marked has done.
ContainInv(s) ==
  Owner(s) /\ ~ s.dirty =>
    /\ s.at \in {"contain_apps", "mark_failed"} => routes = "maintenance"
    /\ s.at = "mark_failed" /\ s.rel \in Unfinished => \A a \in Apps : ~ replicas[a]

LocalInv(s) ==
  PlaceInv(s) /\ PassedInv(s) /\ GateInv(s) /\ MigrationInv(s) /\ RolloutInv(s) /\ ContainInv(s)

\* Runs under way are of one release and kind, and one of them has the lock.
TogetherInv(s, t) ==
  /\ s.at # "idle" /\ t.at # "idle" => s.rel = t.rel /\ (s.op \in Offline <=> t.op \in Offline)
  /\ ~ (Owner(s) /\ Owner(t))

LedgerInv ==
  \A r \in Releases :
    /\ r \in Recovering => {"started", "failed"} \subseteq ledger[r]
    /\ "failed" \in ledger[r] => r \in Started
    /\ r \in Started => review[r] \in Schemas
    /\ r \in Started /\ r \in Released => record[r] = After(r)

\* Under an unresolved attempt the applications are down or the databases settled.
DownInv ==
  /\ \A r \in Unfinished : ~ scalers /\ (Down \/ (NoneActive /\ schema \in {review[r], After(r)}))
  /\ \A r \in Recovering \ Released : NoneActive /\ schema = After(r)

IInv ==
  /\ TypeOK /\ LedgerInv /\ DownInv /\ NoMixedTraffic /\ ContainmentHolds
  /\ \A p \in Runs : LocalInv(run[p]) /\ \A q \in Runs \ {p} : TogetherInv(run[p], run[q])
=============================================================================
