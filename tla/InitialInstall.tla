---------------------------- MODULE InitialInstall ----------------------------
(***************************************************************************)
(* The first installation of a release on empty databases                  *)
(* (scripts/aws_deploy.py): "bootstrap" with an initial-install review     *)
(* binds it to its inputs in immutable ConfigMaps, migrates and rolls out; *)
(* "deploy" promotes it to a recorded release.  Three reviewed repairs may *)
(* change the manifest on the way, each in a ConfigMap of its own that     *)
(* names the manifest it starts from.  Runs fail or are killed at any step *)
(* and are repeated, with the same inputs or others.                       *)
(*                                                                         *)
(* A manifest is the set of the changes it has.  The environment's         *)
(* configuration is one for all runs.  The concurrency group of deploy.yml *)
(* keeps runs apart, so there is one run.                                  *)
(***************************************************************************)
EXTENDS Naturals

CONSTANTS
  Shas,      \* releases an operator may name
  Changes,   \* what manifests may differ in
  NumDbs,    \* databases, each with one migration Job
  MaxFaults, \* bound on failed steps, kills and failed migrations
  None       \* no record, no application

ASSUME ChangesAssumption == {"probe", "mail", "oauth"} \subseteq Changes
ASSUME SizeAssumption == NumDbs \in Nat \ {0} /\ MaxFaults \in Nat

VARIABLES
  rec,     \* the ConfigMaps fruition-bootstrap and fruition-bootstrap-...
  release, \* ConfigMap fruition-release-<sha> of each release
  schema,  \* releases whose migrations, or parts of them, a database has had
  job,     \* the migration Job of each database
  apps,    \* release of the images the Deployments specify, None without any
  run,     \* the local state of the run
  faults   \* faults so far

vars == <<rec, release, schema, job, apps, run, faults>>

-----------------------------------------------------------------------------
Dbs == 1 .. NumDbs
Manifests == SUBSET Changes
Schemas == [Dbs -> SUBSET Shas]
Names == {"marker", "probe", "mail", "ready", "oauth"}
\* Command line: at most one repair, those of health checks for bootstrap and
\* the OAuth one for deploy (validate_deploy_inputs).
Inputs ==
  {in \in [op : {"bootstrap", "deploy"}, repair : {"none", "probe", "mail", "oauth"},
           of : Shas, manifest : Manifests] :
     /\ in.repair \in {"probe", "mail"} => in.op = "bootstrap"
     /\ in.repair = "oauth" => in.op = "deploy"}
\* install_record of initial_data; original is {} and prints None where it has none.
\* The marker of an ordinary bootstrap has no contract.
Records == [contract : BOOLEAN, of : Shas, manifest : Manifests, original : Manifests,
            prints : Schemas \union {None}]
Releases == [mode : {"initial", "other"}, manifest : Manifests, prints : Schemas]
\* A record that a run is to write.
Writes == [name : Names, data : Records]

ASSUME NoneAssumption ==
  None \notin Shas \union Schemas \union Inputs \union Records \union Releases \union Writes

Init ==
  /\ rec = [n \in Names |-> None]
  /\ release = [s \in Shas |-> None]
  /\ schema = [d \in Dbs |-> {}]
  /\ job = [d \in Dbs |-> "none"]
  /\ apps = None
  /\ run = [at |-> "idle", in |-> None, fresh |-> FALSE, pending |-> None, i |-> 1, current |-> None]
  /\ faults = 0

-----------------------------------------------------------------------------
(* initial_install_state: which inputs a run accepts.                      *)
Has(n) == rec[n] # None
Successes == {s \in Shas : release[s] # None}
Ours(n, sha) == rec[n].contract /\ rec[n].of = sha

\* access_probe_timeout_recovery and its two siblings: the manifests differ in
\* that one change and nothing else.
Reviewed(change, before, after) == change \notin before /\ after = before \union {change}

\* The manifest after a repair, recorded or asked for by this run.
LinkMutant(repair, before, in) == IF in.repair = repair THEN in.manifest ELSE before

Link(repair, before, in) ==
  IF Has(repair) THEN rec[repair].manifest
  ELSE IF in.repair = repair THEN in.manifest ELSE before

\* Mutant: what a repair asked for changes is not compared.
LinkHoldsMutant(repair, before, in) ==
  Has(repair) => /\ Ours(repair, in.of)
                 /\ rec[repair].original = before
                 /\ Reviewed(repair, before, rec[repair].manifest)

LinkHolds(repair, before, in) ==
  IF Has(repair)
  THEN /\ Ours(repair, in.of)
       /\ rec[repair].original = before
       /\ Reviewed(repair, before, rec[repair].manifest)
  ELSE in.repair = repair /\ before # in.manifest => Reviewed(repair, before, in.manifest)

\* The chain marker, probe, mail.
Probed(in) == Link("probe", rec["marker"].manifest, in)
Mailed(in) == Link("mail", Probed(in), in)
ChainHolds(in) ==
  /\ LinkHolds("probe", rec["marker"].manifest, in)
  /\ LinkHolds("mail", Probed(in), in)

Expected(in, original, prints) ==
  [contract |-> TRUE, of |-> in.of, manifest |-> in.manifest, original |-> original, prints |-> prints]

\* The OAuth change was added after readiness: it starts from what was ready.
Wired(in) == in.repair = "oauth" \/ Has("oauth")
WiringHolds(in) ==
  /\ in.op = "deploy" /\ Has("marker") /\ Has("ready")
  /\ in.repair = "oauth" => Successes = {}
  /\ rec["ready"].manifest = Mailed(in)
  /\ Reviewed("oauth", Mailed(in), in.manifest)
  /\ Has("oauth") => rec["oauth"] = Expected(in, Mailed(in), rec["ready"].prints)

\* Mutant: readiness is compared with the manifest of the run.
ReadyManifestMutant(in) == in.manifest

ReadyManifest(in) == IF Wired(in) THEN Mailed(in) ELSE in.manifest

\* The record a repair has the run write first.
Pending(in) ==
  IF in.repair = "none" \/ Has(in.repair) THEN None
  ELSE IF in.repair = "oauth"
  THEN [name |-> "oauth", data |-> Expected(in, Mailed(in), rec["ready"].prints)]
  ELSE LET before == IF in.repair = "probe" THEN rec["marker"].manifest ELSE Probed(in) IN
       IF before = in.manifest THEN None
       ELSE [name |-> in.repair, data |-> Expected(in, before, None)]

\* Mutant: a deploy does not ask whether the installation is ready.
StageHoldsMutant(in) == in.op = "bootstrap" => ~ Has("ready")

StageHolds(in) == IF in.op = "bootstrap" THEN ~ Has("ready") ELSE Has("marker") /\ Has("ready")

\* ... and _deploy on a release that has its record already.
Accepts(in) ==
  /\ Successes = {} \/ (in.op = "deploy" /\ Successes = {in.of})
  /\ in.repair \in {"probe", "mail"} => Has("marker") /\ ~ Has("ready") /\ Successes = {}
  /\ \A n \in {"marker", "ready"} : Has(n) => Ours(n, in.of)
  /\ Wired(in) => WiringHolds(in)
  /\ Has("marker") =>
       /\ ChainHolds(in)
       /\ (IF Wired(in) THEN in.manifest ELSE Mailed(in)) = in.manifest
       /\ Has("ready") => rec["ready"].manifest = ReadyManifest(in)
  /\ apps # None => Has("marker") /\ apps = in.of
  /\ StageHolds(in)
  /\ Has("ready") => schema = rec["ready"].prints
  /\ release[in.of] # None => release[in.of].manifest = in.manifest /\ release[in.of].prints = schema

-----------------------------------------------------------------------------
(* The run.                                                                *)
At(s) == run.at = s
Goto(s) == run' = [run EXCEPT !.at = s]
\* What a run was started with stays known to whoever repeats it.
Idle(end) == [run EXCEPT !.at = end, !.fresh = FALSE, !.pending = None, !.i = 1, !.current = None]
End == run' = Idle("idle")
Raise == run' = Idle("failed")

Invoke(in) ==
  /\ run.at \in {"idle", "failed"}
  /\ Accepts(in)
  /\ run' = [at |-> "repair", in |-> in, fresh |-> ~ Has("marker"), pending |-> Pending(in),
             i |-> 1, current |-> None]
  /\ UNCHANGED <<rec, release, schema, job, apps, faults>>

\* A refused run changes nothing; this is where every run would be.
Refuse ==
  /\ run.at \in {"idle", "failed"}
  /\ \A in \in Inputs : ~ Accepts(in)
  /\ UNCHANGED vars

\* kubectl apply of an immutable ConfigMap: an equal one is left, another is an error.
Put(name, data, next) ==
  IF rec[name] \in {None, data}
  THEN rec' = [rec EXCEPT ![name] = data] /\ next
  ELSE Raise /\ UNCHANGED rec

\* Only bootstrap runs the migrations.
Migrate == IF run.in.op = "bootstrap" THEN "start_job" ELSE "fingerprint"

\* The record comes first, before any of the resources it is about.
WriteRepair ==
  LET next == IF release[run.in.of] # None THEN "rollout"
              ELSE IF run.fresh THEN "check_empty" ELSE Migrate
  IN
  /\ At("repair")
  /\ IF run.pending = None THEN Goto(next) /\ UNCHANGED rec
     ELSE Put(run.pending.name, run.pending.data, Goto(next))
  /\ UNCHANGED <<release, schema, job, apps, faults>>

\* Mutant: the marker is written before the databases are looked at.
CheckEmptyMutant ==
  /\ At("check_empty")
  /\ Put("marker", Expected(run.in, {}, None), IF \A d \in Dbs : schema[d] = {} THEN Goto("bind") ELSE Raise)
  /\ UNCHANGED <<release, schema, job, apps, faults>>

CheckEmpty ==
  /\ At("check_empty")
  /\ IF \A d \in Dbs : schema[d] = {} THEN Goto("bind") ELSE Raise
  /\ UNCHANGED <<rec, release, schema, job, apps, faults>>

\* "Persist proof only AFTER all three databases passed the empty gate."
Bind ==
  /\ At("bind")
  /\ Put("marker", Expected(run.in, {}, None), Goto(Migrate))
  /\ UNCHANGED <<release, schema, job, apps, faults>>

\* job(): a Job of that name is deleted first, also one that still runs.
StartJob ==
  /\ At("start_job")
  /\ job' = [job EXCEPT ![run.i] = "active"]
  /\ Goto("await_job")
  /\ UNCHANGED <<rec, release, schema, apps, faults>>

\* The wait ends with Complete or times out.
AwaitJob ==
  /\ At("await_job")
  /\ IF job[run.i] = "complete"
     THEN run' = [run EXCEPT !.at = IF run.i = NumDbs THEN "fingerprint" ELSE "start_job",
                             !.i = IF run.i = NumDbs THEN 1 ELSE run.i + 1]
     ELSE job[run.i] = "failed" /\ Raise
  /\ UNCHANGED <<rec, release, schema, job, apps, faults>>

Fingerprint ==
  /\ At("fingerprint")
  /\ run' = [run EXCEPT !.at = "rollout", !.current = schema]
  /\ UNCHANGED <<rec, release, schema, job, apps, faults>>

Rollout ==
  /\ At("rollout")
  /\ apps' = run.in.of
  /\ Goto(IF run.in.op = "bootstrap" THEN "ready" ELSE "record")
  /\ UNCHANGED <<rec, release, schema, job, faults>>

\* After the public routes are checked.
MarkReady ==
  /\ At("ready")
  /\ Put("ready", Expected(run.in, {}, run.current), Goto("done"))
  /\ UNCHANGED <<release, schema, job, apps, faults>>

\* After the smoke.
RecordRelease ==
  /\ At("record")
  /\ release' = IF release[run.in.of] # None THEN release
                ELSE [release EXCEPT ![run.in.of] =
                        [mode |-> "initial", manifest |-> run.in.manifest, prints |-> run.current]]
  /\ Goto("done")
  /\ UNCHANGED <<rec, schema, job, apps, faults>>

\* The answer to the last call arrived; the run reports success.
Succeed ==
  /\ At("done")
  /\ End
  /\ UNCHANGED <<rec, release, schema, job, apps, faults>>

\* A call fails, before or after it took effect, or the run is killed.
Fail ==
  /\ run.at \notin {"idle", "failed"}
  /\ faults < MaxFaults /\ faults' = faults + 1
  /\ Raise
  /\ UNCHANGED <<rec, release, schema, job, apps>>

-----------------------------------------------------------------------------
(* What else happens to the installation.                                  *)

\* A Job runs on without the tool that started it.
MigrationSucceeds(d) ==
  /\ job[d] = "active" /\ job' = [job EXCEPT ![d] = "complete"]
  /\ schema' = [schema EXCEPT ![d] = @ \union {rec["marker"].of}]
  /\ UNCHANGED <<rec, release, apps, run, faults>>

MigrationFails(d) ==
  /\ job[d] = "active" /\ job' = [job EXCEPT ![d] = "failed"]
  /\ faults < MaxFaults /\ faults' = faults + 1
  /\ schema' \in {schema, [schema EXCEPT ![d] = @ \union {rec["marker"].of}]}
  /\ UNCHANGED <<rec, release, apps, run>>

\* bootstrap with a review of another mode: a marker without a contract, then
\* migrations of some databases and perhaps the rollout.
OrdinaryBootstrap(s) ==
  LET marker == [contract |-> FALSE, of |-> s, manifest |-> {}, original |-> {}, prints |-> None] IN
  /\ run.at \in {"idle", "failed"}
  /\ Successes = {}
  /\ apps # None => Has("marker") /\ rec["marker"].of = s /\ apps = s
  /\ rec["marker"] \in {None, marker}
  /\ rec' = [rec EXCEPT !["marker"] = marker]
  /\ \E done \in SUBSET Dbs : schema' = [d \in Dbs |-> IF d \in done THEN schema[d] \union {s} ELSE schema[d]]
  /\ apps' \in {apps, s}
  /\ UNCHANGED <<release, job, run, faults>>

\* deploy with a review of another mode, which asks for none of the markers;
\* one that succeeds is enough.  Operators start none that could fail while an
\* installation is under way.
OrdinaryDeploy(s) ==
  /\ run.at \in {"idle", "failed"}
  /\ release[s] = None /\ (\A r \in Successes : release[r].mode = "initial")
  /\ \E done \in SUBSET Dbs : schema' = [d \in Dbs |-> IF d \in done THEN schema[d] \union {s} ELSE schema[d]]
  /\ \/ /\ apps' = s
        /\ release' = [release EXCEPT ![s] = [mode |-> "other", manifest |-> Changes, prints |-> schema']]
     \/ ~ Has("marker") /\ apps' \in {apps, s} /\ UNCHANGED release
  /\ UNCHANGED <<rec, job, run, faults>>

-----------------------------------------------------------------------------
Step ==
  \/ WriteRepair \/ CheckEmpty \/ Bind \/ StartJob \/ AwaitJob \/ Fingerprint
  \/ Rollout \/ MarkReady \/ RecordRelease \/ Succeed

Next ==
  \/ (\E in \in Inputs : Invoke(in)) \/ Refuse
  \/ Step \/ Fail
  \/ \E d \in Dbs : MigrationSucceeds(d) \/ MigrationFails(d)
  \/ \E s \in Shas : OrdinaryBootstrap(s) \/ OrdinaryDeploy(s)

Spec == Init /\ [][Next]_vars

-----------------------------------------------------------------------------
TypeOK ==
  /\ rec \in [Names -> Records \union {None}] /\ release \in [Shas -> Releases \union {None}]
  /\ schema \in Schemas /\ job \in [Dbs -> {"none", "active", "complete", "failed"}]
  /\ apps \in Shas \union {None} /\ faults \in 0 .. MaxFaults
  /\ run \in [at : {"idle", "failed", "repair", "check_empty", "bind", "start_job", "await_job",
                    "fingerprint", "rollout", "ready", "record", "done"},
              in : Inputs \union {None}, fresh : BOOLEAN,
              pending : Writes \union {None},
              i : Dbs, current : Schemas \union {None}]

\* The manifest at the end of the chain of records.
Tail ==
  LET recorded == {n \in {"marker", "probe", "mail", "oauth"} : Has(n)} IN
  IF "oauth" \in recorded THEN rec["oauth"].manifest
  ELSE IF "mail" \in recorded THEN rec["mail"].manifest
  ELSE IF "probe" \in recorded THEN rec["probe"].manifest ELSE rec["marker"].manifest

\* Bound by an initial installation, and nothing else released anything.
Bound == Has("marker") /\ rec["marker"].contract
Open == Bound /\ \A s \in Successes : s = rec["marker"].of /\ release[s].mode = "initial"
Released == \E s \in Successes : release[s].mode = "initial"

\* What an operator who looks at the records goes on with.
NextInput ==
  [op |-> IF Has("ready") THEN "deploy" ELSE "bootstrap", repair |-> "none",
   of |-> rec["marker"].of, manifest |-> Tail]

\* Whatever a run left half done, the recorded manifest is accepted without an
\* option: the chain never ends in records that no input matches.
ResumeAccepted == run.at \in {"idle", "failed"} /\ Open => Accepts(NextInput)

\* "If it failed it can be run again with the same inputs" (and they may be
\* given without the repair once that is on record), unless the record the run
\* was for was written before it failed.
RerunAccepted ==
  At("failed") /\ Open =>
    \/ Accepts(run.in)
    \/ Has("ready") /\ run.in.op = "bootstrap"
    \/ Released /\ run.in.repair = "oauth"

\* "Only the reviewed change": the probe repair is open until mail is repaired,
\* that of mail until the installation is ready, the OAuth one from then until
\* the release, whatever repairs came before.
RepairsAvailable ==
  LET accepted(op, repair) ==
        repair \notin Tail => Accepts([op |-> op, repair |-> repair, of |-> rec["marker"].of,
                                      manifest |-> Tail \union {repair}])
  IN
  run.at \in {"idle", "failed"} /\ Open /\ ~ Released =>
    IF Has("ready") THEN accepted("deploy", "oauth")
    ELSE accepted("bootstrap", "mail") /\ (Has("mail") \/ accepted("bootstrap", "probe"))

\* States are of their types, and the records always let the operator go on: with
\* what they say, with what failed, and with the repairs that are still due.
Safety == TypeOK /\ ResumeAccepted /\ RerunAccepted /\ RepairsAvailable

\* Databases are migrated only if they were empty when they were bound to this
\* release, and never once the installation is ready or anything is released.
MigratesOwnDatabases ==
  [][StartJob => /\ schema[run.i] \subseteq {run.in.of}
                 /\ ~ Has("ready") /\ Successes = {}]_vars

\* A release recorded by an initial deploy is what was bootstrapped: the same
\* release, the manifest at the end of the reviewed chain, and the schemas that
\* were there when the installation was ready.
ReleaseIsPromoted ==
  \A s \in Successes : release[s].mode = "initial" =>
    /\ Has("marker") /\ Ours("marker", s) /\ Has("ready") /\ Ours("ready", s)
    /\ release[s].manifest = Tail /\ release[s].prints = rec["ready"].prints

\* Every wait of a run has a time limit, and the operator repeats what failed.
Resume == Open /\ ~ Released /\ Invoke(NextInput)
FairSpec ==
  Spec /\ WF_vars(Step) /\ SF_vars(Resume) /\ (\A d \in Dbs : WF_vars(MigrationSucceeds(d)))

\* An installation that is bound and that nobody else takes over gets released,
\* through any failures and any repairs on the way.
InstallCompletes == Open ~> Released \/ ~ Open

Stage == IF ~ Bound THEN "open" ELSE IF Released THEN "released" ELSE IF Has("ready") THEN "ready" ELSE "bound"

Promise == INSTANCE Installation WITH
  stage <- Stage, of <- IF Bound THEN rec["marker"].of ELSE None, manifest <- IF Bound THEN Tail ELSE {}

\* The ConfigMaps implement an installation that is bound once, changes by
\* reviewed repairs only, and goes from bound to ready to released.
InstallsOnce == Promise!Spec

-----------------------------------------------------------------------------
(* The strengthening under which the safety properties are inductive.      *)

\* The manifests on record along the chain.
OnProbe == IF Has("probe") THEN rec["probe"].manifest ELSE rec["marker"].manifest
OnMail == IF Has("mail") THEN rec["mail"].manifest ELSE OnProbe

\* Every record but the marker belongs to an installation that is bound, and each repair
\* starts from the one before it.
RecInv ==
  /\ \A n \in Names \ {"marker"} : Has(n) => Bound /\ Ours(n, rec["marker"].of)
  /\ Has("probe") => /\ rec["probe"].original = rec["marker"].manifest
                     /\ Reviewed("probe", rec["marker"].manifest, rec["probe"].manifest)
  /\ Has("mail") => rec["mail"].original = OnProbe /\ Reviewed("mail", OnProbe, rec["mail"].manifest)
  /\ Has("ready") => rec["ready"].manifest = OnMail /\ rec["ready"].prints \in Schemas
  /\ Has("oauth") =>
       /\ Has("ready") /\ Reviewed("oauth", OnMail, rec["oauth"].manifest)
       /\ rec["oauth"] = [contract |-> TRUE, of |-> rec["marker"].of, manifest |-> rec["oauth"].manifest,
                          original |-> OnMail, prints |-> rec["ready"].prints]

\* Migrations run for a bound installation that is not ready, and nothing but them
\* changes the schemas, and the run the images, until something else is released.
SchemaInv ==
  /\ \A d \in Dbs : job[d] = "active" => Bound /\ ~ Has("ready")
  /\ Bound /\ Successes = {} => \A d \in Dbs : schema[d] \subseteq {rec["marker"].of}
  /\ Open => apps \in {None, rec["marker"].of}
  /\ Open /\ Has("ready") => schema = rec["ready"].prints

\* What a run knows once its repair is on record, or was none.
Under(in) ==
  /\ Bound /\ rec["marker"].of = in.of /\ in.manifest = Tail
  /\ in.repair = "probe" => Has("probe") \/ ~ Has("mail")
  /\ in.repair = "oauth" => Has("oauth")

Running(in) ==
  /\ At("repair") => Accepts(in) /\ run.pending = Pending(in) /\ (run.fresh <=> ~ Has("marker"))
  /\ run.at \in {"check_empty", "bind"} =>
       in.op = "bootstrap" /\ in.repair = "none" /\ ~ Has("marker") /\ Successes = {} /\ apps = None
  /\ run.at \in {"repair", "check_empty", "bind"} => run.i = 1
  /\ At("bind") => \A d \in Dbs : schema[d] = {}
  /\ run.at \notin {"repair", "check_empty", "bind"} =>
       /\ Under(in)
       /\ in.op = "bootstrap" => Successes = {} /\ (Has("ready") <=> At("done"))
       /\ in.op = "deploy" => /\ Has("ready") /\ Successes \in {{}, {in.of}}
                              /\ At("done") => Successes = {in.of}
  /\ run.at \in {"start_job", "await_job", "ready"} => in.op = "bootstrap"
  /\ run.at \in {"start_job", "await_job"} => \A d \in Dbs : d < run.i => job[d] = "complete"
  /\ run.at \in {"fingerprint", "rollout", "ready"} => \A d \in Dbs : job[d] # "active"
  /\ At("fingerprint") => release[in.of] = None
  /\ At("record") => in.op = "deploy"
  /\ run.at \in {"rollout", "ready", "record"} /\ release[in.of] = None => run.current = schema

RunInv == run.at \notin {"idle", "failed"} => \E in \in Inputs : in = run.in /\ Running(in)

\* A run that failed can be repeated, or did all it was started for.
Repeatable(in) ==
  Accepts(in) \/ (Has("ready") /\ in.op = "bootstrap") \/ (Released /\ in.repair = "oauth")
RerunInv == At("failed") /\ Open => \E in \in Inputs : in = run.in /\ Repeatable(in)

IInv == TypeOK /\ RecInv /\ ReleaseIsPromoted /\ SchemaInv /\ RunInv /\ RerunInv
=============================================================================
