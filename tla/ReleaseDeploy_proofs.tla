------------------------- MODULE ReleaseDeploy_proofs -------------------------
(***************************************************************************)
(* Proofs about ReleaseDeploy for any number of releases, of runs under    *)
(* way at a time, of databases, Deployments and faults.                    *)
(***************************************************************************)
EXTENDS ReleaseDeploy, TLAPS

Locals ==
  [at : {"idle"} \union Gates \union Deploying \union Rolling \union Cleanup,
   op : Ops \union {"deploy"}, rel : Releases, i : Nat, existing : BOOLEAN,
   current : Schemas \union {None}, dirty : BOOLEAN]

\* The types of the records, the databases and the cluster.
CatalogType ==
  /\ record \in [Releases -> Schemas \union {None}] /\ review \in [Releases -> Schemas \union {None}]
  /\ ledger \in [Releases -> SUBSET (Suffixes \union Unverified)]
DataType ==
  /\ schema \in Schemas
  /\ job \in [Jobs -> [of : Releases, status : {"active", "complete", "failed"}]]
  /\ image \in [Apps -> Releases] /\ replicas \in [Apps -> BOOLEAN]
  /\ pod \in [Apps -> Releases \union {None}]
  /\ routes \in {"normal", "maintenance"} /\ scalers \in BOOLEAN
PlatformType ==
  /\ bound \in BOOLEAN /\ kafka \in BOOLEAN /\ headroom \in Runs \union {None} /\ faults \in 0 .. MaxFaults

\* The part of the invariant that is not about a run.
SharedInv ==
  CatalogType /\ DataType /\ PlatformType /\ LedgerInv /\ DownInv /\ NoMixedTraffic /\ ContainmentHolds

RunsInv ==
  /\ run \in [Runs -> Locals]
  /\ \A p \in Runs : LocalInv(run[p]) /\ \A q \in Runs \ {p} : TogetherInv(run[p], run[q])

-----------------------------------------------------------------------------
LEMMA OrderFacts ==
  /\ Len(Order) \in Nat /\ Len(Order) >= 1 /\ DOMAIN Order = 1 .. Len(Order)
  /\ \A k \in DOMAIN Order : Order[k] \in Apps
  /\ \A a \in Apps : \E k \in DOMAIN Order : Order[k] = a
  /\ Apps \subseteq {"converter", "api", "worker"}
<1>1. Order \in Seq({"converter", "api", "worker"}) /\ "api" \in Apps
  BY OrderAssumption DEF Apps
<1>2. Len(Order) \in Nat /\ DOMAIN Order = 1 .. Len(Order)
  BY <1>1
<1>3. \A k \in DOMAIN Order : Order[k] \in {"converter", "api", "worker"}
  BY <1>1
<1>4. PICK k \in DOMAIN Order : Order[k] = "api"
  BY <1>1 DEF Apps
<1> QED BY <1>2, <1>3, <1>4 DEF Apps

LEMMA IInvForm == IInv <=> SharedInv /\ RunsInv
<1>1. TypeOK => CatalogType /\ DataType /\ PlatformType /\ run \in [Runs -> Locals]
  BY DEF TypeOK, CatalogType, DataType, PlatformType, Locals
<1>2. ASSUME CatalogType, DataType, PlatformType, run \in [Runs -> Locals], \A p \in Runs : PlaceInv(run[p])
      PROVE  TypeOK
  <2>1. \A p \in Runs :
          /\ run[p].at \in {"start_job", "await_job"} => run[p].i \in Jobs
          /\ run[p].at \in {"apply", "await_rollout"} => run[p].i \in DOMAIN Order
    BY <1>2 DEF PlaceInv
  <2> QED BY <1>2, <2>1 DEF TypeOK, CatalogType, DataType, PlatformType, Locals
<1> QED BY <1>1, <1>2 DEF IInv, SharedInv, RunsInv, LocalInv

\* What holds before a step of a run.
LEMMA Known ==
  ASSUME IInv, NEW p \in Runs
  PROVE  /\ SharedInv /\ run \in [Runs -> Locals] /\ run[p] \in Locals /\ LocalInv(run[p])
         /\ \A q \in Runs : run[q] \in Locals /\ LocalInv(run[q])
         /\ \A q \in Runs \ {p} : TogetherInv(run[p], run[q]) /\ TogetherInv(run[q], run[p])
<1>1. SharedInv /\ RunsInv
  BY IInvForm
<1>2. run \in [Runs -> Locals] /\ \A q \in Runs : run[q] \in Locals
  BY <1>1 DEF RunsInv
<1> QED BY <1>1, <1>2 DEF RunsInv

-----------------------------------------------------------------------------
(* Steps of one run.                                                       *)
\* The run was t and is s: it keeps its release and kind and gets no lock.
Follows(s, t) ==
  /\ s.at # "idle" => t.at # "idle" /\ s.rel = t.rel /\ (s.op \in Offline <=> t.op \in Offline)
  /\ Owner(s) => Owner(t)

\* A step of p: the shared part and the other runs keep what they have.
LEMMA RunStep ==
  ASSUME IInv, NEW p \in Runs, NEW s \in Locals, run' = [run EXCEPT ![p] = s],
         SharedInv', LocalInv(s)',
         \A q \in Runs \ {p} : TogetherInv(s, run[q]),
         ASSUME NEW q \in Runs \ {p}, NEW t, t = run[q] PROVE LocalInv(t)'
  PROVE  IInv'
<1>1. run \in [Runs -> Locals] /\ \A q \in Runs : \A r \in Runs \ {q} : TogetherInv(run[q], run[r])
  BY IInvForm DEF RunsInv
<1>2. run' \in [Runs -> Locals] /\ run'[p] = s /\ \A q \in Runs \ {p} : run'[q] = run[q]
  BY <1>1
<1>3. \A q \in Runs : LocalInv(run[q])'
  <2> SUFFICES ASSUME NEW q \in Runs PROVE LocalInv(run[q])'
    OBVIOUS
  <2>1. CASE q = p
    <3>1. LocalInv(run[p])' <=> LocalInv(s)'
      BY <1>2 DEF LocalInv, PlaceInv, PassedInv, GateInv, MigrationInv, RolloutInv, ContainInv, Fresh, Owner
    <3> QED BY <2>1, <3>1
  <2>2. CASE q # p
    <3> SUFFICES ASSUME NEW t, t = run[q] PROVE LocalInv(run[q])'
      OBVIOUS
    <3>1. LocalInv(t)'
      BY <2>2
    <3>2. run'[q] = t
      BY <1>2, <2>2
    <3>3. LocalInv(run[q])' <=> LocalInv(t)'
      BY <3>2 DEF LocalInv, PlaceInv, PassedInv, GateInv, MigrationInv, RolloutInv, ContainInv, Fresh, Owner
    <3> QED BY <3>1, <3>3
  <2> QED BY <2>1, <2>2
<1>4. \A q \in Runs : \A r \in Runs \ {q} : TogetherInv(run'[q], run'[r])
  <2> SUFFICES ASSUME NEW q \in Runs, NEW r \in Runs \ {q} PROVE TogetherInv(run'[q], run'[r])
    OBVIOUS
  <2>1. CASE q = p
    BY <1>2, <2>1
  <2>2. CASE r = p
    <3>1. TogetherInv(s, run[q])
      BY <2>2
    <3> QED BY <1>2, <2>2, <3>1 DEF TogetherInv
  <2>3. CASE q # p /\ r # p
    BY <1>1, <1>2, <2>3
  <2> QED BY <2>1, <2>2, <2>3
<1>5. (\A q \in Runs : \A r \in Runs \ {q} : TogetherInv(run[q], run[r]))'
  BY <1>4 DEF TogetherInv, Owner
<1>6. (IInv <=> SharedInv /\ RunsInv)'
  BY IInvForm, PTL
<1> QED BY <1>2, <1>3, <1>5, <1>6 DEF RunsInv

LEMMA FollowsTogether ==
  ASSUME NEW s, NEW t, NEW u, Follows(s, t), TogetherInv(t, u)
  PROVE  TogetherInv(s, u)
BY DEF Follows, TogetherInv

\* A step of the cluster: no run changes.
LEMMA OtherStep ==
  ASSUME IInv, UNCHANGED run, SharedInv',
         ASSUME NEW q \in Runs, NEW t, t = run[q] PROVE LocalInv(t)'
  PROVE  IInv'
<1>1. run \in [Runs -> Locals] /\ \A q \in Runs : \A r \in Runs \ {q} : TogetherInv(run[q], run[r])
  BY IInvForm DEF RunsInv
<1>2. ASSUME NEW q \in Runs PROVE LocalInv(run[q])'
  <2> SUFFICES ASSUME NEW t, t = run[q] PROVE LocalInv(run[q])'
    OBVIOUS
  <2>1. LocalInv(t)'
    OBVIOUS
  <2>2. run'[q] = t
    BY <1>1
  <2>3. LocalInv(run[q])' <=> LocalInv(t)'
    BY <2>2 DEF LocalInv, PlaceInv, PassedInv, GateInv, MigrationInv, RolloutInv, ContainInv, Fresh, Owner
  <2> QED BY <2>1, <2>3
<1>3. (\A q \in Runs : \A r \in Runs \ {q} : TogetherInv(run[q], run[r]))'
  BY <1>1 DEF TogetherInv, Owner
<1>4. (IInv <=> SharedInv /\ RunsInv)'
  BY IInvForm, PTL
<1> QED BY <1>1, <1>2, <1>3, <1>4 DEF RunsInv

-----------------------------------------------------------------------------
(* Steps that change only a run and the platform.                          *)
LEMMA MoveStep ==
  ASSUME IInv, NEW p \in Runs, NEW s \in Locals, run' = [run EXCEPT ![p] = s],
         UNCHANGED <<records, db, apps, routes, scalers>>, PlatformType', LocalInv(s), Follows(s, run[p])
  PROVE  IInv'
<1>1. UNCHANGED <<record, ledger, review, schema, job, image, replicas, pod, routes, scalers>>
  BY DEF records, db, apps
<1>2. /\ SharedInv /\ \A q \in Runs : LocalInv(run[q])
      /\ \A q \in Runs \ {p} : TogetherInv(run[p], run[q])
  BY Known
<1>3. SharedInv'
  <2>1. CatalogType' /\ DataType'
    BY <1>1, <1>2 DEF SharedInv, CatalogType, DataType
  <2>2. LedgerInv' /\ DownInv'
    BY <1>1, <1>2 DEF SharedInv, LedgerInv, DownInv, Down, NoneActive, After, Unfinished, Started, Released, Recovering
  <2>3. NoMixedTraffic' /\ ContainmentHolds'
    BY <1>1, <1>2 DEF SharedInv, NoMixedTraffic, ContainmentHolds, Unfinished, Started, Released, Recovering
  <2> QED BY <2>1, <2>2, <2>3 DEF SharedInv
<1>4. ASSUME NEW t, LocalInv(t) PROVE LocalInv(t)'
  <2>1. PlaceInv(t)' /\ PassedInv(t)'
    BY <1>1, <1>4 DEF LocalInv, PlaceInv, PassedInv, Fresh, Owner, Unfinished, Started, Released, Recovering
  <2>2. (NoneActive' <=> NoneActive) /\ (Down' <=> Down) /\ After(t.rel)' = After(t.rel)
    BY <1>1 DEF NoneActive, Down, After
  <2>3. GateInv(t)' /\ MigrationInv(t)'
    BY <1>1, <1>4, <2>2 DEF LocalInv, GateInv, MigrationInv, Fresh
  <2>4. RolloutInv(t)' /\ ContainInv(t)'
    BY <1>1, <1>4, <2>2 DEF LocalInv, RolloutInv, Replaced, ContainInv, Owner, Unfinished, Started, Released, Recovering
  <2> QED BY <2>1, <2>3, <2>4 DEF LocalInv
<1>5. \A q \in Runs \ {p} : TogetherInv(s, run[q])
  BY <1>2, FollowsTogether
<1>6. ASSUME NEW q \in Runs \ {p}, NEW t, t = run[q] PROVE LocalInv(t)'
  BY <1>2, <1>4, <1>6
<1>7. LocalInv(s)'
  BY <1>4
<1> QED BY <1>3, <1>5, <1>6, <1>7, RunStep, Zenon

\* A move of p to another place, with nothing else changed in its state.
LEMMA Place ==
  ASSUME run \in [Runs -> Locals], NEW p \in Runs, NEW x, Goto(p, x)
  PROVE  LET s == [run[p] EXCEPT !.at = x] IN
         /\ run' = [run EXCEPT ![p] = s] /\ s.at = x /\ s.op = run[p].op /\ s.rel = run[p].rel /\ s.i = run[p].i
         /\ s.existing = run[p].existing /\ s.current = run[p].current /\ s.dirty = run[p].dirty
BY DEF Goto, Locals

LEMMA IdleKept ==
  Idle \in Locals /\ LocalInv(Idle) /\ \A t : Follows(Idle, t)
<1>1. Idle \in Locals
  BY ReleaseAssumption DEF Idle, Locals
<1>2. PlaceInv(Idle)
  BY DEF Idle, PlaceInv, PlacesOf, Cleanup
<1>3. PassedInv(Idle) /\ ~ Owner(Idle)
  BY DEF Idle, PassedInv, Owner, Offline
<1>4. GateInv(Idle) /\ MigrationInv(Idle) /\ RolloutInv(Idle) /\ ContainInv(Idle)
  BY <1>3 DEF Idle, GateInv, MigrationInv, RolloutInv, ContainInv, Offline
<1> QED BY <1>1, <1>2, <1>3, <1>4 DEF LocalInv, Follows, Idle

LEMMA EndStep ==
  ASSUME IInv, NEW p \in Runs, End(p), UNCHANGED <<records, db, apps, routes, scalers>>, PlatformType'
  PROVE  IInv'
BY IdleKept, MoveStep DEF End

LEMMA RaiseStep ==
  ASSUME IInv, NEW p \in Runs, Raise(p), UNCHANGED <<records, db, apps, routes, scalers>>, PlatformType'
  PROVE  IInv'
<1>1. run \in [Runs -> Locals] /\ run[p] \in Locals /\ LocalInv(run[p])
  BY Known
<1>2. CASE ~ Guarded(p)
  BY <1>2, EndStep DEF Raise
<1>3. CASE Guarded(p)
  <2> DEFINE t == run[p]
             s == [t EXCEPT !.at = "contain_routes"]
  <2>1. run' = [run EXCEPT ![p] = s] /\ s \in Locals /\ s.at = "contain_routes" /\ s.op = t.op /\ s.rel = t.rel
        /\ s.existing = t.existing
    BY <1>1, <1>3 DEF Raise, Goto, Locals, Cleanup
  <2>2. Owner(t) /\ t.op \in Offline /\ t.at \notin {"idle", "guard", "recover_guard"}
    BY <1>3 DEF Guarded, Owner, Offline, Deploying, Rolling
  <2> HIDE DEF t, s
  <2>3. PlaceInv(s)
    BY <1>1, <2>1, <2>2 DEF LocalInv, PlaceInv, PlacesOf, Cleanup, Offline, t
  <2>4. PassedInv(s)
    <3>1. PassedInv(t)
      BY <1>1 DEF LocalInv, t
    <3>2. Owner(s) /\ s.at \in Cleanup /\ s.at \notin Gates
      BY <2>1, <2>2 DEF Owner, Cleanup, Gates, Offline
    <3> QED BY <2>1, <2>2, <3>1, <3>2 DEF PassedInv
  <2>5. GateInv(s) /\ MigrationInv(s) /\ RolloutInv(s) /\ ContainInv(s)
    BY <2>1 DEF GateInv, MigrationInv, RolloutInv, ContainInv, Deploying, Rolling
  <2>6. Follows(s, t)
    BY <2>1, <2>2 DEF Follows
  <2> QED BY <2>1, <2>3, <2>4, <2>5, <2>6, MoveStep DEF LocalInv, t
<1> QED BY <1>2, <1>3

\* The local state t after a move to the place x.
Moved(s, t, x) ==
  /\ s \in Locals /\ s.at = x /\ s.op = t.op /\ s.rel = t.rel /\ s.i = t.i
  /\ s.existing = t.existing /\ s.current = t.current /\ s.dirty = t.dirty

LEMMA Advance ==
  ASSUME IInv, NEW p \in Runs, NEW x \in Gates \union Deploying \union Rolling \union Cleanup, Goto(p, x),
         UNCHANGED <<records, db, apps, routes, scalers>>, PlatformType',
         ASSUME NEW s, Moved(s, run[p], x) PROVE LocalInv(s) /\ Follows(s, run[p])
  PROVE  IInv'
<1>1. run \in [Runs -> Locals] /\ run[p] \in Locals
  BY Known
<1> DEFINE s == [run[p] EXCEPT !.at = x]
<1>2. run' = [run EXCEPT ![p] = s] /\ Moved(s, run[p], x)
  <2>1. s \in Locals
    BY <1>1 DEF Locals
  <2> QED BY <1>1, <2>1, Place DEF Moved
<1>3. s \in Locals /\ LocalInv(s) /\ Follows(s, run[p])
  BY <1>2 DEF Moved
<1> HIDE DEF s
<1> QED BY <1>2, <1>3, MoveStep

LEMMA Frame ==
  ASSUME IInv, UNCHANGED <<records, db, apps, edge, platform, faults>>
  PROVE  UNCHANGED <<records, db, apps, routes, scalers>> /\ PlatformType'
<1>1. PlatformType
  BY IInvForm DEF SharedInv
<1> QED BY <1>1 DEF edge, platform, PlatformType

\* What is known of the run before its step.
LEMMA Here ==
  ASSUME IInv, NEW p \in Runs
  PROVE  /\ run[p] \in Locals /\ run[p].op \in {"deploy", "rollback", "maintenance", "recover"}
         /\ run[p].rel \in Releases
         /\ PlaceInv(run[p]) /\ PassedInv(run[p]) /\ GateInv(run[p]) /\ MigrationInv(run[p])
         /\ RolloutInv(run[p]) /\ ContainInv(run[p])
         /\ CatalogType /\ DataType /\ LedgerInv /\ DownInv /\ NoMixedTraffic /\ ContainmentHolds
<1>1. run[p] \in Locals /\ LocalInv(run[p]) /\ SharedInv
  BY Known
<1>2. run[p].op \in {"deploy", "rollback", "maintenance", "recover"} /\ run[p].rel \in Releases
  BY <1>1, OpsAssumption DEF Locals
<1> QED BY <1>1, <1>2 DEF LocalInv, SharedInv

-----------------------------------------------------------------------------
(* The checks before the lock.                                             *)
LEMMA GuardStep ==
  ASSUME IInv, NEW p \in Runs, Guard(p) PROVE IInv'
<1> DEFINE t == run[p]
           x == IF t.op = "maintenance" THEN "inspect" ELSE "existing"
<1>1. t.at = "guard" /\ UNCHANGED <<records, db, apps, edge, platform, faults>>
  BY DEF Guard, At
<1>2. \/ Raise(p)
      \/ /\ Goto(p, x) /\ Unfinished = {} /\ (t.op = "maintenance" => t.rel \notin Released)
  BY DEF Guard, Check
<1>3. CASE Raise(p)
  BY <1>1, <1>3, RaiseStep, Frame
<1>4. CASE Goto(p, x) /\ Unfinished = {} /\ (t.op = "maintenance" => t.rel \notin Released)
  <2>1. x \in Gates \union Deploying \union Rolling \union Cleanup
    BY DEF Gates, Deploying
  <2>2. ASSUME NEW s, Moved(s, t, x) PROVE LocalInv(s) /\ Follows(s, t)
    <3>1. t.op \in {"maintenance", "deploy", "rollback"}
      BY <1>1, Here DEF PlaceInv, PlacesOf, OfflineRolling, Rolling, Cleanup
    <3>2. PlaceInv(s)
      BY <1>1, <2>2, <3>1, Here DEF Moved, PlaceInv, PlacesOf, Cleanup, Deploying
    <3>3. ~ Owner(s) /\ (s.op = "maintenance" <=> s.op \in Offline) /\ s.op = t.op /\ s.rel = t.rel /\ s.at = x
      BY <2>2, <3>1 DEF Moved, Owner, Offline, Deploying, Rolling, Cleanup
    <3>4. PassedInv(s)
      BY <1>4, <3>1, <3>3 DEF PassedInv
    <3>5. GateInv(s) /\ MigrationInv(s) /\ RolloutInv(s) /\ ContainInv(s)
      BY <3>1, <3>3 DEF GateInv, MigrationInv, RolloutInv, ContainInv, Offline, Deploying, Rolling
    <3> QED BY <1>1, <3>2, <3>3, <3>4, <3>5 DEF LocalInv, Follows
  <2>3. UNCHANGED <<records, db, apps, routes, scalers>> /\ PlatformType'
    BY <1>1, Frame
  <2> QED BY <1>4, <2>1, <2>2, <2>3, Advance, Zenon
<1> QED BY <1>2, <1>3, <1>4

LEMMA InspectStep ==
  ASSUME IInv, NEW p \in Runs, Inspect(p) PROVE IInv'
<1> DEFINE t == run[p]
<1>1. t.at = "inspect" /\ UNCHANGED <<records, db, apps, edge, platform, faults>>
  BY DEF Inspect, At
<1>2. Raise(p) \/ (Goto(p, "preflight") /\ Quiescent /\ Offlined)
  BY DEF Inspect, Check
<1>3. CASE Raise(p)
  BY <1>1, <1>3, RaiseStep, Frame
<1>4. CASE Goto(p, "preflight") /\ Quiescent /\ Offlined
  <2>1. "preflight" \in Gates \union Deploying \union Rolling \union Cleanup
    BY DEF Gates
  <2>2. ASSUME NEW s, Moved(s, t, "preflight") PROVE LocalInv(s) /\ Follows(s, t)
    <3>1. t.op = "maintenance"
      BY <1>1, Here DEF PlaceInv, PlacesOf, OfflineRolling, Rolling, Cleanup, Deploying
    <3>2. PlaceInv(s)
      BY <1>1, <2>2, <3>1, Here DEF Moved, PlaceInv, PlacesOf, Cleanup, Deploying
    <3>3. ~ Owner(s) /\ s.op = t.op /\ s.rel = t.rel /\ s.at = "preflight"
      BY <2>2, <3>1 DEF Moved, Owner, Offline, Deploying, Rolling, Cleanup
    <3>4. PassedInv(s)
      BY <1>1, <3>1, <3>3, Here DEF PassedInv, Gates, Fresh
    <3>5. GateInv(s) /\ MigrationInv(s) /\ RolloutInv(s) /\ ContainInv(s)
      BY <1>4, <3>1, <3>3 DEF GateInv, MigrationInv, RolloutInv, ContainInv, Offline, Deploying, Rolling,
           Quiescent, Offlined
    <3> QED BY <1>1, <3>2, <3>3, <3>4, <3>5 DEF LocalInv, Follows
  <2>3. UNCHANGED <<records, db, apps, routes, scalers>> /\ PlatformType'
    BY <1>1, Frame
  <2> QED BY <1>4, <2>1, <2>2, <2>3, Advance, Zenon
<1> QED BY <1>2, <1>3, <1>4

LEMMA PreflightStep ==
  ASSUME IInv, NEW p \in Runs, Preflight(p) PROVE IInv'
<1> DEFINE t == run[p]
<1>1. t.at = "preflight" /\ UNCHANGED <<records, db, apps, edge, platform, faults>>
  BY DEF Preflight, At
<1>2. Raise(p) \/ (Goto(p, "reassert") /\ QuietDb /\ schema = review[t.rel])
  BY DEF Preflight, Check
<1>3. CASE Raise(p)
  BY <1>1, <1>3, RaiseStep, Frame
<1>4. CASE Goto(p, "reassert") /\ QuietDb /\ schema = review[t.rel]
  <2>1. "reassert" \in Gates \union Deploying \union Rolling \union Cleanup
    BY DEF Gates
  <2>2. ASSUME NEW s, Moved(s, t, "reassert") PROVE LocalInv(s) /\ Follows(s, t)
    <3>1. t.op = "maintenance"
      BY <1>1, Here DEF PlaceInv, PlacesOf, OfflineRolling, Rolling, Cleanup, Deploying
    <3>2. PlaceInv(s)
      BY <1>1, <2>2, <3>1, Here DEF Moved, PlaceInv, PlacesOf, Cleanup, Deploying
    <3>3. ~ Owner(s) /\ s.op = t.op /\ s.rel = t.rel /\ s.at = "reassert"
      BY <2>2, <3>1 DEF Moved, Owner, Offline, Deploying, Rolling, Cleanup
    <3>4. PassedInv(s)
      BY <1>1, <3>1, <3>3, Here DEF PassedInv, Gates, Fresh
    <3>5. GateInv(s) /\ MigrationInv(s) /\ RolloutInv(s) /\ ContainInv(s)
      BY <1>1, <1>4, <3>1, <3>3, Here DEF GateInv, MigrationInv, RolloutInv, ContainInv, Offline, Deploying, Rolling,
           QuietDb, NoneActive, Fresh
    <3> QED BY <1>1, <3>2, <3>3, <3>4, <3>5 DEF LocalInv, Follows
  <2>3. UNCHANGED <<records, db, apps, routes, scalers>> /\ PlatformType'
    BY <1>1, Frame
  <2> QED BY <1>4, <2>1, <2>2, <2>3, Advance, Zenon
<1> QED BY <1>2, <1>3, <1>4

LEMMA ReassertStep ==
  ASSUME IInv, NEW p \in Runs, Reassert(p) PROVE IInv'
<1> DEFINE t == run[p]
<1>1. t.at = "reassert" /\ UNCHANGED <<records, db, apps, edge, platform, faults>>
  BY DEF Reassert, At
<1>2. Raise(p) \/ (Goto(p, "lock") /\ Quiescent)
  BY DEF Reassert, Check
<1>3. CASE Raise(p)
  BY <1>1, <1>3, RaiseStep, Frame
<1>4. CASE Goto(p, "lock") /\ Quiescent
  <2>1. "lock" \in Gates \union Deploying \union Rolling \union Cleanup
    BY DEF Gates, Deploying
  <2>2. ASSUME NEW s, Moved(s, t, "lock") PROVE LocalInv(s) /\ Follows(s, t)
    <3>1. t.op \in {"maintenance", "recover"}
      BY <1>1, Here DEF PlaceInv, PlacesOf, OfflineRolling, Rolling, Cleanup, Deploying
    <3>2. PlaceInv(s)
      BY <1>1, <2>2, <3>1, Here DEF Moved, PlaceInv, PlacesOf, Cleanup, Deploying
    <3>3. (Owner(s) <=> Owner(t)) /\ s.op = t.op /\ s.rel = t.rel /\ s.i = t.i /\ s.current = t.current /\ s.at = "lock"
      BY <1>1, <2>2, <3>1 DEF Moved, Owner, Offline, Deploying, Rolling, Cleanup
    <3>4. PassedInv(s)
      BY <1>1, <1>4, <3>1, <3>3, Here DEF PassedInv, Gates, Fresh, Cleanup
    <3>5. GateInv(s) /\ MigrationInv(s) /\ RolloutInv(s) /\ ContainInv(s)
      BY <1>1, <1>4, <3>1, <3>3, Here DEF GateInv, MigrationInv, RolloutInv, ContainInv, Offline, Deploying, Rolling,
           Fresh
    <3> QED BY <1>1, <3>2, <3>3, <3>4, <3>5 DEF LocalInv, Follows
  <2>3. UNCHANGED <<records, db, apps, routes, scalers>> /\ PlatformType'
    BY <1>1, Frame
  <2> QED BY <1>4, <2>1, <2>2, <2>3, Advance, Zenon
<1> QED BY <1>2, <1>3, <1>4

LEMMA RecoverGuardStep ==
  ASSUME IInv, NEW p \in Runs, RecoverGuard(p) PROVE IInv'
<1> DEFINE t == run[p]
<1>1. t.at = "recover_guard" /\ UNCHANGED <<records, db, apps, edge, platform, faults>>
  BY DEF RecoverGuard, At
<1>2. Raise(p) \/ (Goto(p, "recover_inspect") /\ t.rel \notin Released /\ t.rel \notin Recovering /\ ~ OtherAttempt(t.rel) /\ {"started", "failed"} \subseteq ledger[t.rel])
  BY DEF RecoverGuard, Check
<1>3. CASE Raise(p)
  BY <1>1, <1>3, RaiseStep, Frame
<1>4. CASE Goto(p, "recover_inspect") /\ t.rel \notin Released /\ t.rel \notin Recovering /\ ~ OtherAttempt(t.rel) /\ {"started", "failed"} \subseteq ledger[t.rel]
  <2>1. "recover_inspect" \in Gates \union Deploying \union Rolling \union Cleanup
    BY DEF Gates, Deploying
  <2>2. ASSUME NEW s, Moved(s, t, "recover_inspect") PROVE LocalInv(s) /\ Follows(s, t)
    <3>1. t.op = "recover"
      BY <1>1, Here DEF PlaceInv, PlacesOf, OfflineRolling, Rolling, Cleanup, Deploying
    <3>2. PlaceInv(s)
      BY <1>1, <2>2, <3>1, Here DEF Moved, PlaceInv, PlacesOf, Cleanup, Deploying
    <3>3. (Owner(s) <=> Owner(t)) /\ s.op = t.op /\ s.rel = t.rel /\ s.i = t.i /\ s.current = t.current /\ s.at = "recover_inspect"
      BY <1>1, <2>2, <3>1 DEF Moved, Owner, Offline, Deploying, Rolling, Cleanup
    <3>4. PassedInv(s)
      BY <1>1, <1>4, <3>1, <3>3, Here DEF PassedInv, Gates, Fresh, Cleanup, OtherAttempt, Unfinished, Offline
    <3>5. GateInv(s) /\ MigrationInv(s) /\ RolloutInv(s) /\ ContainInv(s)
      BY <1>1, <1>4, <3>1, <3>3, Here DEF GateInv, MigrationInv, RolloutInv, ContainInv, Offline, Deploying, Rolling,
           Fresh
    <3> QED BY <1>1, <3>2, <3>3, <3>4, <3>5 DEF LocalInv, Follows
  <2>3. UNCHANGED <<records, db, apps, routes, scalers>> /\ PlatformType'
    BY <1>1, Frame
  <2> QED BY <1>4, <2>1, <2>2, <2>3, Advance, Zenon
<1> QED BY <1>2, <1>3, <1>4

LEMMA RecoverInspectStep ==
  ASSUME IInv, NEW p \in Runs, RecoverInspect(p) PROVE IInv'
<1> DEFINE t == run[p]
<1>1. t.at = "recover_inspect" /\ UNCHANGED <<records, db, apps, edge, platform, faults>>
  BY DEF RecoverInspect, At
<1>2. Raise(p) \/ (Goto(p, "recover_schema") /\ Quiescent)
  BY DEF RecoverInspect, Check
<1>3. CASE Raise(p)
  BY <1>1, <1>3, RaiseStep, Frame
<1>4. CASE Goto(p, "recover_schema") /\ Quiescent
  <2>1. "recover_schema" \in Gates \union Deploying \union Rolling \union Cleanup
    BY DEF Gates, Deploying
  <2>2. ASSUME NEW s, Moved(s, t, "recover_schema") PROVE LocalInv(s) /\ Follows(s, t)
    <3>1. t.op = "recover"
      BY <1>1, Here DEF PlaceInv, PlacesOf, OfflineRolling, Rolling, Cleanup, Deploying
    <3>2. PlaceInv(s)
      BY <1>1, <2>2, <3>1, Here DEF Moved, PlaceInv, PlacesOf, Cleanup, Deploying
    <3>3. (Owner(s) <=> Owner(t)) /\ s.op = t.op /\ s.rel = t.rel /\ s.i = t.i /\ s.current = t.current /\ s.at = "recover_schema"
      BY <1>1, <2>2, <3>1 DEF Moved, Owner, Offline, Deploying, Rolling, Cleanup
    <3>4. PassedInv(s)
      BY <1>1, <1>4, <3>1, <3>3, Here DEF PassedInv, Gates, Fresh, Cleanup
    <3>5. GateInv(s) /\ MigrationInv(s) /\ RolloutInv(s) /\ ContainInv(s)
      BY <1>1, <1>4, <3>1, <3>3, Here DEF GateInv, MigrationInv, RolloutInv, ContainInv, Offline, Deploying, Rolling,
           Fresh
    <3> QED BY <1>1, <3>2, <3>3, <3>4, <3>5 DEF LocalInv, Follows
  <2>3. UNCHANGED <<records, db, apps, routes, scalers>> /\ PlatformType'
    BY <1>1, Frame
  <2> QED BY <1>4, <2>1, <2>2, <2>3, Advance, Zenon
<1> QED BY <1>2, <1>3, <1>4

LEMMA RecheckStep ==
  ASSUME IInv, NEW p \in Runs, Recheck(p) PROVE IInv'
<1> DEFINE t == run[p]
<1>1. t.at = "recheck" /\ UNCHANGED <<records, db, apps, edge, platform, faults>>
  BY DEF Recheck, At
<1>2. Raise(p) \/ (Goto(p, "start_job") /\ Quiescent)
  BY DEF Recheck, Check
<1>3. CASE Raise(p)
  BY <1>1, <1>3, RaiseStep, Frame
<1>4. CASE Goto(p, "start_job") /\ Quiescent
  <2>1. "start_job" \in Gates \union Deploying \union Rolling \union Cleanup
    BY DEF Gates, Deploying
  <2>2. ASSUME NEW s, Moved(s, t, "start_job") PROVE LocalInv(s) /\ Follows(s, t)
    <3>1. t.op = "maintenance"
      BY <1>1, Here DEF PlaceInv, PlacesOf, OfflineRolling, Rolling, Cleanup, Deploying
    <3>2. PlaceInv(s)
      BY <1>1, <2>2, <3>1, Here DEF Moved, PlaceInv, PlacesOf, Cleanup, Deploying
    <3>3. (Owner(s) <=> Owner(t)) /\ s.op = t.op /\ s.rel = t.rel /\ s.i = t.i /\ s.current = t.current /\ s.at = "start_job"
      BY <1>1, <2>2, <3>1 DEF Moved, Owner, Offline, Deploying, Rolling, Cleanup
    <3>4. PassedInv(s)
      BY <1>1, <1>4, <3>1, <3>3, Here DEF PassedInv, Gates, Fresh, Cleanup
    <3>5. GateInv(s) /\ MigrationInv(s) /\ RolloutInv(s) /\ ContainInv(s)
      BY <1>1, <1>4, <3>1, <3>3, Here DEF GateInv, MigrationInv, RolloutInv, ContainInv, Offline, Deploying, Rolling,
           Fresh, Quiescent, QuietDb, Down
    <3> QED BY <1>1, <3>2, <3>3, <3>4, <3>5 DEF LocalInv, Follows
  <2>3. UNCHANGED <<records, db, apps, routes, scalers>> /\ PlatformType'
    BY <1>1, Frame
  <2> QED BY <1>4, <2>1, <2>2, <2>3, Advance, Zenon
<1> QED BY <1>2, <1>3, <1>4

LEMMA RecoverSchemaStep ==
  ASSUME IInv, NEW p \in Runs, RecoverSchema(p) PROVE IInv'
<1> DEFINE t == run[p]
           s == [t EXCEPT !.at = "reassert", !.current = schema]
<1>1. t.at = "recover_schema" /\ UNCHANGED <<records, db, apps, edge, platform, faults>>
  BY DEF RecoverSchema, At
<1>2. Raise(p) \/ (run' = [run EXCEPT ![p].at = "reassert", ![p].current = schema] /\ QuietDb /\ schema = After(t.rel))
  BY DEF RecoverSchema
<1>3. CASE Raise(p)
  BY <1>1, <1>3, RaiseStep, Frame
<1>4. CASE run' = [run EXCEPT ![p].at = "reassert", ![p].current = schema] /\ QuietDb /\ schema = After(t.rel)
  <2>1. run \in [Runs -> Locals] /\ t \in Locals /\ schema \in Schemas
    BY Known, Here DEF DataType
  <2>2. run' = [run EXCEPT ![p] = s] /\ s \in Locals /\ s.at = "reassert" /\ s.op = t.op /\ s.rel = t.rel
        /\ s.i = t.i /\ s.existing = t.existing /\ s.current = schema
    BY <1>4, <2>1 DEF Locals, Gates
  <2> HIDE DEF s
  <2>3. t.op = "recover"
    BY <1>1, Here DEF PlaceInv, PlacesOf, OfflineRolling, Rolling, Cleanup, Deploying
  <2>4. PlaceInv(s)
    BY <1>1, <2>2, <2>3, Here DEF PlaceInv, PlacesOf, Cleanup
  <2>5. ~ Owner(s)
    BY <2>2, <2>3 DEF Owner, Rolling, Cleanup
  <2>6. PassedInv(s)
    BY <1>1, <2>2, <2>3, <2>5, Here DEF PassedInv, Gates, Fresh
  <2>7. GateInv(s) /\ MigrationInv(s) /\ RolloutInv(s) /\ ContainInv(s)
    BY <1>4, <2>2, <2>3, <2>5 DEF GateInv, MigrationInv, RolloutInv, ContainInv, Rolling, QuietDb, NoneActive
  <2>8. UNCHANGED <<records, db, apps, routes, scalers>> /\ PlatformType'
    BY <1>1, Frame
  <2>9. LocalInv(s) /\ Follows(s, t)
    BY <1>1, <2>2, <2>4, <2>5, <2>6, <2>7 DEF LocalInv, Follows
  <2> QED BY <2>2, <2>8, <2>9, MoveStep, Zenon
<1> QED BY <1>2, <1>3, <1>4

-----------------------------------------------------------------------------
(* The migrations.                                                         *)
LEMMA ExistingStep ==
  ASSUME IInv, NEW p \in Runs, Existing(p) PROVE IInv'
<1> DEFINE t == run[p]
           y == IF t.op = "rollback" THEN "deploy" ELSE t.op
           s == [t EXCEPT !.at = "events", !.op = y, !.existing = TRUE, !.current = schema]
<1>1. t.at = "existing" /\ UNCHANGED <<records, db, apps, edge, platform, faults>>
  BY DEF Existing, At
<1>2. UNCHANGED <<records, db, apps, routes, scalers>> /\ PlatformType'
  BY <1>1, Frame
<1>3. /\ run \in [Runs -> Locals] /\ t \in Locals /\ schema \in Schemas
      /\ t.op \in {"deploy", "rollback", "maintenance"}
  <2>1. run \in [Runs -> Locals] /\ t \in Locals /\ schema \in Schemas
    BY Known, Here DEF DataType
  <2> QED BY <1>1, <2>1, Here DEF PlaceInv, PlacesOf, OfflineRolling, Rolling, Cleanup
<1>4. t.op = "maintenance" => t.rel \notin Released
  BY <1>1, Here DEF PassedInv, Owner, Deploying, Cleanup
<1>5. \/ Raise(p)
      \/ /\ t.rel \in Released
         /\ run' = [run EXCEPT ![p].at = "events", ![p].op = IF @ = "rollback" THEN "deploy" ELSE @,
                               ![p].existing = TRUE, ![p].current = schema]
      \/ Goto(p, "before") /\ t.op # "rollback"
  BY DEF Existing, Check
<1>6. CASE Raise(p)
  BY <1>2, <1>6, RaiseStep
<1>7. CASE /\ t.rel \in Released
           /\ run' = [run EXCEPT ![p].at = "events", ![p].op = IF @ = "rollback" THEN "deploy" ELSE @,
                                 ![p].existing = TRUE, ![p].current = schema]
  <2>1. t.op \in {"deploy", "rollback"} /\ y = "deploy"
    BY <1>3, <1>4, <1>7
  <2>2. run' = [run EXCEPT ![p] = s] /\ s \in Locals /\ s.at = "events" /\ s.op = "deploy" /\ s.rel = t.rel
        /\ s.i = t.i
    BY <1>3, <1>7, <2>1 DEF Locals, Rolling
  <2> HIDE DEF s
  <2>3. PlaceInv(s)
    BY <1>1, <2>2, Here DEF PlaceInv, PlacesOf, Cleanup, Rolling
  <2>4. Unfinished \subseteq {}
    BY <1>1, <2>1, Here DEF PassedInv, Offline
  <2>5. PassedInv(s) /\ ~ Owner(s)
    BY <2>2, <2>4 DEF PassedInv, Owner, Offline
  <2>6. GateInv(s) /\ MigrationInv(s) /\ RolloutInv(s) /\ ContainInv(s)
    BY <2>2, <2>5 DEF GateInv, MigrationInv, RolloutInv, ContainInv, Offline
  <2>7. LocalInv(s) /\ Follows(s, t)
    BY <1>1, <2>1, <2>2, <2>3, <2>5, <2>6 DEF LocalInv, Follows, Offline
  <2> QED BY <1>2, <2>2, <2>7, MoveStep, Zenon
<1>8. CASE Goto(p, "before") /\ t.op # "rollback"
  <2>1. "before" \in Gates \union Deploying \union Rolling \union Cleanup
    BY DEF Deploying
  <2>2. ASSUME NEW s1, Moved(s1, t, "before") PROVE LocalInv(s1) /\ Follows(s1, t)
    <3>1. PlaceInv(s1)
      BY <1>1, <1>3, <1>8, <2>2, Here DEF Moved, PlaceInv, PlacesOf, Cleanup, Deploying
    <3>2. (Owner(s1) <=> Owner(t)) /\ s1.op = t.op /\ s1.rel = t.rel /\ s1.i = t.i /\ s1.at = "before"
      BY <1>1, <1>3, <2>2 DEF Moved, Owner, Deploying, Rolling, Cleanup
    <3>3. PassedInv(s1)
      BY <1>1, <1>3, <3>2, Here DEF PassedInv, Gates, Fresh, Cleanup
    <3>4. GateInv(s1) /\ MigrationInv(s1) /\ RolloutInv(s1) /\ ContainInv(s1)
      BY <1>1, <1>3, <3>2, Here DEF GateInv, MigrationInv, RolloutInv, ContainInv, Deploying, Rolling
    <3> QED BY <1>1, <3>1, <3>2, <3>3, <3>4 DEF LocalInv, Follows
  <2> QED BY <1>2, <1>8, <2>1, <2>2, Advance, Zenon
<1> QED BY <1>5, <1>6, <1>7, <1>8

LEMMA BeforeStep ==
  ASSUME IInv, NEW p \in Runs, Before(p) PROVE IInv'
<1> DEFINE t == run[p]
<1>1. t.at = "before" /\ UNCHANGED <<records, db, apps, edge, platform, faults>>
  BY DEF Before, At
<1>2. UNCHANGED <<records, db, apps, routes, scalers>> /\ PlatformType'
  BY <1>1, Frame
<1>3. t.op \in {"deploy", "maintenance"} /\ t \in Locals
  BY <1>1, Here DEF PlaceInv, PlacesOf, OfflineRolling, Rolling, Cleanup
<1>4. \/ Raise(p)
      \/ t.op = "maintenance" /\ Goto(p, "recheck")
      \/ t.op = "deploy" /\ Goto(p, "start_job")
      \/ t.op = "deploy" /\ Goto(p, "after")
  BY <1>3 DEF Before, Check
<1>5. CASE Raise(p)
  BY <1>2, <1>5, RaiseStep
<1>6. ASSUME NEW x \in {"recheck", "start_job", "after"}, t.op = "maintenance" <=> x = "recheck", Goto(p, x)
      PROVE  IInv'
  <2>1. x \in Gates \union Deploying \union Rolling \union Cleanup
    BY DEF Deploying
  <2>2. ASSUME NEW s, Moved(s, t, x) PROVE LocalInv(s) /\ Follows(s, t)
    <3>1. 1 \in Jobs
      BY JobAssumption DEF Jobs
    <3>2. PlaceInv(s)
      BY <1>1, <1>3, <1>6, <2>2, <3>1, Here DEF Moved, PlaceInv, PlacesOf, Cleanup, Deploying
    <3>3. (Owner(s) <=> Owner(t)) /\ s.op = t.op /\ s.rel = t.rel /\ s.i = t.i /\ s.at = x
      BY <1>1, <1>3, <2>2 DEF Moved, Owner, Deploying, Rolling, Cleanup
    <3>4. PassedInv(s)
      BY <1>1, <1>3, <3>3, Here DEF PassedInv, Gates, Fresh, Cleanup
    <3>5. GateInv(s) /\ MigrationInv(s) /\ RolloutInv(s) /\ ContainInv(s)
      BY <1>1, <1>3, <1>6, <3>3, Here DEF GateInv, MigrationInv, RolloutInv, ContainInv, Deploying, Rolling
    <3> QED BY <1>1, <3>2, <3>3, <3>4, <3>5 DEF LocalInv, Follows
  <2> QED BY <1>2, <1>6, <2>1, <2>2, Advance, Zenon
<1> QED BY <1>4, <1>5, <1>6

LEMMA AwaitJobStep ==
  ASSUME IInv, NEW p \in Runs, AwaitJob(p) PROVE IInv'
<1> DEFINE t == run[p]
           next == IF t.i = NumJobs THEN "after" ELSE NextJob(p)
           n == IF t.i = NumJobs THEN 1 ELSE t.i + 1
           s == [t EXCEPT !.at = next, !.i = n]
<1>1. t.at = "await_job" /\ UNCHANGED <<records, db, apps, edge, platform, faults>>
  BY DEF AwaitJob, At
<1>2. UNCHANGED <<records, db, apps, routes, scalers>> /\ PlatformType'
  BY <1>1, Frame
<1>3. /\ run \in [Runs -> Locals] /\ t \in Locals /\ t.op \in {"deploy", "maintenance"}
      /\ t.i \in Jobs /\ NumJobs \in Nat /\ 1 \in Jobs
  <2>1. run \in [Runs -> Locals] /\ t \in Locals /\ NumJobs \in Nat /\ 1 \in Jobs
    BY Known, JobAssumption DEF Jobs
  <2> QED BY <1>1, <2>1, Here DEF PlaceInv, PlacesOf, OfflineRolling, Rolling, Cleanup
<1>4. \/ Raise(p)
      \/ job[t.i].status = "complete" /\ run' = [run EXCEPT ![p].at = next, ![p].i = n]
  BY DEF AwaitJob
<1>5. CASE Raise(p)
  BY <1>2, <1>5, RaiseStep
<1>6. CASE job[t.i].status = "complete" /\ run' = [run EXCEPT ![p].at = next, ![p].i = n]
  <2>1. /\ next \in {"after", "recheck", "start_job"} /\ n \in Jobs
        /\ next = "after" => n = 1 /\ t.i = NumJobs
        /\ next # "after" => n = t.i + 1 /\ (next = "recheck" <=> t.op = "maintenance")
    BY <1>3 DEF NextJob, Jobs
  <2> HIDE DEF next, n
  <2>2. next \in Deploying /\ n \in Nat
    BY <2>1 DEF Deploying, Jobs
  <2>3. run' = [run EXCEPT ![p] = s] /\ s \in Locals /\ s.at = next /\ s.i = n /\ s.op = t.op /\ s.rel = t.rel
        /\ s.existing = t.existing
    BY <1>3, <1>6, <2>2 DEF Locals
  <2> HIDE DEF s
  <2>4. PlaceInv(s)
    BY <1>3, <2>1, <2>3, Here DEF PlaceInv, PlacesOf, Cleanup, Deploying
  <2>5. Owner(s) <=> Owner(t)
    BY <1>1, <1>3, <2>1, <2>3 DEF Owner, Deploying, Rolling, Cleanup
  <2>6. PassedInv(s)
    BY <1>1, <1>3, <2>1, <2>3, <2>5, Here DEF PassedInv, Gates, Fresh, Cleanup
  <2>7. MigrationInv(s)
    <3> SUFFICES ASSUME t.op = "maintenance" PROVE MigrationInv(s)
      BY <2>3 DEF MigrationInv
    <3>1. \A j \in Jobs :
            IF j = t.i
            THEN schema[j] = After(t.rel)[j]
            ELSE /\ job[j].status # "active"
                 /\ schema[j] = IF j < t.i THEN After(t.rel)[j] ELSE review[t.rel][j]
      BY <1>1, <1>6, Here DEF MigrationInv, Deploying
    <3>2. \A j \in Jobs : job[j].status # "active"
      BY <1>6, <3>1
    <3>3. \A j \in Jobs : schema[j] = IF j < n \/ next = "after" THEN After(t.rel)[j] ELSE review[t.rel][j]
      BY <1>3, <2>1, <3>1 DEF Jobs
    <3> QED BY <2>1, <2>3, <3>2, <3>3 DEF MigrationInv
  <2>8. GateInv(s) /\ RolloutInv(s) /\ ContainInv(s)
    BY <2>1, <2>3 DEF GateInv, RolloutInv, ContainInv, Rolling
  <2>9. LocalInv(s) /\ Follows(s, t)
    BY <1>1, <2>3, <2>4, <2>5, <2>6, <2>7, <2>8 DEF LocalInv, Follows
  <2> QED BY <1>2, <2>3, <2>9, MoveStep, Zenon
<1> QED BY <1>4, <1>5, <1>6

LEMMA AfterJobsStep ==
  ASSUME IInv, NEW p \in Runs, AfterJobs(p) PROVE IInv'
<1> DEFINE t == run[p]
           s == [t EXCEPT !.at = "events", !.current = schema]
<1>1. t.at = "after" /\ UNCHANGED <<records, db, apps, edge, platform, faults>>
  BY DEF AfterJobs, At
<1>2. UNCHANGED <<records, db, apps, routes, scalers>> /\ PlatformType'
  BY <1>1, Frame
<1>3. /\ run \in [Runs -> Locals] /\ t \in Locals /\ schema \in Schemas
      /\ t.op \in {"deploy", "maintenance"}
  <2>1. run \in [Runs -> Locals] /\ t \in Locals /\ schema \in Schemas
    BY Known, Here DEF DataType
  <2> QED BY <1>1, <2>1, Here DEF PlaceInv, PlacesOf, OfflineRolling, Rolling, Cleanup
<1>4. \/ Raise(p)
      \/ /\ t.op = "maintenance" => schema = After(t.rel)
         /\ run' = [run EXCEPT ![p].at = "events", ![p].current = schema]
  BY DEF AfterJobs
<1>5. CASE Raise(p)
  BY <1>2, <1>5, RaiseStep
<1>6. CASE /\ t.op = "maintenance" => schema = After(t.rel)
           /\ run' = [run EXCEPT ![p].at = "events", ![p].current = schema]
  <2>1. run' = [run EXCEPT ![p] = s] /\ s \in Locals /\ s.at = "events" /\ s.current = schema /\ s.i = t.i
        /\ s.op = t.op /\ s.rel = t.rel /\ s.existing = t.existing
    BY <1>3, <1>6 DEF Locals, Rolling
  <2> HIDE DEF s
  <2>2. PlaceInv(s)
    BY <1>1, <1>3, <2>1, Here DEF PlaceInv, PlacesOf, OfflineRolling, Cleanup, Rolling
  <2>3. Owner(s) <=> Owner(t)
    BY <1>1, <1>3, <2>1 DEF Owner, Deploying, Rolling, Cleanup
  <2>4. PassedInv(s)
    BY <1>1, <1>3, <2>1, <2>3, Here DEF PassedInv, Gates, Fresh, Cleanup
  <2>5. RolloutInv(s)
    <3> SUFFICES ASSUME t.op = "maintenance" PROVE RolloutInv(s)
      BY <1>3, <2>1 DEF RolloutInv, Offline
    <3>1. NoneActive
      BY <1>1, Here DEF MigrationInv, Deploying, NoneActive
    <3>2. s.i = 1
      BY <2>1, <2>2 DEF PlaceInv, Cleanup
    <3> QED BY <1>6, <2>1, <3>1, <3>2, OrderFacts DEF RolloutInv, Replaced, Done
  <2>6. GateInv(s) /\ MigrationInv(s) /\ ContainInv(s)
    BY <2>1 DEF GateInv, MigrationInv, ContainInv, Deploying
  <2>7. LocalInv(s) /\ Follows(s, t)
    BY <1>1, <2>1, <2>2, <2>3, <2>4, <2>5, <2>6 DEF LocalInv, Follows
  <2> QED BY <1>2, <2>1, <2>7, MoveStep, Zenon
<1> QED BY <1>4, <1>5, <1>6

-----------------------------------------------------------------------------
(* The rollout: what moves it on.                                          *)
LEMMA RollOn ==
  ASSUME IInv, NEW p \in Runs, NEW s \in Locals, run[p].at \in Rolling, run[p].at # "return",
         s.at \in Rolling, s.at # "return", s.op = run[p].op, s.rel = run[p].rel, s.current = run[p].current,
         PlaceInv(s),
         s.op \in Offline =>
           /\ Replaced(s)
           /\ s.at \in Done \ {"unblock"} => routes = "normal"
  PROVE  LocalInv(s) /\ Follows(s, run[p])
<1> DEFINE t == run[p]
<1>1. Owner(s) <=> Owner(t)
  BY Here DEF Owner, Deploying, Rolling, Cleanup
<1>2. PassedInv(s)
  <2>1. t.at \notin Cleanup /\ t.at \notin {"idle", "guard", "recover_guard"} /\ s.at \notin Gates
    BY DEF Rolling, Cleanup, Gates
  <2> QED BY <1>1, <2>1, Here DEF PassedInv
<1>3. RolloutInv(s)
  BY Here DEF RolloutInv
<1>4. s.at \notin Deploying \union Cleanup \union {"idle", "preflight", "reassert", "lock"} /\ t.at # "idle"
  BY DEF Rolling, Deploying, Cleanup
<1>5. GateInv(s) /\ MigrationInv(s) /\ ContainInv(s)
  BY <1>4 DEF GateInv, MigrationInv, ContainInv, Cleanup
<1> QED BY <1>1, <1>2, <1>3, <1>4, <1>5 DEF LocalInv, Follows

LEMMA RollMove ==
  ASSUME IInv, NEW p \in Runs, run[p].at \in Rolling, run[p].at # "return",
         NEW x \in Rolling \ {"return", "await_rollout"}, Goto(p, x), x \in PlacesOf(run[p].op),
         IF x \in {"reserve", "reserved", "apply", "await_rollout"} THEN run[p].i \in DOMAIN Order ELSE run[p].i = 1,
         run[p].op \in Offline /\ x \in Done => run[p].at \in Done /\ (x # "unblock" => routes = "normal"),
         UNCHANGED <<records, db, apps, routes, scalers>>, PlatformType'
  PROVE  IInv'
<1> DEFINE t == run[p]
<1>1. ASSUME NEW s, Moved(s, t, x) PROVE LocalInv(s) /\ Follows(s, t)
  <2>1. s \in Locals /\ s.at = x /\ s.op = t.op /\ s.rel = t.rel /\ s.i = t.i /\ s.existing = t.existing
        /\ s.current = t.current
    BY <1>1 DEF Moved
  <2>2. x \notin {"recheck", "start_job", "await_job"}
    BY DEF Rolling
  <2>3. PlaceInv(s)
    BY <2>1, <2>2, Here DEF PlaceInv
  <2>4. s.op \in Offline =>
          /\ Replaced(s)
          /\ s.at \in Done \ {"unblock"} => routes = "normal"
    BY <2>1, Here DEF RolloutInv, Replaced
  <2> QED BY <2>1, <2>3, <2>4, RollOn
<1>2. x \in Gates \union Deploying \union Rolling \union Cleanup
  OBVIOUS
<1> QED BY <1>1, <1>2, Advance, Zenon

\* The places of a rollout, by the kind of the run.
LEMMA RollPlaces ==
  ASSUME IInv, NEW p \in Runs, run[p].at \in Rolling
  PROVE  /\ run[p].op \in {"deploy", "maintenance", "recover"}
         /\ run[p].op \in Offline => PlacesOf(run[p].op) \intersect Rolling = OfflineRolling
                                     /\ run[p].at \in OfflineRolling
         /\ run[p].op \notin Offline => PlacesOf(run[p].op) \intersect Rolling = Rolling \ {"unblock", "rebind"}
                                        /\ run[p].at \notin {"unblock", "rebind"}
<1> DEFINE t == run[p]
<1>1. t.op \in {"deploy", "rollback", "maintenance", "recover"} /\ t.at \in PlacesOf(t.op)
  BY Here DEF PlaceInv
<1>2. t.op # "rollback"
  BY <1>1 DEF PlacesOf, Rolling
<1>3. CASE t.op \in {"maintenance", "recover"}
  BY <1>1, <1>3 DEF PlacesOf, OfflineRolling, Offline, Rolling, Deploying, Cleanup
<1>4. CASE t.op = "deploy"
  BY <1>1, <1>4 DEF PlacesOf, Offline, Rolling, Deploying
<1> QED BY <1>1, <1>2, <1>3, <1>4

LEMMA BeginIs ==
  \A k : Begin(k) \in {"reserve", "apply"}
BY DEF Begin

LEMMA SettledIs ==
  ASSUME IInv, NEW p \in Runs, run[p].at \in Rolling, run[p].i = 1
  PROVE  /\ Settled(p) \in Rolling \ {"return", "await_rollout"} /\ Settled(p) \in PlacesOf(run[p].op) /\ Settled(p) \notin Done
         /\ IF Settled(p) \in {"reserve", "reserved", "apply", "await_rollout"} THEN run[p].i \in DOMAIN Order
            ELSE run[p].i = 1
<1>1. 1 \in DOMAIN Order
  BY OrderFacts
<1>2. Settled(p) = IF run[p].op \in Offline THEN Begin(1) ELSE "bind"
  BY DEF Settled
<1>3. {"reserve", "apply", "bind"} \subseteq Rolling \ {"return", "await_rollout"} /\ {"reserve", "apply"} \subseteq OfflineRolling
  BY DEF Rolling, OfflineRolling
<1>4. Settled(p) \in Rolling \ {"return", "await_rollout"} /\ Settled(p) \in PlacesOf(run[p].op)
  BY <1>2, <1>3, BeginIs, RollPlaces
<1> QED BY <1>1, <1>2, <1>4, BeginIs DEF Done

LEMMA EventsStep ==
  ASSUME IInv, NEW p \in Runs, Events(p) PROVE IInv'
<1> DEFINE x == IF kafka' THEN Settled(p) ELSE "await_kafka"
<1>1. run[p].at = "events" /\ kafka' \in {kafka, FALSE} /\ Goto(p, x)
      /\ UNCHANGED <<records, db, apps, edge, headroom, faults>>
  BY DEF Events, At
<1>2. UNCHANGED <<records, db, apps, routes, scalers>> /\ PlatformType'
  <2>1. PlatformType
    BY IInvForm DEF SharedInv
  <2> QED BY <1>1, <2>1 DEF PlatformType, edge
<1>3. run[p].at \in Rolling /\ run[p].at # "return" /\ run[p].i = 1
  BY <1>1, Here DEF Rolling, PlaceInv, Cleanup
<1>4. CASE Goto(p, Settled(p))
  BY <1>2, <1>3, <1>4, SettledIs, RollMove, Zenon
<1>5. CASE Goto(p, "await_kafka")
  <2>1. "await_kafka" \in Rolling \ {"return", "await_rollout"} /\ "await_kafka" \in OfflineRolling /\ "await_kafka" \notin Done
    BY DEF Rolling, OfflineRolling, Done
  <2>2. "await_kafka" \in PlacesOf(run[p].op)
    BY <1>3, <2>1, RollPlaces
  <2>3. IF "await_kafka" \in {"reserve", "reserved", "apply", "await_rollout"} THEN run[p].i \in DOMAIN Order
        ELSE run[p].i = 1
    BY <1>3
  <2> QED BY <1>2, <1>3, <1>5, <2>1, <2>2, <2>3, RollMove, Zenon
<1> QED BY <1>1, <1>4, <1>5

LEMMA AwaitKafkaStep ==
  ASSUME IInv, NEW p \in Runs, AwaitKafka(p) PROVE IInv'
<1>1. run[p].at = "await_kafka" /\ UNCHANGED <<records, db, apps, edge, platform, faults>>
  BY DEF AwaitKafka, At
<1>2. UNCHANGED <<records, db, apps, routes, scalers>> /\ PlatformType'
  BY <1>1, Frame
<1>3. run[p].at \in Rolling /\ run[p].at # "return" /\ run[p].i = 1
  BY <1>1, Here DEF Rolling, PlaceInv, Cleanup
<1>4. Raise(p) \/ Goto(p, Settled(p))
  BY DEF AwaitKafka, Check
<1>5. CASE Raise(p)
  BY <1>2, <1>5, RaiseStep
<1>6. CASE Goto(p, Settled(p))
  BY <1>2, <1>3, <1>6, SettledIs, RollMove, Zenon
<1> QED BY <1>4, <1>5, <1>6

LEMMA AwaitBindingStep ==
  ASSUME IInv, NEW p \in Runs, AwaitBinding(p) PROVE IInv'
<1>1. run[p].at = "await_binding" /\ UNCHANGED <<records, db, apps, edge, platform, faults>>
  BY DEF AwaitBinding, At
<1>2. UNCHANGED <<records, db, apps, routes, scalers>> /\ PlatformType'
  BY <1>1, Frame
<1>3. run[p].at \in Rolling /\ run[p].at # "return" /\ run[p].i = 1
  BY <1>1, Here DEF Rolling, PlaceInv, Cleanup
<1>4. Raise(p) \/ Goto(p, Begin(1))
  BY DEF AwaitBinding, Check
<1>5. CASE Raise(p)
  BY <1>2, <1>5, RaiseStep
<1>6. CASE Goto(p, Begin(1))
  <2>1. run[p].op \notin Offline /\ 1 \in DOMAIN Order
    BY <1>1, <1>3, RollPlaces, OrderFacts DEF OfflineRolling
  <2>2. Begin(1) \in Rolling \ {"return", "await_rollout"} /\ Begin(1) \in Rolling \ {"unblock", "rebind"}
    BY BeginIs DEF Rolling
  <2>3. Begin(1) \in PlacesOf(run[p].op)
    BY <1>3, <2>1, <2>2, RollPlaces
  <2>4. IF Begin(1) \in {"reserve", "reserved", "apply", "await_rollout"} THEN run[p].i \in DOMAIN Order
        ELSE run[p].i = 1
    BY <1>3, <2>1
  <2> QED BY <1>2, <1>3, <1>6, <2>1, <2>2, <2>3, <2>4, RollMove, Zenon
<1> QED BY <1>4, <1>5, <1>6

LEMMA ReserveStep ==
  ASSUME IInv, NEW p \in Runs, Reserve(p) PROVE IInv'
<1>1. run[p].at = "reserve" /\ headroom' \in {headroom, p} /\ UNCHANGED <<records, db, apps, edge, kafka, faults>>
      /\ (Raise(p) \/ Goto(p, "reserved"))
  BY DEF Reserve, At
<1>2. UNCHANGED <<records, db, apps, routes, scalers>> /\ PlatformType'
  <2>1. PlatformType
    BY IInvForm DEF SharedInv
  <2> QED BY <1>1, <2>1 DEF PlatformType, edge
<1>3. CASE Raise(p)
  BY <1>2, <1>3, RaiseStep
<1>4. CASE Goto(p, "reserved")
  <2>1. run[p].at \in Rolling /\ run[p].at # "return" /\ run[p].i \in DOMAIN Order
    BY <1>1, Here DEF Rolling, PlaceInv, Cleanup
  <2>2. "reserved" \in Rolling \ {"return", "await_rollout"} /\ "reserved" \in OfflineRolling /\ "reserved" \notin Done
        /\ "reserved" \in {"reserve", "reserved", "apply", "await_rollout"}
    BY DEF Rolling, OfflineRolling, Done
  <2>3. "reserved" \in PlacesOf(run[p].op)
    BY <2>1, <2>2, RollPlaces
  <2>4. IF "reserved" \in {"reserve", "reserved", "apply", "await_rollout"} THEN run[p].i \in DOMAIN Order
        ELSE run[p].i = 1
    BY <2>1, <2>2
  <2> QED BY <1>2, <1>4, <2>1, <2>2, <2>3, <2>4, RollMove, Zenon
<1> QED BY <1>1, <1>3, <1>4

LEMMA UnreserveStep ==
  ASSUME IInv, NEW p \in Runs, Unreserve(p) PROVE IInv'
<1>1. run[p].at = "reserved" /\ headroom' = None /\ UNCHANGED <<records, db, apps, edge, kafka>>
      /\ ((Goto(p, "apply") /\ UNCHANGED faults) \/ (Raise(p) /\ faults < MaxFaults /\ faults' = faults + 1))
  BY DEF Unreserve, At
<1>2. UNCHANGED <<records, db, apps, routes, scalers>> /\ PlatformType'
  <2>1. PlatformType
    BY IInvForm DEF SharedInv
  <2> QED BY <1>1, <2>1, JobAssumption DEF PlatformType, edge
<1>3. CASE Raise(p)
  BY <1>2, <1>3, RaiseStep
<1>4. CASE Goto(p, "apply")
  <2>1. run[p].at \in Rolling /\ run[p].at # "return" /\ run[p].i \in DOMAIN Order
    BY <1>1, Here DEF Rolling, PlaceInv, Cleanup
  <2>2. "apply" \in Rolling \ {"return", "await_rollout"} /\ "apply" \in OfflineRolling /\ "apply" \notin Done
        /\ "apply" \in {"reserve", "reserved", "apply", "await_rollout"}
    BY DEF Rolling, OfflineRolling, Done
  <2>3. "apply" \in PlacesOf(run[p].op)
    BY <2>1, <2>2, RollPlaces
  <2>4. IF "apply" \in {"reserve", "reserved", "apply", "await_rollout"} THEN run[p].i \in DOMAIN Order
        ELSE run[p].i = 1
    BY <2>1, <2>2
  <2> QED BY <1>2, <1>4, <2>1, <2>2, <2>3, <2>4, RollMove, Zenon
<1> QED BY <1>1, <1>3, <1>4

\* The last checks of a rollout, one after the other.
LEMMA CheckedStep ==
  ASSUME IInv, NEW p \in Runs, NEW x \in {"public", "smoke", "record"}, Raise(p) \/ Goto(p, x),
         run[p].at = (IF x = "public" THEN "rebind" ELSE IF x = "smoke" THEN "public" ELSE "smoke"),
         UNCHANGED <<records, db, apps, edge, platform, faults>>
  PROVE  IInv'
<1>1. UNCHANGED <<records, db, apps, routes, scalers>> /\ PlatformType'
  BY Frame
<1>2. CASE Raise(p)
  BY <1>1, <1>2, RaiseStep
<1>3. CASE Goto(p, x)
  <2>1. run[p].at \in Rolling /\ run[p].at # "return" /\ run[p].at \in Done \ {"unblock"} /\ run[p].i = 1
    BY Here DEF Rolling, PlaceInv, Cleanup, Done
  <2>2. x \in Rolling \ {"return", "await_rollout"} /\ x \in OfflineRolling /\ x \in Rolling \ {"unblock", "rebind"}
    BY DEF Rolling, OfflineRolling
  <2>3. x \in PlacesOf(run[p].op)
    BY <2>1, <2>2, RollPlaces
  <2>4. IF x \in {"reserve", "reserved", "apply", "await_rollout"} THEN run[p].i \in DOMAIN Order
        ELSE run[p].i = 1
    BY <2>1
  <2>5. run[p].op \in Offline => routes = "normal"
    BY <2>1, Here DEF RolloutInv, Replaced
  <2> QED BY <1>1, <1>3, <2>1, <2>2, <2>3, <2>4, <2>5, RollMove, Zenon
<1> QED BY <1>2, <1>3

LEMMA RebindStep ==
  ASSUME IInv, NEW p \in Runs, Rebind(p) PROVE IInv'
BY CheckedStep DEF Rebind, Check, At

LEMMA PublicStep ==
  ASSUME IInv, NEW p \in Runs, Public(p) PROVE IInv'
BY CheckedStep DEF Public, Check, At

LEMMA SmokeStep ==
  ASSUME IInv, NEW p \in Runs, Smoke(p) PROVE IInv'
BY CheckedStep DEF Smoke, Check, At

LEMMA ReturnStep ==
  ASSUME IInv, NEW p \in Runs, Return(p) PROVE IInv'
BY EndStep, Frame DEF Return

LEMMA Faulted ==
  ASSUME IInv, UNCHANGED <<bound, kafka, headroom>>, faults < MaxFaults, faults' = faults + 1
  PROVE  PlatformType'
<1>1. PlatformType
  BY IInvForm DEF SharedInv
<1> QED BY <1>1, JobAssumption DEF PlatformType

LEMMA FailStep ==
  ASSUME IInv, NEW p \in Runs, Fail(p) PROVE IInv'
<1>1. Raise(p) /\ faults < MaxFaults /\ faults' = faults + 1 /\ UNCHANGED <<records, db, apps, edge, platform>>
  BY DEF Fail
<1>2. UNCHANGED <<records, db, apps, routes, scalers>> /\ PlatformType'
  BY <1>1, Faulted DEF edge, platform
<1> QED BY <1>1, <1>2, RaiseStep

LEMMA KillStep ==
  ASSUME IInv, NEW p \in Runs, Kill(p) PROVE IInv'
<1>1. End(p) /\ faults < MaxFaults /\ faults' = faults + 1 /\ UNCHANGED <<records, db, apps, edge, platform>>
  BY DEF Kill
<1>2. UNCHANGED <<records, db, apps, routes, scalers>> /\ PlatformType'
  BY <1>1, Faulted DEF edge, platform
<1> QED BY <1>1, <1>2, EndStep

LEMMA AwaitRolloutStep ==
  ASSUME IInv, NEW p \in Runs, AwaitRollout(p) PROVE IInv'
<1> DEFINE t == run[p]
           last == t.i = Len(Order)
           next == IF ~ last THEN Begin(t.i + 1) ELSE IF t.op \in Offline THEN "unblock" ELSE "scalers"
           n == IF last THEN 1 ELSE t.i + 1
           s == [t EXCEPT !.at = next, !.i = n]
<1>1. t.at = "await_rollout" /\ UNCHANGED <<records, db, apps, edge, platform, faults>>
  BY DEF AwaitRollout, At
<1>2. UNCHANGED <<records, db, apps, routes, scalers>> /\ PlatformType'
  BY <1>1, Frame
<1>3. \/ Raise(p)
      \/ Converged(Order[t.i]) /\ run' = [run EXCEPT ![p].at = next, ![p].i = n]
  BY DEF AwaitRollout
<1>4. CASE Raise(p)
  BY <1>2, <1>4, RaiseStep
<1>5. CASE Converged(Order[t.i]) /\ run' = [run EXCEPT ![p].at = next, ![p].i = n]
  <2>1. /\ run \in [Runs -> Locals] /\ t \in Locals /\ t.at \in Rolling /\ t.at # "return"
        /\ t.i \in DOMAIN Order
    BY <1>1, Known, Here DEF Rolling, PlaceInv, Cleanup
  <2>2. Len(Order) \in Nat /\ DOMAIN Order = 1 .. Len(Order) /\ t.i \in 1 .. Len(Order)
    BY <2>1, OrderFacts
  <2>3. /\ n \in DOMAIN Order /\ n \in Nat /\ next \in {"reserve", "apply", "unblock", "scalers"}
        /\ next \in {"reserve", "apply"} => n = t.i + 1 /\ ~ last
        /\ next \in {"unblock", "scalers"} => n = 1 /\ last
        /\ (next = "unblock" => t.op \in Offline) /\ (next = "scalers" => t.op \notin Offline)
    <3>1. CASE last
      BY <2>2, <3>1, OrderFacts
    <3>2. CASE ~ last
      <4>1. next = Begin(t.i + 1) /\ n = t.i + 1
        BY <3>2
      <4>2. next \in {"reserve", "apply"}
        BY <4>1, BeginIs
      <4> QED BY <2>2, <3>2, <4>1, <4>2
    <3> QED BY <3>1, <3>2
  <2> HIDE DEF next, n
  <2>4. next \in Rolling /\ next # "return"
    BY <2>3 DEF Rolling
  <2>5. run' = [run EXCEPT ![p] = s] /\ s \in Locals /\ s.at = next /\ s.i = n /\ s.op = t.op /\ s.rel = t.rel
        /\ s.existing = t.existing /\ s.current = t.current
    BY <1>5, <2>1, <2>3, <2>4 DEF Locals
  <2> HIDE DEF s
  <2>6. PlaceInv(s)
    <3>1. next \in PlacesOf(t.op)
      <4>1. t.op \in Offline => next \in OfflineRolling
        BY <2>3, <2>4 DEF OfflineRolling
      <4>2. next \in Rolling \ {"unblock", "rebind"} \/ t.op \in Offline
        BY <2>3, <2>4
      <4> QED BY <2>1, <4>1, <4>2, RollPlaces
    <3> QED BY <2>3, <2>5, <3>1, Here DEF PlaceInv
  <2>7. s.op \in Offline => Replaced(s)
    <3> SUFFICES ASSUME t.op \in Offline PROVE Replaced(s)
      BY <2>5
    <3>1. Replaced(t)
      BY <2>1, Here DEF RolloutInv
    <3>2. /\ image[Order[t.i]] = t.rel /\ replicas[Order[t.i]] /\ pod[Order[t.i]] = t.rel
      BY <1>1, <1>5, <2>1, <3>1 DEF Replaced, Converged
    <3>3. \A k \in DOMAIN Order : k < n \/ next \in Done => k < t.i \/ k = t.i
      <4>1. next \in Done => next = "unblock"
        BY <2>3 DEF Done
      <4> QED BY <2>2, <2>3, <4>1
    <3> QED BY <2>3, <2>5, <3>1, <3>2, <3>3 DEF Replaced
  <2>8. s.op \in Offline => (s.at \in Done \ {"unblock"} => routes = "normal")
    BY <2>3, <2>5 DEF Done
  <2>9. LocalInv(s) /\ Follows(s, t)
    BY <2>1, <2>4, <2>5, <2>6, <2>7, <2>8, RollOn
  <2> QED BY <1>2, <2>5, <2>9, MoveStep, Zenon
<1> QED BY <1>3, <1>4, <1>5

-----------------------------------------------------------------------------
(* What the parts of the invariant depend on.                              *)
LEMMA PassedFrame ==
  ASSUME NEW t, PassedInv(t), UNCHANGED <<record, ledger>> PROVE PassedInv(t)'
BY DEF PassedInv, Fresh, Owner, Unfinished, Started, Recovering, Released

LEMMA GateFrame ==
  ASSUME NEW t, GateInv(t), UNCHANGED <<ledger, review, schema, job, routes, scalers>> PROVE GateInv(t)'
<1>1. (NoneActive' <=> NoneActive) /\ After(t.rel)' = After(t.rel)
  BY DEF NoneActive, After
<1> QED BY <1>1 DEF GateInv, Fresh

LEMMA MigrationFrame ==
  ASSUME NEW t, MigrationInv(t), UNCHANGED <<review, schema, job, replicas, pod>> PROVE MigrationInv(t)'
<1>1. (Down' <=> Down) /\ After(t.rel)' = After(t.rel)
  BY DEF Down, After
<1> QED BY <1>1 DEF MigrationInv

LEMMA RolloutFrame ==
  ASSUME NEW t, RolloutInv(t), UNCHANGED <<review, schema, job, image, replicas, pod, routes>>
  PROVE  RolloutInv(t)'
<1>1. (NoneActive' <=> NoneActive) /\ After(t.rel)' = After(t.rel)
  BY DEF NoneActive, After
<1> QED BY <1>1 DEF RolloutInv, Replaced

LEMMA ContainFrame ==
  ASSUME NEW t, ContainInv(t), UNCHANGED <<record, ledger, routes, replicas>> PROVE ContainInv(t)'
BY DEF ContainInv, Owner, Unfinished, Started, Recovering, Released

LEMMA LedgerFrame ==
  ASSUME LedgerInv, UNCHANGED <<record, ledger, review>> PROVE LedgerInv'
BY DEF LedgerInv, After, Started, Recovering, Released

LEMMA DownFrame ==
  ASSUME DownInv, UNCHANGED <<record, ledger, review, schema, job, replicas, pod, scalers>> PROVE DownInv'
<1>1. (NoneActive' <=> NoneActive) /\ (Down' <=> Down) /\ \A r : After(r)' = After(r)
  BY DEF NoneActive, Down, After
<1> QED BY <1>1 DEF DownInv, Unfinished, Started, Recovering, Released

LEMMA TrafficFrame ==
  ASSUME NoMixedTraffic, UNCHANGED <<record, ledger, routes, image, pod>> PROVE NoMixedTraffic'
BY DEF NoMixedTraffic, Unfinished, Started, Recovering, Released

LEMMA ContainmentFrame ==
  ASSUME ContainmentHolds, UNCHANGED <<record, ledger, routes, scalers, replicas>> PROVE ContainmentHolds'
BY DEF ContainmentHolds, Unfinished, Started, Recovering, Released

\* Attempts without a release record.
LEMMA UnfinishedIs ==
  ASSUME LedgerInv
  PROVE  /\ Unfinished = {r \in Releases : record[r] = None /\ "started" \in ledger[r]}
         /\ Recovering \ Released \subseteq Unfinished
BY DEF LedgerInv, Unfinished, Started, Recovering, Released

-----------------------------------------------------------------------------
(* Steps of a run that is not of a cutover.                                *)
LEMMA OnlineLocal ==
  ASSUME NEW t, t.op \notin Offline, PlaceInv(t), (Unfinished = {})'
  PROVE  LocalInv(t)'
<1>1. ~ Owner(t) /\ t.op # "maintenance" /\ t.op # "recover"
  BY DEF Owner, Offline
<1>2. PassedInv(t)'
  BY <1>1 DEF PassedInv, Owner
<1>3. GateInv(t)' /\ MigrationInv(t)' /\ RolloutInv(t)' /\ ContainInv(t)'
  BY <1>1 DEF GateInv, MigrationInv, RolloutInv, ContainInv, Owner
<1> QED BY <1>2, <1>3 DEF LocalInv, PlaceInv

LEMMA OnlineStep ==
  ASSUME IInv, NEW p \in Runs, run[p].op \notin Offline, run[p].at \notin {"idle", "guard"},
         NEW s \in Locals, run' = [run EXCEPT ![p] = s],
         s.op \notin Offline, s.rel = run[p].rel, PlaceInv(s),
         UNCHANGED ledger, \A r \in Released : record'[r] # None,
         CatalogType', DataType', PlatformType', LedgerInv'
  PROVE  IInv'
<1> DEFINE t == run[p]
<1>1. Unfinished = {}
  BY Here, OpsAssumption DEF PassedInv, PlaceInv, PlacesOf, Offline, Rolling, Cleanup, Deploying
<1>2. (Unfinished = {})'
  BY <1>1 DEF Unfinished, Started, Recovering, Released
<1>3. (Recovering \ Released = {})'
  BY <1>2 DEF Unfinished
<1>4. SharedInv'
  BY <1>2, <1>3 DEF SharedInv, DownInv, NoMixedTraffic, ContainmentHolds
<1>5. \A q \in Runs \ {p} : TogetherInv(s, run[q])
  <2>1. ~ Owner(s) /\ ~ Owner(t)
    BY DEF Owner, Offline
  <2> QED BY <2>1, Known DEF TogetherInv
<1>6. LocalInv(s)'
  BY <1>2, OnlineLocal
<1>7. ASSUME NEW q \in Runs \ {p}, NEW u, u = run[q] PROVE LocalInv(u)'
  <2>1. TogetherInv(t, u) /\ u \in Locals /\ PlaceInv(u) /\ u.op \in {"deploy", "rollback", "maintenance", "recover"}
    BY <1>7, Known, Here
  <2>2. u.op \notin Offline
    BY <2>1 DEF TogetherInv, PlaceInv, PlacesOf, Offline, Rolling, Deploying, Cleanup, OfflineRolling
  <2> QED BY <1>2, <2>1, <2>2, OnlineLocal
<1> QED BY <1>4, <1>5, <1>6, <1>7, RunStep, Zenon

-----------------------------------------------------------------------------
(* Steps of the run that has the lock of an attempt.                       *)
LEMMA OwnerFacts ==
  ASSUME IInv, NEW p \in Runs, Owns(p)
  PROVE  /\ Owner(run[p]) /\ run[p].op \in Offline /\ "started" \in ledger[run[p].rel]
         /\ Unfinished \subseteq {run[p].rel}
         /\ run[p].op = "maintenance" => "failed" \notin ledger[run[p].rel]
         /\ run[p].op = "recover" => run[p].rel \in Recovering /\ {"started", "failed"} \subseteq ledger[run[p].rel]
         /\ run[p].at \notin Cleanup \union {"return"} => run[p].rel \in Unfinished
<1>1. Owner(run[p]) /\ run[p].op \in Offline /\ run[p].at \notin {"idle", "guard", "recover_guard"}
  BY DEF Owns, Owner, Offline, Deploying, Rolling, Cleanup
<1> QED BY <1>1, Here, UnfinishedIs DEF PassedInv, Recovering, Released

LEMMA OwnerOthers ==
  ASSUME IInv, NEW p \in Runs, Owns(p), NEW q \in Runs \ {p}, NEW t, t = run[q],
         UNCHANGED review, \A r \in Releases : ledger[r] \subseteq ledger'[r], \A r \in Released : record'[r] # None,
         Unfinished' \subseteq {run[p].rel}
  PROVE  LocalInv(t)'
<1>1. /\ TogetherInv(run[p], t) /\ t \in Locals /\ PlaceInv(t) /\ PassedInv(t) /\ GateInv(t)
      /\ t.op \in {"deploy", "rollback", "maintenance", "recover"} /\ t.rel \in Releases
  BY Known, Here
<1>2. ~ Owner(t) /\ Owner(run[p]) /\ run[p].at # "idle" /\ run[p].rel \in Releases /\ run[p].op \in Offline
  BY <1>1, OwnerFacts, Here DEF TogetherInv, Owner, Deploying, Rolling, Cleanup
<1>3. t.at # "idle" => t.op \in Offline /\ t.rel = run[p].rel
  BY <1>1, <1>2 DEF TogetherInv
<1>4. t.at = "idle" => t.op = "deploy"
  BY <1>1 DEF PlaceInv, PlacesOf, Offline, Deploying, Rolling, Cleanup, OfflineRolling
<1>5. t.op \in Offline /\ t.at \notin {"guard", "recover_guard"} => ~ Fresh(t)
  <2>1. CASE t.op = "maintenance"
    BY <1>3, <1>4, <2>1, OwnerFacts DEF Fresh
  <2>2. CASE t.op = "recover" /\ t.at # "recover_guard"
    <3>1. t.rel = run[p].rel /\ "failed" \in ledger[t.rel]
      BY <1>1, <1>3, <1>4, <2>2 DEF PassedInv
    <3>2. run[p].op = "recover"
      BY <1>2, <3>1, OwnerFacts DEF Offline
    <3> QED BY <2>2, <3>1, <3>2, OwnerFacts DEF Fresh, Recovering
  <2> QED BY <2>1, <2>2 DEF Offline
<1>6. t.op \in Offline /\ t.at \notin {"guard", "recover_guard"} => ~ Fresh(t)'
  BY <1>1, <1>5 DEF Fresh
<1>7. PlaceInv(t)'
  BY <1>1 DEF PlaceInv
<1>8. PassedInv(t)'
  <2>1. t.at \notin {"idle", "guard", "recover_guard"} => t.op \in Offline /\ Unfinished' \subseteq {t.rel}
    BY <1>3
  <2>2. t.op = "recover" /\ t.at # "recover_guard" => ({"started", "failed"} \subseteq ledger[t.rel])'
    BY <1>1 DEF PassedInv
  <2>3. ~ Owner(t)'
    BY <1>2 DEF Owner
  <2> QED BY <1>6, <2>1, <2>2, <2>3 DEF PassedInv, Offline
<1>9. GateInv(t)'
  <2>1. After(t.rel)' = After(t.rel)
    BY DEF After
  <2> QED BY <1>1, <1>6, <2>1 DEF GateInv, Offline
<1>10. MigrationInv(t)' /\ RolloutInv(t)' /\ ContainInv(t)'
  <2>1. ~ (t.op = "maintenance" /\ t.at \in Deploying) /\ ~ (t.op \in Offline /\ t.at \in Rolling)
    <3>1. t.op = "maintenance" => t.at \notin Deploying \union Rolling
      BY <1>2 DEF Owner
    <3>2. t.op = "recover" => t.at \notin Rolling
      BY <1>2 DEF Owner
    <3> QED BY <3>1, <3>2 DEF Offline
  <2>2. ~ Owner(t)'
    BY <1>2 DEF Owner
  <2> QED BY <2>1, <2>2 DEF MigrationInv, RolloutInv, ContainInv
<1> QED BY <1>7, <1>8, <1>9, <1>10 DEF LocalInv

\* A step of that run, which keeps the attempt to itself.
LEMMA OwnerStep ==
  ASSUME IInv, NEW p \in Runs, Owns(p), NEW s \in Locals, run' = [run EXCEPT ![p] = s],
         UNCHANGED review, \A r \in Releases : ledger[r] \subseteq ledger'[r], \A r \in Released : record'[r] # None,
         Unfinished' \subseteq {run[p].rel},
         SharedInv', LocalInv(s)', Follows(s, run[p])
  PROVE  IInv'
<1>1. \A q \in Runs \ {p} : TogetherInv(s, run[q])
  BY Known, FollowsTogether
<1>2. ASSUME NEW q \in Runs \ {p}, NEW t, t = run[q] PROVE LocalInv(t)'
  BY <1>2, OwnerOthers
<1> QED BY <1>1, <1>2, RunStep, Zenon

\* What such a step with no change of the ledger keeps for the run itself.
LEMMA OwnerPassed ==
  ASSUME IInv, NEW p \in Runs, Owns(p), NEW s, Owner(s), s.op = run[p].op, s.rel = run[p].rel,
         UNCHANGED ledger, Unfinished' \subseteq {run[p].rel},
         s.at \in Cleanup \union {"return"} \/ (run[p].at \notin Cleanup \union {"return"} /\ UNCHANGED record)
  PROVE  PassedInv(s)' /\ GateInv(s)' /\ Follows(s, run[p])
<1>1. /\ s.op \in Offline /\ "started" \in ledger[s.rel]
      /\ s.op = "maintenance" => "failed" \notin ledger[s.rel]
      /\ s.op = "recover" => "recovery-started" \in ledger[s.rel] /\ {"started", "failed"} \subseteq ledger[s.rel]
  BY OwnerFacts DEF Recovering
<1>2. s.at \notin Gates \union {"idle"} /\ run[p].at # "idle" /\ Owner(run[p])
  BY DEF Owns, Owner, Gates, Deploying, Rolling, Cleanup
<1>3. s.at \notin Cleanup \union {"return"} => (s.rel \notin Released)'
  <2> SUFFICES ASSUME s.at \notin Cleanup \union {"return"} PROVE record'[s.rel] = None
    BY DEF Released
  <2>1. run[p].at \notin Cleanup \union {"return"} /\ UNCHANGED record
    OBVIOUS
  <2> QED BY <2>1, OwnerFacts DEF Unfinished, Released, Started, Recovering
<1>4. Owner(s)'
  BY DEF Owner
<1>5. PassedInv(s)'
  <2>1. Unfinished' \subseteq (IF s.op \in Offline THEN {s.rel} ELSE {})
    BY <1>1
  <2> QED BY <1>1, <1>2, <1>3, <1>4, <2>1 DEF PassedInv, Offline
<1>6. GateInv(s)'
  BY <1>2 DEF GateInv, Gates
<1> QED BY <1>2, <1>5, <1>6 DEF Follows

LEMMA UnfinishedFrame ==
  UNCHANGED <<record, ledger>> => Unfinished' = Unfinished /\ Recovering' = Recovering /\ Released' = Released
BY DEF Unfinished, Started, Recovering, Released

-----------------------------------------------------------------------------
(* Steps that change the databases or the cluster.                         *)
LEMMA StartJobStep ==
  ASSUME IInv, NEW p \in Runs, StartJob(p) PROVE IInv'
<1> SUFFICES ASSUME NEW t, t = run[p], NEW s, s = [t EXCEPT !.at = "await_job"] PROVE IInv'
  OBVIOUS
<1>1. /\ t.at = "start_job" /\ job' = [job EXCEPT ![t.i] = [of |-> t.rel, status |-> "active"]]
      /\ UNCHANGED <<record, ledger, review, schema, image, replicas, pod, routes, bound, scalers, kafka, headroom, faults>>
  BY DEF StartJob, At, records, apps, edge, platform
<1>2. /\ run' = [run EXCEPT ![p] = s] /\ s \in Locals /\ s.at = "await_job" /\ s.op = t.op /\ s.rel = t.rel /\ s.i = t.i
      /\ s.existing = t.existing
  BY Known DEF StartJob, Goto, Locals, Deploying
<1>3. /\ t.op \in {"deploy", "maintenance"} /\ t.i \in Jobs /\ (t.existing => t.op = "deploy") /\ t.rel \in Releases
  BY <1>1, Here DEF PlaceInv, PlacesOf, Rolling, OfflineRolling, Cleanup, Deploying
<1>4. PlaceInv(s) /\ PlaceInv(s)'
  BY <1>2, <1>3 DEF PlaceInv, PlacesOf, Deploying
<1>5. CatalogType' /\ DataType' /\ PlatformType' /\ LedgerInv'
  <2>1. CatalogType /\ DataType /\ PlatformType /\ LedgerInv
    BY Known DEF SharedInv
  <2>2. DataType'
    BY <1>1, <1>3, <2>1 DEF DataType
  <2> QED BY <1>1, <2>1, <2>2, LedgerFrame DEF CatalogType, PlatformType
<1>6. Unfinished' = Unfinished /\ Recovering' = Recovering /\ Released' = Released
  BY <1>1, UnfinishedFrame
<1>7. CASE t.op = "deploy"
  <2>1. t.op \notin Offline /\ t.at \notin {"idle", "guard"} /\ \A r \in Released : record'[r] # None
    BY <1>1, <1>7 DEF Offline, Released
  <2> QED BY <1>1, <1>2, <1>4, <1>5, <2>1, OnlineStep, Zenon
<1>8. CASE t.op = "maintenance"
  <2>1. Owns(p) /\ Owner(s)
    BY <1>1, <1>2, <1>8 DEF Owns, Owner, Deploying
  <2>2. Down /\ MigrationInv(t)
    BY <1>1, <1>8, Here DEF MigrationInv, Deploying
  <2>3. Unfinished \subseteq {t.rel} /\ t.at \notin Cleanup \union {"return"} /\ t.rel \in Unfinished
        /\ "failed" \notin ledger[t.rel]
    BY <1>1, <1>8, <2>1, OwnerFacts DEF Cleanup
  <2>4. Recovering \ Released = {}
    BY <2>3, Here, UnfinishedIs DEF LedgerInv
  <2>5. SharedInv'
    <3>1. Down'
      BY <1>1, <2>2 DEF Down
    <3>2. DownInv'
      BY <1>1, <1>6, <2>4, <3>1, Here DEF DownInv
    <3> QED BY <1>1, <1>5, <3>2, Here, TrafficFrame, ContainmentFrame DEF SharedInv
  <2>6. PassedInv(s)' /\ GateInv(s)' /\ Follows(s, t)
    BY <1>1, <1>2, <1>6, <2>1, <2>3, OwnerPassed
  <2>7. MigrationInv(s)'
    <3>1. Down' /\ After(t.rel)' = After(t.rel)
      BY <1>1, <2>2 DEF Down, After
    <3>2. /\ job'[t.i] = [of |-> t.rel, status |-> "active"]
          /\ \A j \in Jobs \ {t.i} : job'[j] = job[j]
      BY <1>1, <1>3, Here DEF DataType
    <3> QED BY <1>1, <1>2, <1>8, <2>2, <3>1, <3>2 DEF MigrationInv, Deploying
  <2>8. RolloutInv(s)' /\ ContainInv(s)'
    BY <1>2 DEF RolloutInv, ContainInv, Rolling
  <2>9. LocalInv(s)'
    BY <1>4, <2>6, <2>7, <2>8 DEF LocalInv
  <2>10. \A r \in Releases : ledger[r] \subseteq ledger'[r]
    BY <1>1
  <2>11. (\A r \in Released : record'[r] # None) /\ UNCHANGED review /\ Unfinished' \subseteq {t.rel}
    BY <1>1, <1>6, <2>3 DEF Released
  <2> QED BY <1>2, <2>1, <2>5, <2>6, <2>9, <2>10, <2>11, OwnerStep, Zenon
<1> QED BY <1>3, <1>7, <1>8

LEMMA BindStep ==
  ASSUME IInv, NEW p \in Runs, Bind(p) PROVE IInv'
<1> SUFFICES ASSUME NEW t, t = run[p], NEW s, s = [t EXCEPT !.at = "await_binding"] PROVE IInv'
  OBVIOUS
<1>1. /\ t.at = "bind" /\ routes' = "normal"
      /\ UNCHANGED <<record, ledger, review, schema, job, image, replicas, pod, bound, scalers, kafka, headroom, faults>>
  BY DEF Bind, At, records, db, apps, platform
<1>2. /\ run' = [run EXCEPT ![p] = s] /\ s \in Locals /\ s.at = "await_binding" /\ s.op = t.op /\ s.rel = t.rel
      /\ s.i = t.i /\ s.existing = t.existing
  BY Known DEF Bind, Goto, Locals, Rolling
<1>3. t.op \notin Offline /\ t.op = "deploy" /\ t.i = 1
  BY <1>1, Here, RollPlaces DEF PlaceInv, OfflineRolling, Rolling, Cleanup, Offline
<1>4. PlaceInv(s)
  BY <1>2, <1>3 DEF PlaceInv, PlacesOf, Rolling
<1>5. CatalogType' /\ DataType' /\ PlatformType' /\ LedgerInv'
  <2>1. CatalogType /\ DataType /\ PlatformType /\ LedgerInv
    BY Known DEF SharedInv
  <2> QED BY <1>1, <2>1, LedgerFrame DEF CatalogType, DataType, PlatformType
<1>6. t.at \notin {"idle", "guard"} /\ \A r \in Released : record'[r] # None
  BY <1>1 DEF Released
<1> QED BY <1>1, <1>2, <1>3, <1>4, <1>5, <1>6, OnlineStep, Zenon

LEMMA ApplyScalersStep ==
  ASSUME IInv, NEW p \in Runs, ApplyScalers(p) PROVE IInv'
<1> SUFFICES ASSUME NEW t, t = run[p], NEW s, s = [t EXCEPT !.at = "public"] PROVE IInv'
  OBVIOUS
<1>1. /\ t.at = "scalers" /\ scalers' = TRUE
      /\ UNCHANGED <<record, ledger, review, schema, job, image, replicas, pod, routes, bound, kafka, headroom, faults>>
  BY DEF ApplyScalers, At, records, db, apps, platform
<1>2. /\ run' = [run EXCEPT ![p] = s] /\ s \in Locals /\ s.at = "public" /\ s.op = t.op /\ s.rel = t.rel
      /\ s.i = t.i /\ s.existing = t.existing
  BY Known DEF ApplyScalers, Goto, Locals, Rolling
<1>3. t.op \notin Offline /\ t.op = "deploy" /\ t.i = 1
  BY <1>1, Here, RollPlaces DEF PlaceInv, OfflineRolling, Rolling, Cleanup, Offline
<1>4. PlaceInv(s)
  BY <1>2, <1>3 DEF PlaceInv, PlacesOf, Rolling
<1>5. CatalogType' /\ DataType' /\ PlatformType' /\ LedgerInv'
  <2>1. CatalogType /\ DataType /\ PlatformType /\ LedgerInv
    BY Known DEF SharedInv
  <2> QED BY <1>1, <2>1, LedgerFrame DEF CatalogType, DataType, PlatformType
<1>6. t.at \notin {"idle", "guard"} /\ \A r \in Released : record'[r] # None
  BY <1>1 DEF Released
<1> QED BY <1>1, <1>2, <1>3, <1>4, <1>5, <1>6, OnlineStep, Zenon

LEMMA ApplyStep ==
  ASSUME IInv, NEW p \in Runs, Apply(p) PROVE IInv'
<1> SUFFICES ASSUME NEW t, t = run[p], NEW s, s = [t EXCEPT !.at = "await_rollout"], NEW a, a = Order[t.i]
             PROVE  IInv'
  OBVIOUS
<1>1. /\ t.at = "apply" /\ image' = [image EXCEPT ![a] = t.rel]
      /\ UNCHANGED <<record, ledger, review, schema, job, pod, routes, bound, scalers, kafka, headroom, faults>>
  BY DEF Apply, At, records, db, edge, platform
<1>2. /\ run' = [run EXCEPT ![p] = s] /\ s \in Locals /\ s.at = "await_rollout" /\ s.op = t.op /\ s.rel = t.rel
      /\ s.i = t.i /\ s.existing = t.existing /\ s.current = t.current
  BY Known DEF Apply, Goto, Locals, Rolling
<1>3. /\ t.op \in {"deploy", "maintenance", "recover"} /\ t.i \in DOMAIN Order /\ a \in Apps
      /\ (t.existing => t.op = "deploy") /\ t.rel \in Releases /\ t.at \in Rolling
  BY <1>1, Here, RollPlaces, OrderFacts DEF PlaceInv, Rolling
<1>4. PICK on \in BOOLEAN : replicas' = [replicas EXCEPT ![a] = on] /\ (t.op \in Offline => on)
  <2>1. DataType
    BY Here
  <2>2. PICK on \in {TRUE} \union (IF t.op \notin Offline /\ a \in KedaApps THEN {replicas[a]} ELSE {}) :
          replicas' = [replicas EXCEPT ![a] = on]
    BY DEF Apply
  <2>3. CASE t.op \notin Offline /\ a \in KedaApps
    BY <1>3, <2>1, <2>2, <2>3 DEF DataType
  <2>4. CASE ~ (t.op \notin Offline /\ a \in KedaApps)
    BY <2>2, <2>4
  <2> QED BY <2>3, <2>4
<1>5. PlaceInv(s) /\ PlaceInv(s)'
  BY <1>2, <1>3 DEF PlaceInv, PlacesOf, Rolling, OfflineRolling
<1>6. CatalogType' /\ DataType' /\ PlatformType' /\ LedgerInv'
  <2>1. CatalogType /\ DataType /\ PlatformType /\ LedgerInv
    BY Known DEF SharedInv
  <2>2. DataType'
    BY <1>1, <1>3, <1>4, <2>1 DEF DataType
  <2> QED BY <1>1, <2>1, <2>2, LedgerFrame DEF CatalogType, PlatformType
<1>7. Unfinished' = Unfinished /\ Recovering' = Recovering /\ Released' = Released
  BY <1>1, UnfinishedFrame
<1>8. CASE t.op = "deploy"
  <2>1. t.op \notin Offline /\ t.at \notin {"idle", "guard"} /\ \A r \in Released : record'[r] # None
    BY <1>1, <1>8 DEF Offline, Released
  <2> QED BY <1>1, <1>2, <1>5, <1>6, <2>1, OnlineStep, Zenon
<1>9. CASE t.op \in Offline
  <2>1. Owns(p) /\ Owner(s)
    BY <1>1, <1>2, <1>9 DEF Owns, Owner, Rolling, Offline
  <2>2. RolloutInv(t) /\ NoneActive /\ schema = After(t.rel) /\ t.current = After(t.rel) /\ Replaced(t)
    BY <1>3, <1>9, Here DEF RolloutInv
  <2>3. Unfinished \subseteq {t.rel} /\ t.at \notin Cleanup \union {"return"} /\ t.rel \in Unfinished
        /\ (t.rel \in Recovering \/ "failed" \notin ledger[t.rel])
    BY <1>1, <1>9, <2>1, OwnerFacts DEF Cleanup, Offline
  <2>4. NoneActive' /\ After(t.rel)' = After(t.rel)
    BY <1>1, <2>2 DEF NoneActive, After
  <2>5. SharedInv'
    <3>1. DownInv'
      <4>1. \A r \in Unfinished : r = t.rel /\ ~ scalers
        BY <2>3, Here DEF DownInv
      <4>2. Recovering \ Released \subseteq {t.rel}
        BY <2>3, Here, UnfinishedIs
      <4> QED BY <1>1, <1>7, <2>2, <2>4, <4>1, <4>2 DEF DownInv
    <3>2. NoMixedTraffic'
      <4>1. \A b \in Apps : image'[b] = (IF b = a THEN t.rel ELSE image[b])
        BY <1>1, <1>3, Here DEF DataType
      <4> QED BY <1>1, <1>7, <2>3, <4>1, Here DEF NoMixedTraffic
    <3>3. ContainmentHolds'
      BY <1>1, <1>7, <2>3 DEF ContainmentHolds
    <3> QED BY <1>6, <3>1, <3>2, <3>3 DEF SharedInv
  <2>6. PassedInv(s)' /\ GateInv(s)' /\ Follows(s, t)
    BY <1>1, <1>2, <1>7, <2>1, <2>3, OwnerPassed
  <2>7. RolloutInv(s)'
    <3>1. /\ \A b \in Apps : image'[b] = (IF b = a THEN t.rel ELSE image[b])
          /\ \A b \in Apps : replicas'[b] = (IF b = a THEN TRUE ELSE replicas[b])
      BY <1>1, <1>3, <1>4, <1>9, Here DEF DataType
    <3>2. \A k \in DOMAIN Order : Order[k] \in Apps
      BY OrderFacts
    <3>3. Replaced(s)'
      <4> SUFFICES ASSUME NEW k \in DOMAIN Order
                   PROVE  /\ k < t.i \/ k = t.i => image'[Order[k]] = t.rel /\ replicas'[Order[k]]
                          /\ k < t.i => pod'[Order[k]] = t.rel
        BY <1>2 DEF Replaced, Done
      <4>1. k < t.i => image[Order[k]] = t.rel /\ replicas[Order[k]] /\ pod[Order[k]] = t.rel
        BY <2>2 DEF Replaced
      <4>2. CASE k = t.i
        BY <1>1, <3>1, <3>2, <4>1, <4>2
      <4>3. CASE k < t.i
        BY <1>1, <3>1, <3>2, <4>1, <4>3
      <4> QED BY <4>2, <4>3
    <3> QED BY <1>1, <1>2, <2>2, <2>4, <3>3 DEF RolloutInv, Done
  <2>8. MigrationInv(s)' /\ ContainInv(s)'
    BY <1>2 DEF MigrationInv, ContainInv, Deploying
  <2>9. LocalInv(s)'
    BY <1>5, <2>6, <2>7, <2>8 DEF LocalInv
  <2>10. \A r \in Releases : ledger[r] \subseteq ledger'[r]
    BY <1>1
  <2>11. (\A r \in Released : record'[r] # None) /\ UNCHANGED review /\ Unfinished' \subseteq {t.rel}
    BY <1>1, <1>7, <2>3 DEF Released
  <2> QED BY <1>2, <2>1, <2>5, <2>6, <2>9, <2>10, <2>11, OwnerStep, Zenon
<1> QED BY <1>3, <1>8, <1>9 DEF Offline

\* Once every Deployment is replaced, public traffic meets only the release.
LEMMA AllReplaced ==
  ASSUME IInv, NEW p \in Runs, run[p].op \in Offline, run[p].at \in Done
  PROVE  \A a \in Apps : image[a] = run[p].rel /\ replicas[a] /\ pod[a] = run[p].rel
<1>1. run[p].at \in Rolling
  BY DEF Done, Rolling
<1>2. Replaced(run[p])
  BY <1>1, Here DEF RolloutInv
<1> QED BY <1>2, OrderFacts DEF Replaced

LEMMA UnblockStep ==
  ASSUME IInv, NEW p \in Runs, Unblock(p) PROVE IInv'
<1> SUFFICES ASSUME NEW t, t = run[p], NEW s, s = [t EXCEPT !.at = "rebind"] PROVE IInv'
  OBVIOUS
<1>1. /\ t.at = "unblock" /\ routes' = "normal"
      /\ UNCHANGED <<record, ledger, review, schema, job, image, replicas, pod, bound, scalers, kafka, headroom, faults>>
  BY DEF Unblock, At, records, db, apps, platform
<1>2. /\ run' = [run EXCEPT ![p] = s] /\ s \in Locals /\ s.at = "rebind" /\ s.op = t.op /\ s.rel = t.rel
      /\ s.i = t.i /\ s.existing = t.existing /\ s.current = t.current
  BY Known DEF Unblock, Goto, Locals, Rolling
<1>3. /\ t.op \in Offline /\ t.op \in {"maintenance", "recover"} /\ t.i = 1 /\ ~ t.existing /\ t.rel \in Releases
      /\ t.at \in Rolling /\ t.at \in Done
  BY <1>1, Here, RollPlaces DEF PlaceInv, Rolling, Cleanup, Offline, Done
<1>4. PlaceInv(s)'
  BY <1>2, <1>3 DEF PlaceInv, PlacesOf, Rolling, OfflineRolling
<1>5. CatalogType' /\ DataType' /\ PlatformType' /\ LedgerInv'
  <2>1. CatalogType /\ DataType /\ PlatformType /\ LedgerInv
    BY Known DEF SharedInv
  <2> QED BY <1>1, <2>1, LedgerFrame DEF CatalogType, DataType, PlatformType
<1>6. Unfinished' = Unfinished /\ Recovering' = Recovering /\ Released' = Released
  BY <1>1, UnfinishedFrame
<1>7. Owns(p) /\ Owner(s)
  BY <1>1, <1>2, <1>3 DEF Owns, Owner, Rolling, Offline
<1>8. Unfinished \subseteq {t.rel} /\ t.at \notin Cleanup \union {"return"}
      /\ (t.rel \in Recovering \/ "failed" \notin ledger[t.rel])
  BY <1>1, <1>7, OwnerFacts DEF Cleanup, Offline
<1>9. \A a \in Apps : image[a] = t.rel /\ pod[a] = t.rel
  BY <1>3, AllReplaced
<1>10. SharedInv'
  <2>1. DownInv'
    BY <1>1, Here, DownFrame
  <2>2. NoMixedTraffic'
    BY <1>1, <1>6, <1>8, <1>9 DEF NoMixedTraffic
  <2>3. ContainmentHolds'
    BY <1>1, <1>6, <1>8 DEF ContainmentHolds
  <2> QED BY <1>5, <2>1, <2>2, <2>3 DEF SharedInv
<1>11. PassedInv(s)' /\ GateInv(s)' /\ Follows(s, t)
  BY <1>1, <1>2, <1>6, <1>7, <1>8, OwnerPassed
<1>12. RolloutInv(s)'
  <2>1. RolloutInv(t) /\ NoneActive /\ Replaced(t)
    BY <1>3, Here DEF RolloutInv
  <2>2. NoneActive' /\ After(t.rel)' = After(t.rel)
    BY <1>1, <2>1 DEF NoneActive, After
  <2>3. Replaced(s)'
    BY <1>1, <1>2, <2>1 DEF Replaced, Done
  <2> QED BY <1>1, <1>2, <1>3, <2>1, <2>2, <2>3 DEF RolloutInv
<1>13. MigrationInv(s)' /\ ContainInv(s)'
  BY <1>2 DEF MigrationInv, ContainInv, Deploying
<1>14. LocalInv(s)'
  BY <1>4, <1>11, <1>12, <1>13 DEF LocalInv
<1>15. \A r \in Releases : ledger[r] \subseteq ledger'[r]
  BY <1>1
<1>16. (\A r \in Released : record'[r] # None) /\ UNCHANGED review /\ Unfinished' \subseteq {t.rel}
  BY <1>1, <1>6, <1>8 DEF Released
<1> QED BY <1>2, <1>7, <1>10, <1>11, <1>14, <1>15, <1>16, OwnerStep, Zenon

LEMMA WriteRecordStep ==
  ASSUME IInv, NEW p \in Runs, WriteRecord(p) PROVE IInv'
<1> SUFFICES ASSUME NEW t, t = run[p], NEW s, s = [t EXCEPT !.at = "return"] PROVE IInv'
  OBVIOUS
<1>1. /\ t.at = "record"
      /\ UNCHANGED <<ledger, review, schema, job, image, replicas, pod, routes, bound, scalers, kafka, headroom, faults>>
  BY DEF WriteRecord, At, db, apps, edge, platform
<1>2. CASE Raise(p) /\ UNCHANGED record
  <2>1. UNCHANGED <<records, db, apps, edge, platform, faults>>
    BY <1>1, <1>2 DEF records, db, apps, edge, platform
  <2> QED BY <1>2, <2>1, Frame, RaiseStep
<1>3. CASE /\ Goto(p, "return")
           /\ UNCHANGED record \/ (record[t.rel] = None /\ record' = [record EXCEPT ![t.rel] = t.current])
  <2>1. /\ run' = [run EXCEPT ![p] = s] /\ s \in Locals /\ s.at = "return" /\ s.op = t.op /\ s.rel = t.rel
        /\ s.i = t.i /\ s.existing = t.existing /\ s.current = t.current
    BY <1>3, Known DEF Goto, Locals, Rolling
  <2>2. /\ t.op \in {"deploy", "maintenance", "recover"} /\ t.i = 1 /\ (t.existing => t.op = "deploy")
        /\ t.rel \in Releases /\ t.at \in Rolling /\ t.current \in Schemas \union {None}
    BY <1>1, Here, RollPlaces DEF PlaceInv, Rolling, Cleanup, Locals
  <2>3. PlaceInv(s) /\ PlaceInv(s)'
    BY <2>1, <2>2 DEF PlaceInv, PlacesOf, Rolling, OfflineRolling
  <2>4. /\ record' \in [Releases -> Schemas \union {None}]
        /\ \A r \in Releases : record'[r] = record[r] \/ (r = t.rel /\ record[r] = None /\ record'[r] = t.current)
    BY <1>3, <2>2, Here DEF CatalogType
  <2>5. CatalogType' /\ DataType' /\ PlatformType'
    BY <1>1, <2>4, Known DEF SharedInv, CatalogType, DataType, PlatformType
  <2>6. /\ \A r \in Released : record'[r] # None
        /\ Unfinished' \subseteq Unfinished /\ Recovering' = Recovering /\ Started' = Started
        /\ (Recovering \ Released)' \subseteq Recovering \ Released
    BY <1>1, <2>4 DEF Unfinished, Recovering, Released, Started
  <2>7. t.op \in Offline \/ t.rel \notin Unfinished
    BY <1>1, Here DEF PassedInv
  <2>8. t.op \in Offline => schema = After(t.rel) /\ NoneActive /\ t.current = After(t.rel)
    BY <2>2, Here DEF RolloutInv
  <2>9. LedgerInv'
    <3>1. \A r : After(r)' = After(r)
      BY <1>1 DEF After
    <3>2. \A r \in Releases : r \in Started /\ record'[r] # None => record'[r] = After(r)
      <4> SUFFICES ASSUME NEW r \in Started, record'[r] # None PROVE record'[r] = After(r)
        OBVIOUS
      <4>1. CASE record'[r] = record[r]
        BY <4>1, Here DEF LedgerInv, Released, Started
      <4>2. CASE r = t.rel /\ record[r] = None /\ record'[r] = t.current
        BY <2>7, <2>8, <4>2 DEF Unfinished, Released, Started
      <4> QED BY <2>4, <4>1, <4>2 DEF Started
    <3> QED BY <1>1, <2>6, <3>1, <3>2, Here DEF LedgerInv, Released
  <2>10. CASE t.op = "deploy"
    <3>1. t.op \notin Offline /\ t.at \notin {"idle", "guard"}
      BY <1>1, <2>10 DEF Offline
    <3> QED BY <1>1, <2>1, <2>3, <2>5, <2>6, <2>9, <3>1, OnlineStep, Zenon
  <2>11. CASE t.op \in Offline
    <3>1. Owns(p) /\ Owner(s)
      BY <1>1, <2>1, <2>11 DEF Owns, Owner, Rolling, Offline
    <3>2. Unfinished' \subseteq {t.rel}
      BY <2>6, <3>1, OwnerFacts
    <3>3. NoneActive' /\ After(t.rel)' = After(t.rel)
      BY <1>1, <2>8, <2>11 DEF NoneActive, After
    <3>4. SharedInv'
      <4>1. DownInv'
        <5>1. (Down' <=> Down) /\ (NoneActive' <=> NoneActive) /\ \A r : After(r)' = After(r)
          BY <1>1 DEF Down, NoneActive, After
        <5> QED BY <1>1, <2>6, <5>1, Here DEF DownInv
      <4>2. NoMixedTraffic' /\ ContainmentHolds'
        BY <1>1, <2>6, Here DEF NoMixedTraffic, ContainmentHolds
      <4> QED BY <2>5, <2>9, <4>1, <4>2 DEF SharedInv
    <3>5. PassedInv(s)' /\ GateInv(s)' /\ Follows(s, t)
      BY <1>1, <2>1, <3>1, <3>2, OwnerPassed
    <3>6. RolloutInv(s)'
      <4>1. Replaced(s)'
        <5>1. \A k \in DOMAIN Order : ~ (k < s.i)
          BY <2>1, <2>2, OrderFacts
        <5> QED BY <2>1, <5>1 DEF Replaced, Done
      <4> QED BY <1>1, <2>1, <2>8, <2>11, <3>3, <4>1 DEF RolloutInv, Done
    <3>7. MigrationInv(s)' /\ ContainInv(s)'
      BY <2>1 DEF MigrationInv, ContainInv, Deploying
    <3>8. LocalInv(s)'
      BY <2>3, <3>5, <3>6, <3>7 DEF LocalInv
    <3>9. \A r \in Releases : ledger[r] \subseteq ledger'[r]
      BY <1>1
    <3> QED BY <1>1, <2>1, <2>6, <3>1, <3>2, <3>4, <3>5, <3>8, <3>9, OwnerStep, Zenon
  <2> QED BY <2>2, <2>10, <2>11 DEF Offline
<1> QED BY <1>1, <1>2, <1>3 DEF WriteRecord

-----------------------------------------------------------------------------
(* Containment.                                                            *)
LEMMA ContainRoutesTo ==
  ASSUME IInv, NEW p \in Runs, NEW s \in Locals, run' = [run EXCEPT ![p] = s],
         run[p].at = "contain_routes", s.at = "contain_apps", s.op = run[p].op, s.rel = run[p].rel, s.existing = run[p].existing,
         routes' = "maintenance" \/ (routes' = routes /\ s.dirty),
         PlatformType', UNCHANGED <<record, ledger, review, schema, job, image, replicas, pod, scalers>>
  PROVE  IInv'
<1> SUFFICES ASSUME NEW t, t = run[p] PROVE IInv'
  OBVIOUS
<1>1. s.at = "contain_apps" /\ s.op = t.op /\ s.rel = t.rel /\ s.existing = t.existing
  OBVIOUS
<1>2. t.op \in {"maintenance", "recover"} /\ ~ t.existing
  BY Here DEF PlaceInv, PlacesOf, Rolling, Deploying
<1>3. Owns(p) /\ Owner(s)
  BY <1>1, <1>2 DEF Owns, Owner, Cleanup
<1>4. PlaceInv(s)'
  BY <1>1, <1>2 DEF PlaceInv, PlacesOf, Cleanup
<1>5. Unfinished' = Unfinished /\ Recovering' = Recovering /\ Released' = Released /\ Unfinished' \subseteq {t.rel}
  BY <1>3, UnfinishedFrame, OwnerFacts
<1>6. SharedInv'
  <2>1. CatalogType' /\ DataType'
    BY Here DEF CatalogType, DataType
  <2>2. LedgerInv' /\ DownInv'
    BY Here, LedgerFrame, DownFrame
  <2>3. NoMixedTraffic' /\ ContainmentHolds'
    BY <1>5, Here DEF NoMixedTraffic, ContainmentHolds
  <2> QED BY <2>1, <2>2, <2>3 DEF SharedInv
<1>7. PassedInv(s)' /\ GateInv(s)' /\ Follows(s, t)
  BY <1>1, <1>3, <1>5, OwnerPassed DEF Cleanup
<1>8. ContainInv(s)'
  BY <1>1 DEF ContainInv
<1>9. MigrationInv(s)' /\ RolloutInv(s)'
  BY <1>1 DEF MigrationInv, RolloutInv, Deploying, Rolling
<1>10. LocalInv(s)'
  BY <1>4, <1>7, <1>8, <1>9 DEF LocalInv
<1>11. /\ \A r \in Releases : ledger[r] \subseteq ledger'[r]
       /\ \A r \in Released : record'[r] # None
  BY DEF Released
<1> QED BY <1>1, <1>3, <1>5, <1>6, <1>7, <1>10, <1>11, OwnerStep, Zenon

LEMMA ContainRoutesStep ==
  ASSUME IInv, NEW p \in Runs, ContainRoutes(p) PROVE IInv'
<1> DEFINE t == run[p]
           s == [t EXCEPT !.at = "contain_apps"]
           noted == [t EXCEPT !.at = "contain_apps", !.dirty = TRUE]
<1>1. /\ t.at = "contain_routes"
      /\ UNCHANGED <<record, ledger, review, schema, job, image, replicas, pod, scalers, bound, kafka, headroom>>
  BY DEF ContainRoutes, At, records, db, apps, platform
<1>2. /\ s \in Locals /\ s.at = "contain_apps" /\ s.op = t.op /\ s.rel = t.rel /\ s.existing = t.existing
      /\ s.dirty = t.dirty
  BY Known DEF Locals, Cleanup
<1>3. /\ noted \in Locals /\ noted.at = "contain_apps" /\ noted.op = t.op /\ noted.rel = t.rel
      /\ noted.existing = t.existing /\ noted.dirty
  BY Known DEF Locals, Cleanup
<1>4. CASE routes' = "maintenance" /\ Goto(p, "contain_apps") /\ UNCHANGED faults
  <2>1. PlatformType'
    BY <1>1, <1>4, Known DEF SharedInv, PlatformType
  <2>2. run' = [run EXCEPT ![p] = s]
    BY <1>4, Known DEF Goto, Locals
  <2>3. routes' = "maintenance"
    BY <1>4
  <2> HIDE DEF s
  <2> QED BY <1>1, <1>2, <2>1, <2>2, <2>3, ContainRoutesTo
<1>5. CASE /\ faults < MaxFaults /\ faults' = faults + 1
           /\ UNCHANGED routes
           /\ run' = [run EXCEPT ![p].at = "contain_apps", ![p].dirty = TRUE]
  <2>1. PlatformType'
    BY <1>1, <1>5, Faulted
  <2>2. run' = [run EXCEPT ![p] = noted]
    BY <1>5, Known DEF Locals
  <2> HIDE DEF noted
  <2> QED BY <1>1, <1>3, <1>5, <2>1, <2>2, ContainRoutesTo
<1> QED BY <1>4, <1>5 DEF ContainRoutes

LEMMA ContainAppsTo ==
  ASSUME IInv, NEW p \in Runs, NEW s \in Locals, run' = [run EXCEPT ![p] = s],
         run[p].at = "contain_apps", s.at = "mark_failed", s.op = run[p].op, s.rel = run[p].rel, s.existing = run[p].existing,
         replicas' \in [Apps -> BOOLEAN],
         \A a \in Apps : replicas'[a] => replicas[a] /\ s.dirty, s.dirty \/ s.dirty = run[p].dirty,
         PlatformType', UNCHANGED <<record, ledger, review, schema, job, image, pod, routes, scalers>>
  PROVE  IInv'
<1> SUFFICES ASSUME NEW t, t = run[p] PROVE IInv'
  OBVIOUS
<1>1. s.at = "mark_failed" /\ s.op = t.op /\ s.rel = t.rel /\ s.existing = t.existing
  OBVIOUS
<1>2. t.op \in {"maintenance", "recover"} /\ ~ t.existing
  BY Here DEF PlaceInv, PlacesOf, Rolling, Deploying
<1>3. Owns(p) /\ Owner(s) /\ Owner(t)
  BY <1>1, <1>2 DEF Owns, Owner, Cleanup
<1>4. PlaceInv(s)'
  BY <1>1, <1>2 DEF PlaceInv, PlacesOf, Cleanup
<1>5. Unfinished' = Unfinished /\ Recovering' = Recovering /\ Released' = Released /\ Unfinished' \subseteq {t.rel}
  BY <1>3, UnfinishedFrame, OwnerFacts
<1>6. SharedInv'
  <2>1. CatalogType' /\ DataType'
    BY Here DEF CatalogType, DataType
  <2>2. LedgerInv'
    BY Here, LedgerFrame
  <2>3. DownInv'
    <3>1. (Down => Down') /\ (NoneActive' <=> NoneActive) /\ \A r : After(r)' = After(r)
      BY DEF Down, NoneActive, After
    <3> QED BY <1>5, <3>1, Here DEF DownInv
  <2>4. NoMixedTraffic' /\ ContainmentHolds'
    BY <1>5, Here DEF NoMixedTraffic, ContainmentHolds
  <2> QED BY <2>1, <2>2, <2>3, <2>4 DEF SharedInv
<1>7. PassedInv(s)' /\ GateInv(s)' /\ Follows(s, t)
  BY <1>1, <1>3, <1>5, OwnerPassed DEF Cleanup
<1>8. ContainInv(s)'
  <2>1. ~ s.dirty => routes = "maintenance"
    BY <1>3, Here DEF ContainInv
  <2> QED BY <1>1, <2>1 DEF ContainInv
<1>9. MigrationInv(s)' /\ RolloutInv(s)'
  BY <1>1 DEF MigrationInv, RolloutInv, Deploying, Rolling
<1>10. LocalInv(s)'
  BY <1>4, <1>7, <1>8, <1>9 DEF LocalInv
<1>11. /\ \A r \in Releases : ledger[r] \subseteq ledger'[r]
       /\ \A r \in Released : record'[r] # None
  BY DEF Released
<1> QED BY <1>1, <1>3, <1>5, <1>6, <1>7, <1>10, <1>11, OwnerStep, Zenon

LEMMA ContainAppsStep ==
  ASSUME IInv, NEW p \in Runs, ContainApps(p) PROVE IInv'
<1> DEFINE t == run[p]
           s == [t EXCEPT !.at = "mark_failed"]
           noted == [t EXCEPT !.at = "mark_failed", !.dirty = TRUE]
<1>1. /\ t.at = "contain_apps"
      /\ UNCHANGED <<record, ledger, review, schema, job, image, pod, routes, scalers, bound, kafka, headroom>>
  BY DEF ContainApps, At, records, db, edge, platform
<1>2. /\ s \in Locals /\ s.at = "mark_failed" /\ s.op = t.op /\ s.rel = t.rel /\ s.existing = t.existing
      /\ s.dirty = t.dirty
  BY Known DEF Locals, Cleanup
<1>3. /\ noted \in Locals /\ noted.at = "mark_failed" /\ noted.op = t.op /\ noted.rel = t.rel
      /\ noted.existing = t.existing /\ noted.dirty
  BY Known DEF Locals, Cleanup
<1>4. CASE replicas' = [a \in Apps |-> FALSE] /\ Goto(p, "mark_failed") /\ UNCHANGED faults
  <2>1. PlatformType'
    BY <1>1, <1>4, Known DEF SharedInv, PlatformType
  <2>2. run' = [run EXCEPT ![p] = s]
    BY <1>4, Known DEF Goto, Locals
  <2>3. replicas' \in [Apps -> BOOLEAN] /\ \A a \in Apps : ~ replicas'[a]
    BY <1>4
  <2> HIDE DEF s
  <2> QED BY <1>1, <1>2, <2>1, <2>2, <2>3, ContainAppsTo
<1>5. CASE /\ faults < MaxFaults /\ faults' = faults + 1
           /\ \E stuck \in Apps : replicas' = [a \in Apps |-> a = stuck /\ replicas[a]]
           /\ run' = [run EXCEPT ![p].at = "mark_failed", ![p].dirty = TRUE]
  <2>1. PlatformType'
    BY <1>1, <1>5, Faulted
  <2>2. run' = [run EXCEPT ![p] = noted]
    BY <1>5, Known DEF Locals
  <2>3. replicas' \in [Apps -> BOOLEAN] /\ \A a \in Apps : replicas'[a] => replicas[a]
    <3>1. PICK stuck \in Apps : replicas' = [a \in Apps |-> a = stuck /\ replicas[a]]
      BY <1>5
    <3>2. \A a \in Apps : replicas[a] \in BOOLEAN
      BY Here DEF DataType
    <3> QED BY <3>1, <3>2
  <2> HIDE DEF noted
  <2> QED BY <1>1, <1>3, <1>5, <2>1, <2>2, <2>3, ContainAppsTo
<1> QED BY <1>4, <1>5 DEF ContainApps

LEMMA MarkFailedStep ==
  ASSUME IInv, NEW p \in Runs, MarkFailed(p) PROVE IInv'
<1> SUFFICES ASSUME NEW t, t = run[p] PROVE IInv'
  OBVIOUS
<1> DEFINE suffix == IF t.op = "recover" THEN "recovery-failed" ELSE "failed"
           noted == IF t.op = "recover" THEN "recovery-failed-unverified" ELSE "failed-unverified"
           added == {suffix} \union (IF t.dirty THEN {noted} ELSE {})
<1>1. /\ t.at = "mark_failed" /\ End(p)
      /\ UNCHANGED <<record, review, schema, job, image, replicas, pod, routes, bound, scalers, kafka, headroom>>
  BY DEF MarkFailed, At, db, apps, edge, platform
<1>2. CASE faults < MaxFaults /\ faults' = faults + 1 /\ UNCHANGED ledger
  <2>1. UNCHANGED <<records, db, apps, routes, scalers>> /\ PlatformType'
    BY <1>1, <1>2, Faulted DEF records, db, apps
  <2> QED BY <1>1, <2>1, EndStep
<1>3. CASE ledger' = [ledger EXCEPT ![t.rel] = @ \union {suffix} \union (IF t.dirty THEN {noted} ELSE {})] /\ UNCHANGED faults
  <2>1. t.op \in {"maintenance", "recover"} /\ t.rel \in Releases
    BY <1>1, Here DEF PlaceInv, PlacesOf, Rolling, Deploying
  <2>2. Owns(p) /\ Owner(t)
    BY <1>1, <2>1 DEF Owns, Owner, Cleanup
  <2>3. /\ added \subseteq Suffixes \union Unverified /\ "started" \notin added /\ "recovery-started" \notin added
        /\ t.op = "maintenance" /\ t.dirty => "failed-unverified" \in added
    BY <2>1 DEF Suffixes, Unverified
  <2>4. \A r \in Releases : ledger'[r] = IF r = t.rel THEN ledger[r] \union added ELSE ledger[r]
    BY <1>3, <2>1, Here DEF CatalogType
  <2>5. ledger' \in [Releases -> SUBSET (Suffixes \union Unverified)]
    BY <1>3, <2>1, <2>3, Here DEF CatalogType
  <2> HIDE DEF suffix, noted, added
  <2>6. Started' = Started /\ Recovering' = Recovering /\ Released' = Released /\ Unfinished' = Unfinished
    BY <1>1, <2>3, <2>4 DEF Started, Recovering, Released, Unfinished
  <2>7. SharedInv'
    <3>1. CatalogType' /\ DataType' /\ PlatformType'
      BY <1>1, <1>3, <2>5, Known DEF SharedInv, CatalogType, DataType, PlatformType
    <3>2. (Down' <=> Down) /\ (NoneActive' <=> NoneActive) /\ \A r : After(r)' = After(r)
      BY <1>1 DEF Down, NoneActive, After
    <3>3. LedgerInv'
      <4>1. t.rel \in Started
        BY <2>1, <2>2, OwnerFacts DEF Started
      <4> QED BY <1>1, <2>4, <2>6, <3>2, <4>1, Here DEF LedgerInv
    <3>4. DownInv' /\ NoMixedTraffic'
      BY <1>1, <2>6, <3>2, Here DEF DownInv, NoMixedTraffic
    <3>5. ContainmentHolds'
      <4> SUFFICES ASSUME NEW r \in Unfinished, "failed" \in ledger'[r], "failed-unverified" \notin ledger'[r],
                          r \notin Recovering
                   PROVE  routes = "maintenance" /\ ~ scalers /\ \A a \in Apps : ~ replicas[a]
        BY <1>1, <2>6 DEF ContainmentHolds
      <4>1. r = t.rel
        BY <2>2, OwnerFacts
      <4>2. t.op = "maintenance" /\ ~ t.dirty
        BY <2>1, <2>2, <2>3, <2>4, <4>1, OwnerFacts
      <4> QED BY <1>1, <2>2, <4>1, <4>2, Here DEF ContainInv, DownInv
    <3> QED BY <3>1, <3>3, <3>4, <3>5 DEF SharedInv
  <2>8. LocalInv(Idle)'
    <3>1. PlaceInv(Idle)' /\ PassedInv(Idle)' /\ ~ Owner(Idle)'
      BY DEF Idle, PlaceInv, PlacesOf, Cleanup, PassedInv, Owner, Offline
    <3>2. GateInv(Idle)' /\ MigrationInv(Idle)' /\ RolloutInv(Idle)' /\ ContainInv(Idle)'
      BY <3>1 DEF Idle, GateInv, MigrationInv, RolloutInv, ContainInv, Offline
    <3> QED BY <3>1, <3>2 DEF LocalInv
  <2>9. \A r \in Releases : ledger[r] \subseteq ledger'[r]
    BY <2>4
  <2>10. (\A r \in Released : record'[r] # None) /\ Unfinished' \subseteq {t.rel}
    BY <1>1, <2>2, <2>6, OwnerFacts DEF Released
  <2> QED BY <1>1, <2>2, <2>7, <2>8, <2>9, <2>10, OwnerStep, IdleKept, Zenon DEF End
<1> QED BY <1>1, <1>2, <1>3 DEF MarkFailed

-----------------------------------------------------------------------------
(* The lock.                                                               *)
LEMMA LockStep ==
  ASSUME IInv, NEW p \in Runs, Lock(p) PROVE IInv'
<1> SUFFICES ASSUME NEW t, t = run[p],
                    NEW suffix, suffix = (IF t.op = "recover" THEN "recovery-started" ELSE "started"),
                    NEW s, s = [t EXCEPT !.at = IF t.op = "recover" THEN "events" ELSE "existing"]
             PROVE  IInv'
  OBVIOUS
<1>1. /\ t.at = "lock"
      /\ UNCHANGED <<record, review, schema, job, image, replicas, pod, routes, bound, scalers, kafka, headroom, faults>>
  BY DEF Lock, At, db, apps, edge, platform
<1>2. t.op \in {"maintenance", "recover"} /\ t.op \in Offline /\ t.i = 1 /\ ~ t.existing /\ t.rel \in Releases
  BY <1>1, Here DEF PlaceInv, PlacesOf, Rolling, Deploying, Cleanup, Offline
<1>3. /\ t.op = "maintenance" => suffix = "started" /\ suffix # "failed" /\ suffix # "recovery-started"
      /\ t.op = "recover" => suffix = "recovery-started"
  OBVIOUS
<1>4. CASE Raise(p) /\ UNCHANGED ledger
  <2>1. UNCHANGED <<records, db, apps, edge, platform, faults>>
    BY <1>1, <1>4 DEF records, db, apps, edge, platform
  <2> QED BY <1>4, <2>1, Frame, RaiseStep
<1>5. CASE /\ suffix \notin ledger[t.rel]
           /\ ledger' = [ledger EXCEPT ![t.rel] = @ \union {suffix}]
           /\ Goto(p, IF t.op = "recover" THEN "events" ELSE "existing")
  <2>1. /\ run' = [run EXCEPT ![p] = s] /\ s \in Locals /\ s.at = (IF t.op = "recover" THEN "events" ELSE "existing")
        /\ s.op = t.op /\ s.rel = t.rel /\ s.i = t.i /\ s.existing = t.existing /\ s.current = t.current
    BY <1>5, Known DEF Goto, Locals, Rolling, Deploying
  <2>2. Fresh(t) /\ t.rel \notin Released /\ Unfinished \subseteq {t.rel}
    <3>1. Fresh(t)
      BY <1>5 DEF Fresh
    <3> QED BY <1>1, <1>2, <3>1, Here DEF PassedInv, Gates
  <2>3. /\ t.op = "maintenance" => /\ routes = "maintenance" /\ ~ scalers /\ NoneActive /\ schema = review[t.rel]
                                   /\ t.rel \notin Started /\ "failed" \notin ledger[t.rel]
        /\ t.op = "recover" => /\ NoneActive /\ schema = After(t.rel) /\ t.current = After(t.rel)
                               /\ {"started", "failed"} \subseteq ledger[t.rel]
    <3>1. t.op = "maintenance" => "started" \notin ledger[t.rel]
      BY <2>2 DEF Fresh
    <3>2. t.op = "maintenance" => t.rel \notin Started /\ "failed" \notin ledger[t.rel]
      BY <1>2, <3>1, Here DEF LedgerInv, Started
    <3>3. t.op = "recover" => {"started", "failed"} \subseteq ledger[t.rel]
      BY <1>1, Here DEF PassedInv
    <3> QED BY <1>1, <2>2, <3>2, <3>3, Here DEF GateInv
  <2>4. \A r \in Releases : ledger'[r] = IF r = t.rel THEN ledger[r] \union {suffix} ELSE ledger[r]
    BY <1>2, <1>5, Here DEF CatalogType
  <2>5. ledger' \in [Releases -> SUBSET (Suffixes \union Unverified)]
    BY <1>2, <1>5, Here DEF CatalogType, Suffixes
  <2>6. /\ Released' = Released /\ Unfinished' = {t.rel}
        /\ \A r \in Releases \ {t.rel} : (r \in Started' <=> r \in Started) /\ (r \in Recovering' <=> r \in Recovering)
        /\ t.rel \in Started'
        /\ (t.op = "maintenance" => t.rel \notin Recovering') /\ (t.op = "recover" => t.rel \in Recovering')
    <3>1. /\ Released' = Released
          /\ \A r \in Releases \ {t.rel} : (r \in Started' <=> r \in Started) /\ (r \in Recovering' <=> r \in Recovering)
      BY <1>1, <2>4 DEF Started, Recovering, Released
    <3>2. CASE t.op = "maintenance"
      <4>1. t.rel \notin Recovering
        BY <2>3, <3>2, Here DEF LedgerInv, Started
      <4>2. t.rel \in Started' /\ t.rel \notin Recovering'
        BY <1>2, <1>3, <2>4, <3>2, <4>1 DEF Started, Recovering
      <4> QED BY <1>2, <2>2, <3>1, <3>2, <4>2 DEF Unfinished, Started, Recovering
    <3>3. CASE t.op = "recover"
      <4>1. t.rel \in Started' /\ t.rel \in Recovering'
        BY <1>2, <2>3, <2>4, <3>3 DEF Started, Recovering
      <4> QED BY <1>2, <2>2, <3>1, <3>3, <4>1 DEF Unfinished, Started, Recovering
    <3> QED BY <1>2, <3>2, <3>3
  <2>7. (Down' <=> Down) /\ (NoneActive' <=> NoneActive) /\ (\A r : After(r)' = After(r))
        /\ \A r \in Releases : ledger[r] \subseteq ledger'[r]
    BY <1>1, <2>4 DEF Down, NoneActive, After
  <2>8. SharedInv'
    <3>1. CatalogType' /\ DataType' /\ PlatformType'
      BY <1>1, <2>5, Known DEF SharedInv, CatalogType, DataType, PlatformType
    <3>2. LedgerInv'
      <4> SUFFICES ASSUME NEW r \in Releases
                   PROVE  /\ r \in Recovering' => {"started", "failed"} \subseteq ledger'[r]
                          /\ "failed" \in ledger'[r] => r \in Started'
                          /\ r \in Started' => review[r] \in Schemas
                          /\ r \in Started' /\ r \in Released => record[r] = After(r)
        BY <1>1, <2>6, <2>7 DEF LedgerInv
      <4>1. CASE r # t.rel
        BY <2>4, <2>6, <4>1, Here DEF LedgerInv
      <4>2. CASE r = t.rel /\ t.op = "maintenance"
        BY <2>2, <2>3, <2>4, <2>6, <4>2, Here DEF DataType
      <4>3. CASE r = t.rel /\ t.op = "recover"
        <5>1. r \in Started
          BY <2>3, <4>3 DEF Started
        <5>2. {"started", "failed"} \subseteq ledger'[r]
          BY <2>3, <2>7, <4>3
        <5> QED BY <2>2, <2>6, <4>3, <5>1, <5>2, Here DEF LedgerInv
      <4> QED BY <1>2, <4>1, <4>2, <4>3
    <3>3. DownInv'
      <4>1. ~ scalers /\ NoneActive /\ schema \in {review[t.rel], After(t.rel)}
        <5>1. t.op = "recover" => t.rel \in Unfinished
          BY <1>2, <2>2, <2>3 DEF Unfinished, Started, Released
        <5> QED BY <1>2, <2>3, <5>1, Here DEF DownInv
      <4>2. \A r \in (Recovering \ Released)' : r = t.rel /\ t.op = "recover"
        <5>1. (Recovering \ Released)' \subseteq Unfinished'
          BY DEF Unfinished
        <5> QED BY <1>2, <2>6, <5>1
      <4> QED BY <1>1, <2>3, <2>6, <2>7, <4>1, <4>2 DEF DownInv
    <3>4. NoMixedTraffic'
      <4>1. CASE t.op = "maintenance"
        BY <1>1, <2>3, <4>1 DEF NoMixedTraffic
      <4>2. CASE t.op = "recover"
        <5>1. t.rel \in Unfinished
          BY <1>2, <2>2, <2>3, <4>2 DEF Unfinished, Started, Released
        <5> QED BY <1>1, <2>6, <5>1, Here DEF NoMixedTraffic
      <4> QED BY <1>2, <4>1, <4>2
    <3>5. ContainmentHolds'
      <4>1. t.op = "maintenance" => "failed" \notin ledger'[t.rel]
        BY <1>2, <1>3, <2>3, <2>4
      <4> QED BY <1>2, <2>6, <4>1 DEF ContainmentHolds
    <3> QED BY <3>1, <3>2, <3>3, <3>4, <3>5 DEF SharedInv
  <2>9. LocalInv(s)'
    <3>1. PlaceInv(s)'
      BY <1>2, <2>1 DEF PlaceInv, PlacesOf, Deploying, OfflineRolling, Rolling, Cleanup
    <3>2. PassedInv(s)'
      <4>1. s.at \notin Gates \union Cleanup \union {"return"} /\ s.rel \notin Released'
        BY <1>2, <2>1, <2>2, <2>6 DEF Gates, Cleanup
      <4>2. /\ "started" \in ledger'[s.rel]
            /\ s.op = "recover" => "recovery-started" \in ledger'[s.rel] /\ {"started", "failed"} \subseteq ledger'[s.rel]
            /\ s.op = "maintenance" => "failed" \notin ledger'[s.rel]
        <5>1. ledger'[s.rel] = ledger[t.rel] \union {suffix}
          BY <1>2, <2>1, <2>4
        <5>2. CASE t.op = "maintenance"
          BY <1>3, <2>1, <2>3, <5>1, <5>2
        <5>3. CASE t.op = "recover"
          BY <1>3, <2>1, <2>3, <5>1, <5>3
        <5> QED BY <1>2, <5>2, <5>3
      <4> QED BY <1>2, <2>1, <2>6, <4>1, <4>2 DEF PassedInv
    <3>3. GateInv(s)' /\ ContainInv(s)'
      BY <1>2, <2>1 DEF GateInv, ContainInv
    <3>4. MigrationInv(s)'
      <4> SUFFICES ASSUME t.op = "maintenance" PROVE MigrationInv(s)'
        BY <2>1 DEF MigrationInv
      <4>1. \A j \in Jobs : ~ (j < s.i) /\ job'[j].status # "active" /\ schema'[j] = review'[s.rel][j]
        BY <1>1, <1>2, <2>1, <2>3, JobAssumption DEF Jobs, NoneActive
      <4> QED BY <2>1, <4>1 DEF MigrationInv
    <3>5. RolloutInv(s)'
      <4> SUFFICES ASSUME t.op = "recover" PROVE RolloutInv(s)'
        BY <1>2, <2>1 DEF RolloutInv, Rolling
      <4>1. \A k \in DOMAIN Order : ~ (k < s.i)
        BY <1>2, <2>1, OrderFacts
      <4>2. Replaced(s)'
        BY <2>1, <4>1 DEF Replaced, Done
      <4> QED BY <1>1, <2>1, <2>3, <2>7, <4>2 DEF RolloutInv, Done
    <3> QED BY <3>1, <3>2, <3>3, <3>4, <3>5 DEF LocalInv
  <2>10. ASSUME NEW q \in Runs \ {p}, NEW u, u = run[q]
         PROVE  TogetherInv(s, u) /\ LocalInv(u)'
    <3>1. /\ TogetherInv(t, u) /\ u \in Locals /\ PlaceInv(u) /\ PassedInv(u) /\ GateInv(u)
          /\ u.op \in {"deploy", "rollback", "maintenance", "recover"} /\ u.rel \in Releases
      BY <2>10, Known, Here
    <3>2. (u.at # "idle" => u.op \in Offline /\ u.rel = t.rel) /\ (u.at = "idle" => u.op = "deploy")
      BY <1>1, <1>2, <3>1 DEF TogetherInv, PlaceInv, PlacesOf, Offline, Deploying, Rolling, Cleanup, OfflineRolling
    <3>3. ~ Owner(u)
      <4> SUFFICES ASSUME Owner(u) PROVE FALSE
        OBVIOUS
      <4>1. u.at # "idle" /\ u.rel = t.rel
        BY <3>2 DEF Owner, Deploying, Rolling, Cleanup
      <4>2. "started" \in ledger[t.rel] /\ (IF u.op = "recover" THEN "recovery-started" \in ledger[t.rel] ELSE "failed" \notin ledger[t.rel])
        BY <3>1, <4>1 DEF PassedInv
      <4> QED BY <1>2, <2>2, <2>3, <4>2 DEF Fresh
    <3>4. TogetherInv(s, u)
      BY <1>1, <2>1, <3>1, <3>3 DEF TogetherInv
    <3>5. Fresh(u)' => Fresh(u)
      BY <2>7, <3>1 DEF Fresh
    <3>6. ~ Owner(u)'
      BY <3>3 DEF Owner
    <3>7. PassedInv(u)'
      <4>1. u.at \notin {"idle", "guard", "recover_guard"} => u.op \in Offline /\ Unfinished' \subseteq {u.rel}
        BY <2>6, <3>2
      <4>2. u.op = "recover" /\ u.at # "recover_guard" => {"started", "failed"} \subseteq ledger'[u.rel]
        BY <2>7, <3>1 DEF PassedInv
      <4>3. u.op \in Offline /\ u.at \in Gates \ {"guard", "recover_guard"} /\ Fresh(u)' => u.rel \notin Released'
        BY <2>6, <3>1, <3>5 DEF PassedInv
      <4> QED BY <3>6, <4>1, <4>2, <4>3 DEF PassedInv, Offline
    <3>8. GateInv(u)'
      BY <1>1, <2>7, <3>1, <3>5 DEF GateInv
    <3>9. MigrationInv(u)' /\ RolloutInv(u)' /\ ContainInv(u)'
      <4>1. ~ (u.op = "maintenance" /\ u.at \in Deploying) /\ ~ (u.op \in Offline /\ u.at \in Rolling)
        <5>1. u.op = "maintenance" => u.at \notin Deploying \union Rolling
          BY <3>3 DEF Owner
        <5>2. u.op = "recover" => u.at \notin Rolling
          BY <3>3 DEF Owner
        <5> QED BY <5>1, <5>2 DEF Offline
      <4> QED BY <3>6, <4>1 DEF MigrationInv, RolloutInv, ContainInv
    <3>10. PlaceInv(u)'
      BY <3>1 DEF PlaceInv
    <3> QED BY <3>4, <3>7, <3>8, <3>9, <3>10 DEF LocalInv
  <2>11. \A q \in Runs \ {p} : TogetherInv(s, run[q])
    BY <2>10
  <2>12. ASSUME NEW q \in Runs \ {p}, NEW u, u = run[q] PROVE LocalInv(u)'
    BY <2>10, <2>12
  <2> QED BY <2>1, <2>8, <2>9, <2>11, <2>12, RunStep, Zenon
<1> QED BY <1>1, <1>4, <1>5 DEF Lock

-----------------------------------------------------------------------------
(* An operator starts the tool.                                            *)
LEMMA InvokeStep ==
  ASSUME IInv, NEW p \in Runs, NEW op \in Ops, NEW r \in Releases, Invoke(p, op, r) PROVE IInv'
<1> SUFFICES ASSUME NEW s,
                    s = [Idle EXCEPT !.at = IF op = "recover" THEN "recover_guard" ELSE "guard", !.op = op, !.rel = r]
             PROVE  IInv'
  OBVIOUS
<1>1. /\ run[p].at = "idle" /\ run' = [run EXCEPT ![p] = s]
      /\ \A q \in Runs : run[q].at = "idle" \/ (run[q].rel = r /\ (run[q].op \in Offline <=> op \in Offline))
      /\ review' = IF op = "maintenance" /\ r \notin Started \union Released
                   THEN [review EXCEPT ![r] = schema] ELSE review
      /\ UNCHANGED <<record, ledger, schema, job, image, replicas, pod, routes, bound, scalers, kafka, headroom, faults>>
  BY DEF Invoke, At, db, apps, edge, platform
<1>2. /\ s \in Locals /\ s.at = (IF op = "recover" THEN "recover_guard" ELSE "guard") /\ s.op = op /\ s.rel = r
      /\ s.i = 1 /\ ~ s.existing
  BY IdleKept DEF Idle, Locals, Gates
<1>3. op \in {"deploy", "rollback", "maintenance", "recover"}
  BY OpsAssumption
<1>4. /\ review' \in [Releases -> Schemas \union {None}]
      /\ \A x \in Releases : review'[x] = review[x] \/ (x = r /\ x \notin Started /\ review'[x] = schema)
  BY <1>1, Here DEF CatalogType, DataType
<1>5. Unfinished' = Unfinished /\ Recovering' = Recovering /\ Released' = Released /\ Started' = Started
  BY <1>1 DEF Unfinished, Recovering, Released, Started
<1>6. (Down' <=> Down) /\ (NoneActive' <=> NoneActive)
  BY <1>1 DEF Down, NoneActive
<1>7. \A x \in Started : x \in Releases /\ review'[x] = review[x] /\ After(x)' = After(x)
  <2> SUFFICES ASSUME NEW x \in Started PROVE x \in Releases /\ review'[x] = review[x] /\ After(x)' = After(x)
    OBVIOUS
  <2>1. x \in Releases /\ review'[x] = review[x]
    BY <1>4 DEF Started
  <2> QED BY <2>1 DEF After
<1>8. SharedInv'
  <2>1. CatalogType' /\ DataType' /\ PlatformType'
    BY <1>1, <1>4, Known DEF SharedInv, CatalogType, DataType, PlatformType
  <2>2. LedgerInv'
    BY <1>1, <1>5, <1>7, Here DEF LedgerInv
  <2>3. DownInv'
    <3>1. Unfinished \subseteq Started /\ Recovering \subseteq Started
      BY Here DEF LedgerInv, Unfinished, Started, Recovering
    <3> QED BY <1>1, <1>5, <1>6, <1>7, <3>1, Here DEF DownInv
  <2>4. NoMixedTraffic' /\ ContainmentHolds'
    BY <1>1, Here, TrafficFrame, ContainmentFrame
  <2> QED BY <2>1, <2>2, <2>3, <2>4 DEF SharedInv
<1>9. LocalInv(s)'
  <2>1. PlaceInv(s)'
    BY <1>2, <1>3 DEF PlaceInv, PlacesOf, Cleanup
  <2>2. s.at \in {"guard", "recover_guard"} /\ (s.op = "recover" => s.at = "recover_guard")
    BY <1>2
  <2>3. ~ Owner(s)'
    BY <2>2 DEF Owner, Deploying, Rolling, Cleanup
  <2>4. PassedInv(s)'
    BY <2>2, <2>3 DEF PassedInv
  <2>5. GateInv(s)' /\ MigrationInv(s)' /\ RolloutInv(s)' /\ ContainInv(s)'
    BY <2>2, <2>3 DEF GateInv, MigrationInv, RolloutInv, ContainInv, Deploying, Rolling
  <2> QED BY <2>1, <2>4, <2>5 DEF LocalInv
<1>10. ~ Owner(s)
  BY <1>2 DEF Owner, Deploying, Rolling, Cleanup
<1>11. \A q \in Runs \ {p} : TogetherInv(s, run[q])
  BY <1>1, <1>2, <1>10 DEF TogetherInv
<1>12. ASSUME NEW q \in Runs \ {p}, NEW u, u = run[q] PROVE LocalInv(u)'
  <2>1. /\ u \in Locals /\ PlaceInv(u) /\ PassedInv(u) /\ GateInv(u) /\ MigrationInv(u) /\ RolloutInv(u) /\ ContainInv(u)
        /\ u.rel \in Releases
    BY <1>12, Here
  <2>2. Owner(u) \/ (u.op = "recover" /\ u.at # "recover_guard") => u.rel \in Started
    BY <2>1 DEF PassedInv, Started
  <2>3. PlaceInv(u)' /\ PassedInv(u)' /\ ContainInv(u)'
    BY <1>1, <2>1, PassedFrame, ContainFrame DEF PlaceInv
  <2>4. GateInv(u)'
    <3>1. Fresh(u)' <=> Fresh(u)
      BY <1>1 DEF Fresh
    <3>2. schema = review[u.rel] => schema = review'[u.rel]
      BY <1>4, <2>1
    <3>3. u.op = "recover" /\ u.at \in {"reassert", "lock"} => After(u.rel)' = After(u.rel)
      BY <1>7, <2>2
    <3> QED BY <1>1, <1>6, <2>1, <3>1, <3>2, <3>3 DEF GateInv
  <2>5. MigrationInv(u)'
    <3> SUFFICES ASSUME u.op = "maintenance", u.at \in Deploying PROVE MigrationInv(u)'
      BY DEF MigrationInv
    <3>1. Owner(u)
      BY DEF Owner
    <3>2. review'[u.rel] = review[u.rel] /\ After(u.rel)' = After(u.rel)
      BY <1>7, <2>2, <3>1
    <3> QED BY <1>1, <1>6, <2>1, <3>2 DEF MigrationInv
  <2>6. RolloutInv(u)'
    <3> SUFFICES ASSUME u.op \in Offline, u.at \in Rolling PROVE RolloutInv(u)'
      BY DEF RolloutInv
    <3>1. Owner(u)
      BY DEF Owner, Offline
    <3>2. After(u.rel)' = After(u.rel)
      BY <1>7, <2>2, <3>1
    <3>3. Replaced(u)' <=> Replaced(u)
      BY <1>1 DEF Replaced
    <3> QED BY <1>1, <1>6, <2>1, <3>2, <3>3 DEF RolloutInv
  <2> QED BY <2>3, <2>4, <2>5, <2>6 DEF LocalInv
<1> QED BY <1>1, <1>2, <1>8, <1>9, <1>11, <1>12, RunStep, Zenon

-----------------------------------------------------------------------------
(* Steps of the cluster and of the operator.                               *)
\* The databases: a migration that ends has the applications down.
LEMMA JobEnds ==
  ASSUME IInv, NEW j \in Jobs, job[j].status = "active", NEW st \in {"complete", "failed"},
         job' = [job EXCEPT ![j].status = st],
         \/ schema' = [schema EXCEPT ![j] = @ \union {job[j].of}]
         \/ schema' = schema /\ st = "failed",
         PlatformType', UNCHANGED <<record, ledger, review, image, replicas, pod, routes, scalers, run>>
  PROVE  IInv'
<1> USE DEF SharedInv
<1>1. /\ CatalogType /\ DataType /\ LedgerInv /\ DownInv /\ NoMixedTraffic /\ ContainmentHolds
  BY IInvForm
<1>2. /\ schema \in Schemas /\ job \in [Jobs -> [of : Releases, status : {"active", "complete", "failed"}]]
      /\ job[j] \in [of : Releases, status : {"active", "complete", "failed"}]
  BY <1>1 DEF DataType
<1>3. /\ job'[j].of = job[j].of /\ job'[j].status = st /\ \A k \in Jobs \ {j} : job'[k] = job[k]
      /\ job' \in [Jobs -> [of : Releases, status : {"active", "complete", "failed"}]]
  BY <1>2
<1>4. /\ schema' \in Schemas /\ \A k \in Jobs \ {j} : schema'[k] = schema[k]
      /\ schema'[j] = schema[j] \union {job[j].of} \/ (schema'[j] = schema[j] /\ st = "failed")
  <2>1. CASE schema' = schema /\ st = "failed"
    BY <1>2, <2>1
  <2>2. CASE schema' = [schema EXCEPT ![j] = @ \union {job[j].of}]
    BY <1>2, <2>2 DEF Schemas
  <2> QED BY <2>1, <2>2
<1>5. ~ NoneActive
  BY DEF NoneActive
<1>6. Unfinished' = Unfinished /\ Recovering' = Recovering /\ Released' = Released
  BY UnfinishedFrame
<1>7. SharedInv'
  <2>1. CatalogType' /\ DataType'
    BY <1>1, <1>3, <1>4 DEF CatalogType, DataType
  <2>2. Down' <=> Down
    BY DEF Down
  <2>3. LedgerInv' /\ DownInv'
    BY <1>1, <1>5, <1>6, <2>2, LedgerFrame DEF DownInv
  <2>4. NoMixedTraffic' /\ ContainmentHolds'
    BY <1>1, TrafficFrame, ContainmentFrame
  <2> QED BY <2>1, <2>3, <2>4
<1>8. ASSUME NEW q \in Runs, NEW t, t = run[q] PROVE LocalInv(t)'
  <2>1. /\ PlaceInv(t) /\ PassedInv(t) /\ GateInv(t) /\ MigrationInv(t) /\ RolloutInv(t) /\ ContainInv(t)
        /\ t.rel \in Releases
    BY <1>8, Here
  <2>2. PlaceInv(t)' /\ PassedInv(t)' /\ ContainInv(t)'
    BY <2>1, PassedFrame, ContainFrame DEF PlaceInv
  <2>3. After(t.rel)' = After(t.rel) /\ (Down' <=> Down)
    BY DEF After, Down
  <2>4. GateInv(t)'
    BY <1>5, <2>1, <2>3 DEF GateInv, Fresh
  <2>5. RolloutInv(t)'
    BY <1>5, <2>1 DEF RolloutInv
  <2>6. MigrationInv(t)'
    <3> SUFFICES ASSUME t.op = "maintenance", t.at \in Deploying PROVE MigrationInv(t)'
      BY DEF MigrationInv
    <3>1. t.at = "await_job" /\ j = t.i /\ job[j].of = t.rel
          /\ (schema[j] = After(t.rel)[j] \/ schema[j] = review[t.rel][j])
      BY <2>1 DEF MigrationInv
    <3>2. After(t.rel)[j] = review[t.rel][j] \union {t.rel}
      BY DEF After
    <3>3. schema'[j] = After(t.rel)[j] \/ (job'[j].status # "complete" /\ schema'[j] = review[t.rel][j])
      BY <1>3, <1>4, <3>1, <3>2
    <3>4. \A k \in Jobs \ {j} :
            /\ job'[k].status # "active"
            /\ schema'[k] = IF k < t.i \/ t.at = "after" THEN After(t.rel)[k] ELSE review[t.rel][k]
      BY <1>3, <1>4, <2>1, <3>1 DEF MigrationInv
    <3> QED BY <1>3, <2>1, <2>3, <3>1, <3>3, <3>4 DEF MigrationInv
  <2> QED BY <2>2, <2>4, <2>5, <2>6 DEF LocalInv
<1> QED BY <1>7, <1>8, OtherStep, Zenon

LEMMA MigrationSucceedsStep ==
  ASSUME IInv, NEW j \in Jobs, MigrationSucceeds(j) PROVE IInv'
<1>1. UNCHANGED <<record, ledger, review, image, replicas, pod, routes, bound, scalers, kafka, headroom, run, faults>>
  BY DEF MigrationSucceeds, records, apps, edge, platform
<1>2. PlatformType'
  BY <1>1, IInvForm DEF SharedInv, PlatformType
<1> QED BY <1>1, <1>2, JobEnds DEF MigrationSucceeds

LEMMA MigrationFailsStep ==
  ASSUME IInv, NEW j \in Jobs, MigrationFails(j) PROVE IInv'
<1>1. UNCHANGED <<record, ledger, review, image, replicas, pod, routes, bound, scalers, kafka, headroom, run>>
  BY DEF MigrationFails, records, apps, edge, platform
<1>2. PlatformType'
  BY <1>1, Faulted DEF MigrationFails
<1>3. \/ schema' = [schema EXCEPT ![j] = @ \union {job[j].of}]
      \/ schema' = schema
  BY DEF MigrationFails
<1> QED BY <1>1, <1>2, <1>3, JobEnds DEF MigrationFails

\* The platform: nothing of the invariant is about it but its types.
LEMMA PlatformStep ==
  ASSUME IInv, PlatformType', UNCHANGED <<record, ledger, review, schema, job, image, replicas, pod, routes, scalers, run>>
  PROVE  IInv'
<1>1. SharedInv'
  <2>1. /\ CatalogType /\ DataType /\ LedgerInv /\ DownInv /\ NoMixedTraffic /\ ContainmentHolds
    BY IInvForm DEF SharedInv
  <2>2. CatalogType' /\ DataType'
    BY <2>1 DEF CatalogType, DataType
  <2> QED BY <2>1, <2>2, LedgerFrame, DownFrame, TrafficFrame, ContainmentFrame DEF SharedInv
<1>2. ASSUME NEW q \in Runs, NEW t, t = run[q] PROVE LocalInv(t)'
  <2>1. /\ PlaceInv(t) /\ PassedInv(t) /\ GateInv(t) /\ MigrationInv(t) /\ RolloutInv(t) /\ ContainInv(t)
    BY <1>2, Here
  <2>2. PlaceInv(t)' /\ PassedInv(t)' /\ GateInv(t)'
    BY <2>1, PassedFrame, GateFrame DEF PlaceInv
  <2>3. MigrationInv(t)' /\ RolloutInv(t)' /\ ContainInv(t)'
    BY <2>1, MigrationFrame, RolloutFrame, ContainFrame
  <2> QED BY <2>2, <2>3 DEF LocalInv
<1> QED BY <1>1, <1>2, OtherStep, Zenon

LEMMA BindingsFollowStep ==
  ASSUME IInv, BindingsFollow PROVE IInv'
<1>1. /\ UNCHANGED <<record, ledger, review, schema, job, image, replicas, pod, routes, scalers, kafka, headroom, run, faults>>
      /\ bound' \in BOOLEAN
  BY DEF BindingsFollow, records, db, apps, platform
<1>2. PlatformType'
  BY <1>1, IInvForm DEF SharedInv, PlatformType
<1> QED BY <1>1, <1>2, PlatformStep

LEMMA StrimziStep ==
  ASSUME IInv, Strimzi PROVE IInv'
<1>1. /\ UNCHANGED <<record, ledger, review, schema, job, image, replicas, pod, routes, bound, scalers, headroom, run, faults>>
      /\ kafka' \in BOOLEAN
  BY DEF Strimzi, records, db, apps, edge
<1>2. PlatformType'
  BY <1>1, IInvForm DEF SharedInv, PlatformType
<1> QED BY <1>1, <1>2, PlatformStep

LEMMA HeadroomExpiresStep ==
  ASSUME IInv, HeadroomExpires PROVE IInv'
<1>1. /\ UNCHANGED <<record, ledger, review, schema, job, image, replicas, pod, routes, bound, scalers, kafka, run, faults>>
      /\ headroom' \in Runs \union {None}
  BY DEF HeadroomExpires, records, db, apps, edge
<1>2. PlatformType'
  BY <1>1, IInvForm DEF SharedInv, PlatformType
<1> QED BY <1>1, <1>2, PlatformStep

LEMMA PodsConvergeStep ==
  ASSUME IInv, NEW a \in Apps, PodsConverge(a) PROVE IInv'
<1>1. /\ pod' = [pod EXCEPT ![a] = IF replicas[a] THEN image[a] ELSE None]
      /\ UNCHANGED <<record, ledger, review, schema, job, image, replicas, routes, bound, scalers, kafka, headroom, run, faults>>
  BY DEF PodsConverge, records, db, edge, platform
<1>2. /\ CatalogType /\ DataType /\ PlatformType /\ LedgerInv /\ DownInv /\ NoMixedTraffic /\ ContainmentHolds
  BY IInvForm DEF SharedInv
<1>3. /\ pod' \in [Apps -> Releases \union {None}]
      /\ \A b \in Apps : pod'[b] = IF b = a THEN (IF replicas[a] THEN image[a] ELSE None) ELSE pod[b]
  BY <1>1, <1>2 DEF DataType
<1>4. (Down => Down') /\ (NoneActive' <=> NoneActive) /\ \A r : After(r)' = After(r)
  BY <1>1, <1>3 DEF Down, NoneActive, After
<1>5. Unfinished' = Unfinished /\ Recovering' = Recovering /\ Released' = Released
  BY <1>1, UnfinishedFrame
<1>6. SharedInv'
  <2>1. CatalogType' /\ DataType' /\ PlatformType'
    BY <1>1, <1>2, <1>3 DEF CatalogType, DataType, PlatformType
  <2>2. LedgerInv' /\ ContainmentHolds'
    BY <1>1, <1>2, LedgerFrame, ContainmentFrame
  <2>3. DownInv'
    BY <1>1, <1>2, <1>4, <1>5 DEF DownInv
  <2>4. NoMixedTraffic'
    BY <1>1, <1>2, <1>3, <1>5 DEF NoMixedTraffic
  <2> QED BY <2>1, <2>2, <2>3, <2>4 DEF SharedInv
<1>7. ASSUME NEW q \in Runs, NEW t, t = run[q] PROVE LocalInv(t)'
  <2>1. /\ PlaceInv(t) /\ PassedInv(t) /\ GateInv(t) /\ MigrationInv(t) /\ RolloutInv(t) /\ ContainInv(t)
    BY <1>7, Here
  <2>2. PlaceInv(t)' /\ PassedInv(t)' /\ GateInv(t)' /\ ContainInv(t)'
    BY <1>1, <2>1, PassedFrame, GateFrame, ContainFrame DEF PlaceInv
  <2>3. MigrationInv(t)'
    BY <1>1, <1>4, <2>1 DEF MigrationInv
  <2>4. RolloutInv(t)'
    <3>1. Replaced(t) => Replaced(t)'
      <4> SUFFICES ASSUME Replaced(t), NEW k \in DOMAIN Order, k < t.i \/ t.at \in Done
                   PROVE  pod'[Order[k]] = t.rel
        BY <1>1 DEF Replaced
      <4>1. pod[Order[k]] = t.rel /\ image[Order[k]] = t.rel /\ replicas[Order[k]] /\ Order[k] \in Apps
        BY OrderFacts DEF Replaced
      <4> QED BY <1>3, <4>1
    <3> QED BY <1>1, <1>4, <2>1, <3>1 DEF RolloutInv
  <2> QED BY <2>2, <2>3, <2>4 DEF LocalInv
<1> QED BY <1>1, <1>6, <1>7, OtherStep, Zenon

\* Without an unresolved attempt no run migrates or rolls out offline, and what
\* the checks of a gate found does not depend on the Deployments.
LEMMA AtRest ==
  ASSUME IInv, Unfinished = {}, NEW q \in Runs, NEW t, t = run[q],
         UNCHANGED <<record, ledger, review, schema, job, pod, image, routes, scalers>>
  PROVE  LocalInv(t)'
<1>1. /\ PlaceInv(t) /\ PassedInv(t) /\ GateInv(t) /\ MigrationInv(t) /\ RolloutInv(t) /\ ContainInv(t)
  BY Here
<1>2. PlaceInv(t)' /\ PassedInv(t)' /\ GateInv(t)'
  BY <1>1, PassedFrame, GateFrame DEF PlaceInv
<1>3. Owner(t) => t.at \in Cleanup \union {"return"}
  BY OwnerFacts DEF Owns
<1>4. MigrationInv(t)'
  BY <1>3 DEF MigrationInv, Owner, Deploying, Cleanup
<1>5. RolloutInv(t)'
  <2> SUFFICES ASSUME t.op \in Offline, t.at \in Rolling PROVE RolloutInv(t)'
    BY DEF RolloutInv
  <2>1. t.at = "return"
    BY <1>3 DEF Owner, Offline, Rolling, Cleanup
  <2>2. \A k \in DOMAIN Order : ~ (k < t.i)
    BY <1>1, <2>1, OrderFacts DEF PlaceInv, Cleanup
  <2>3. Replaced(t)'
    BY <2>1, <2>2 DEF Replaced, Done
  <2>4. (NoneActive' <=> NoneActive) /\ After(t.rel)' = After(t.rel)
    BY DEF NoneActive, After
  <2> QED BY <1>1, <2>1, <2>3, <2>4 DEF RolloutInv, Done
<1>6. ContainInv(t)'
  <2>1. Unfinished' = {}
    BY UnfinishedFrame
  <2>2. (Owner(t)' <=> Owner(t))
    BY DEF Owner
  <2> QED BY <1>1, <2>1, <2>2 DEF ContainInv
<1> QED BY <1>2, <1>4, <1>5, <1>6 DEF LocalInv

LEMMA RestStep ==
  ASSUME IInv, Unfinished = {}, replicas' \in [Apps -> BOOLEAN], PlatformType',
         UNCHANGED <<record, ledger, review, schema, job, pod, image, routes, scalers, run>>
  PROVE  IInv'
<1>1. SharedInv'
  <2>1. CatalogType /\ DataType /\ LedgerInv
    BY IInvForm DEF SharedInv
  <2>2. CatalogType' /\ DataType' /\ LedgerInv'
    BY <2>1, LedgerFrame DEF CatalogType, DataType
  <2>3. Unfinished' = {} /\ (Recovering \ Released)' = {}
    BY UnfinishedFrame DEF Unfinished
  <2> QED BY <2>2, <2>3 DEF SharedInv, DownInv, NoMixedTraffic, ContainmentHolds
<1>2. ASSUME NEW q \in Runs, NEW t, t = run[q] PROVE LocalInv(t)'
  BY <1>2, AtRest
<1> QED BY <1>1, <1>2, OtherStep, Zenon

LEMMA KedaStep ==
  ASSUME IInv, NEW a \in Apps, Keda(a) PROVE IInv'
<1>1. /\ scalers /\ replicas' = [replicas EXCEPT ![a] = ~ @]
      /\ UNCHANGED <<record, ledger, review, schema, job, image, pod, routes, bound, scalers, kafka, headroom, run, faults>>
  BY DEF Keda, records, db, edge, platform
<1>2. DataType /\ PlatformType /\ DownInv
  BY IInvForm DEF SharedInv
<1>3. Unfinished = {}
  BY <1>1, <1>2 DEF DownInv
<1>4. replicas' \in [Apps -> BOOLEAN] /\ PlatformType'
  BY <1>1, <1>2 DEF DataType, PlatformType
<1> QED BY <1>1, <1>3, <1>4, RestStep

LEMMA OperatorStartsStep ==
  ASSUME IInv, NEW a \in Apps, OperatorStarts(a) PROVE IInv'
<1>1. /\ Unfinished = {} /\ replicas' = [replicas EXCEPT ![a] = TRUE]
      /\ UNCHANGED <<record, ledger, review, schema, job, image, pod, routes, bound, scalers, kafka, headroom, run, faults>>
  BY DEF OperatorStarts, records, db, edge, platform
<1>2. DataType /\ PlatformType
  BY IInvForm DEF SharedInv
<1>3. replicas' \in [Apps -> BOOLEAN] /\ PlatformType'
  BY <1>1, <1>2 DEF DataType, PlatformType
<1> QED BY <1>1, <1>3, RestStep

LEMMA OperatorRestoresScalersStep ==
  ASSUME IInv, OperatorRestoresScalers PROVE IInv'
<1>1. /\ Unfinished = {} /\ scalers' = TRUE /\ \A q \in Runs : run[q].op \notin Offline
      /\ UNCHANGED <<record, ledger, review, schema, job, image, replicas, pod, routes, bound, kafka, headroom, run, faults>>
  BY DEF OperatorRestoresScalers, records, db, apps, platform
<1>2. CatalogType /\ DataType /\ PlatformType /\ LedgerInv
  BY IInvForm DEF SharedInv
<1>3. Unfinished' = {} /\ (Recovering \ Released)' = {}
  BY <1>1, UnfinishedFrame DEF Unfinished
<1>4. SharedInv'
  <2>1. CatalogType' /\ DataType' /\ PlatformType' /\ LedgerInv'
    BY <1>1, <1>2, LedgerFrame DEF CatalogType, DataType, PlatformType
  <2> QED BY <1>3, <2>1 DEF SharedInv, DownInv, NoMixedTraffic, ContainmentHolds
<1>5. ASSUME NEW q \in Runs, NEW t, t = run[q] PROVE LocalInv(t)'
  BY <1>1, <1>3, <1>5, Here, OnlineLocal
<1> QED BY <1>1, <1>4, <1>5, OtherStep, Zenon

\* What takes the installation down, while nothing is rolled out: the routes, the
\* scalers or a Deployment.
LEMMA DownStep ==
  ASSUME IInv, replicas' \in [Apps -> BOOLEAN], \A a \in Apps : replicas'[a] => replicas[a],
         routes' \in {routes, "maintenance"}, scalers' \in BOOLEAN, scalers' => scalers,
         \/ UNCHANGED <<routes, replicas>>
         \/ \A q \in Runs : run[q].at \notin Rolling,
         PlatformType', UNCHANGED <<record, ledger, review, schema, job, pod, image, run>>
  PROVE  IInv'
<1>1. /\ CatalogType /\ DataType /\ LedgerInv /\ DownInv /\ NoMixedTraffic /\ ContainmentHolds
  BY IInvForm DEF SharedInv
<1>2. (Down => Down') /\ (NoneActive' <=> NoneActive) /\ \A r : After(r)' = After(r)
  BY DEF Down, NoneActive, After
<1>3. Unfinished' = Unfinished /\ Recovering' = Recovering /\ Released' = Released
  BY UnfinishedFrame
<1>4. SharedInv'
  <2>1. CatalogType' /\ DataType' /\ LedgerInv'
    BY <1>1, LedgerFrame DEF CatalogType, DataType
  <2>2. DownInv'
    BY <1>1, <1>2, <1>3 DEF DownInv, DataType
  <2>3. NoMixedTraffic' /\ ContainmentHolds'
    BY <1>1, <1>3 DEF NoMixedTraffic, ContainmentHolds
  <2> QED BY <2>1, <2>2, <2>3 DEF SharedInv
<1>5. ASSUME NEW q \in Runs, NEW t, t = run[q] PROVE LocalInv(t)'
  <2>1. /\ PlaceInv(t) /\ PassedInv(t) /\ GateInv(t) /\ MigrationInv(t) /\ RolloutInv(t) /\ ContainInv(t)
    BY <1>5, Here
  <2>2. PlaceInv(t)' /\ PassedInv(t)'
    BY <2>1, PassedFrame DEF PlaceInv
  <2>3. GateInv(t)'
    <3>1. Fresh(t)' <=> Fresh(t)
      BY DEF Fresh
    <3> QED BY <1>2, <2>1, <3>1 DEF GateInv
  <2>4. MigrationInv(t)'
    BY <1>2, <2>1 DEF MigrationInv
  <2>5. RolloutInv(t)'
    <3>1. CASE UNCHANGED <<routes, replicas>>
      BY <2>1, <3>1, RolloutFrame
    <3>2. CASE t.at \notin Rolling
      BY <3>2 DEF RolloutInv
    <3> QED BY <1>5, <3>1, <3>2
  <2>6. ContainInv(t)'
    <3>1. Owner(t)' <=> Owner(t)
      BY DEF Owner
    <3> QED BY <1>3, <2>1, <3>1 DEF ContainInv
  <2> QED BY <2>2, <2>3, <2>4, <2>5, <2>6 DEF LocalInv
<1> QED BY <1>4, <1>5, OtherStep, Zenon

LEMMA OperatorBlocksStep ==
  ASSUME IInv, OperatorBlocks PROVE IInv'
<1>1. /\ routes' = "maintenance" /\ \A q \in Runs : run[q].at \notin Rolling
      /\ UNCHANGED <<record, ledger, review, schema, job, image, replicas, pod, bound, scalers, kafka, headroom, run, faults>>
  BY DEF OperatorBlocks, records, db, apps, platform
<1>2. DataType /\ PlatformType
  BY IInvForm DEF SharedInv
<1>3. replicas' \in [Apps -> BOOLEAN] /\ PlatformType' /\ scalers' \in BOOLEAN
  BY <1>1, <1>2 DEF DataType, PlatformType
<1> QED BY <1>1, <1>3, DownStep

LEMMA OperatorDeletesScalersStep ==
  ASSUME IInv, OperatorDeletesScalers PROVE IInv'
<1>1. /\ scalers' = FALSE
      /\ UNCHANGED <<record, ledger, review, schema, job, image, replicas, pod, routes, bound, kafka, headroom, run, faults>>
  BY DEF OperatorDeletesScalers, records, db, apps, platform
<1>2. DataType /\ PlatformType
  BY IInvForm DEF SharedInv
<1>3. replicas' \in [Apps -> BOOLEAN] /\ PlatformType'
  BY <1>1, <1>2 DEF DataType, PlatformType
<1> QED BY <1>1, <1>3, DownStep

LEMMA OperatorStopsStep ==
  ASSUME IInv, NEW a \in Apps, OperatorStops(a) PROVE IInv'
<1>1. /\ replicas' = [replicas EXCEPT ![a] = FALSE] /\ \A q \in Runs : run[q].at \notin Rolling
      /\ UNCHANGED <<record, ledger, review, schema, job, image, pod, routes, bound, scalers, kafka, headroom, run, faults>>
  BY DEF OperatorStops, records, db, edge, platform
<1>2. DataType /\ PlatformType
  BY IInvForm DEF SharedInv
<1>3. /\ replicas' \in [Apps -> BOOLEAN] /\ PlatformType' /\ scalers' \in BOOLEAN
      /\ \A b \in Apps : replicas'[b] => replicas[b]
  BY <1>1, <1>2 DEF DataType, PlatformType
<1> QED BY <1>1, <1>3, DownStep

-----------------------------------------------------------------------------
(* The invariant.                                                          *)
LEMMA InitInv == Init => IInv
<1> SUFFICES ASSUME Init PROVE IInv
  OBVIOUS
<1>1. Base \in Releases
  BY ReleaseAssumption
<1>2. CatalogType
  <2>1. [j \in Jobs |-> {Base}] \in Schemas
    BY <1>1 DEF Schemas
  <2> QED BY <2>1 DEF Init, CatalogType
<1>3. DataType
  BY <1>1 DEF Init, DataType, Schemas
<1>4. PlatformType
  BY JobAssumption DEF Init, PlatformType
<1>5. Started = {} /\ Recovering = {} /\ Unfinished = {}
  BY DEF Init, Started, Recovering, Unfinished
<1>6. LedgerInv
  <2> SUFFICES ASSUME NEW r \in Releases PROVE r \notin Recovering /\ r \notin Started /\ "failed" \notin ledger[r]
    BY Zenon DEF LedgerInv
  <2>1. ledger = [x \in Releases |-> {}]
    BY Zenon DEF Init
  <2>2. ledger[r] = {}
    BY <2>1
  <2> QED BY <1>5, <2>2
<1>7. DownInv /\ NoMixedTraffic /\ ContainmentHolds
  BY <1>5 DEF DownInv, NoMixedTraffic, ContainmentHolds
<1>8. RunsInv
  <2>1. Idle \in Locals /\ LocalInv(Idle) /\ Idle.at = "idle"
    BY IdleKept DEF Idle
  <2>2. run \in [Runs -> Locals] /\ \A p \in Runs : run[p] = Idle
    BY <2>1 DEF Init
  <2>3. TogetherInv(Idle, Idle)
    BY <2>1 DEF TogetherInv, Owner, Deploying, Rolling, Cleanup
  <2> QED BY <2>1, <2>2, <2>3 DEF RunsInv
<1> QED BY <1>2, <1>3, <1>4, <1>6, <1>7, <1>8, IInvForm DEF SharedInv

LEMMA ClusterStep == IInv /\ Cluster => IInv'
<1> SUFFICES ASSUME IInv, Cluster PROVE IInv'
  OBVIOUS
<1>1. CASE \E j \in Jobs : MigrationSucceeds(j) \/ MigrationFails(j)
  BY <1>1, MigrationSucceedsStep, MigrationFailsStep
<1>2. CASE \E a \in Apps : PodsConverge(a) \/ Keda(a) \/ OperatorStops(a) \/ OperatorStarts(a)
  BY <1>2, PodsConvergeStep, KedaStep, OperatorStopsStep, OperatorStartsStep
<1>3. CASE BindingsFollow \/ Strimzi \/ HeadroomExpires
  BY <1>3, BindingsFollowStep, StrimziStep, HeadroomExpiresStep
<1>4. CASE OperatorBlocks \/ OperatorDeletesScalers \/ OperatorRestoresScalers
  BY <1>4, OperatorBlocksStep, OperatorDeletesScalersStep, OperatorRestoresScalersStep
<1> QED BY <1>1, <1>2, <1>3, <1>4 DEF Cluster

LEMMA RunsStep ==
  ASSUME IInv, NEW p \in Runs, Step(p) PROVE IInv'
<1>1. CASE (\E op \in Ops, r \in Releases : Invoke(p, op, r))
           \/ Guard(p) \/ Inspect(p) \/ Preflight(p) \/ Reassert(p) \/ Lock(p)
  BY <1>1, InvokeStep, GuardStep, InspectStep, PreflightStep, ReassertStep, LockStep
<1>2. CASE RecoverGuard(p) \/ RecoverInspect(p) \/ RecoverSchema(p)
  BY <1>2, RecoverGuardStep, RecoverInspectStep, RecoverSchemaStep
<1>3. CASE Existing(p) \/ Before(p) \/ Recheck(p) \/ StartJob(p) \/ AwaitJob(p) \/ AfterJobs(p)
  BY <1>3, ExistingStep, BeforeStep, RecheckStep, StartJobStep, AwaitJobStep, AfterJobsStep
<1>4. CASE Events(p) \/ AwaitKafka(p) \/ Bind(p) \/ AwaitBinding(p) \/ Reserve(p) \/ Unreserve(p)
  BY <1>4, EventsStep, AwaitKafkaStep, BindStep, AwaitBindingStep, ReserveStep, UnreserveStep
<1>5. CASE Apply(p) \/ AwaitRollout(p) \/ ApplyScalers(p)
  BY <1>5, ApplyStep, AwaitRolloutStep, ApplyScalersStep
<1>6. CASE Unblock(p) \/ Rebind(p) \/ Public(p) \/ Smoke(p) \/ WriteRecord(p) \/ Return(p)
  BY <1>6, UnblockStep, RebindStep, PublicStep, SmokeStep, WriteRecordStep, ReturnStep
<1>7. CASE Fail(p) \/ ContainRoutes(p) \/ ContainApps(p) \/ MarkFailed(p) \/ Kill(p)
  BY <1>7, FailStep, ContainRoutesStep, ContainAppsStep, MarkFailedStep, KillStep
<1> QED BY <1>1, <1>2, <1>3, <1>4, <1>5, <1>6, <1>7 DEF Step

LEMMA NextInv == IInv /\ [Next]_vars => IInv'
<1> SUFFICES ASSUME IInv, [Next]_vars PROVE IInv'
  OBVIOUS
<1>1. CASE Next
  BY <1>1, ClusterStep, RunsStep DEF Next
<1>2. CASE UNCHANGED vars
  <2>1. UNCHANGED <<record, ledger, review, schema, job, image, replicas, pod, routes, bound, scalers, kafka, headroom, run, faults>>
    BY <1>2 DEF vars, records, db, apps, edge, platform
  <2>2. PlatformType'
    BY <2>1, IInvForm DEF SharedInv, PlatformType
  <2> QED BY <2>1, <2>2, PlatformStep
<1> QED BY <1>1, <1>2

\* Whatever the runs, the cluster and the operator do, the strengthened invariant
\* holds: how every run fits the records, the databases and the Deployments.
THEOREM Invariance == Spec => []IInv
<1>1. Init => IInv
  BY InitInv
<1>2. IInv /\ [Next]_vars => IInv'
  BY NextInv
<1> QED BY <1>1, <1>2, PTL DEF Spec

-----------------------------------------------------------------------------
(* The properties.                                                         *)
LEMMA IInvLock == IInv => LockExclusive
BY DEF IInv, TogetherInv, LockExclusive, Owns

LEMMA IInvDowntime == IInv => DowntimeKept
<1> SUFFICES ASSUME IInv, NEW p \in Runs, NEW r \in Unfinished, run[p].at \in Deploying \union Rolling
             PROVE  Owns(p) /\ run[p].rel = r
  BY DEF DowntimeKept
<1>1. run[p].at \notin {"idle", "guard", "recover_guard"}
  BY DEF Deploying, Rolling
<1>2. run[p].op \in Offline /\ run[p].rel = r
  BY <1>1, Here DEF PassedInv
<1>3. run[p].op = "recover" => run[p].at \in Rolling
  BY Here DEF PlaceInv, PlacesOf, Deploying, OfflineRolling, Rolling, Cleanup
<1> QED BY <1>2, <1>3 DEF Owns, Owner, Offline

LEMMA IInvOffline == IInv => MigratesOffline
<1> SUFFICES ASSUME IInv, NEW p \in Runs, run[p].op = "maintenance", run[p].at = "await_job"
             PROVE  ~ scalers /\ \A a \in Apps : ~ replicas[a] /\ pod[a] = None
  BY DEF MigratesOffline, At
<1>1. run[p].at \in Deploying /\ run[p].at \notin Cleanup \union {"return"}
  BY DEF Deploying, Cleanup
<1>2. Owns(p)
  BY <1>1 DEF Owns, Owner
<1>3. run[p].rel \in Unfinished
  BY <1>1, <1>2, OwnerFacts
<1> QED BY <1>1, <1>3, Here DEF MigrationInv, Down, DownInv

LEMMA IInvSchema == IInv => AppsOnReviewedSchema
<1> SUFFICES ASSUME IInv PROVE AppsOnReviewedSchema
  OBVIOUS
<1>1. ASSUME NEW r \in Unfinished, NEW a \in Apps, pod[a] # None PROVE schema \in {review[r], After(r)}
  <2>1. DownInv
    BY IInvForm DEF SharedInv
  <2> QED BY <1>1, <2>1 DEF DownInv, Down
<1>2. ASSUME NEW p \in Runs, run[p].op \in Offline, run[p].at \in Rolling PROVE schema = After(run[p].rel)
  BY <1>2, Here DEF RolloutInv
<1> QED BY <1>1, <1>2 DEF AppsOnReviewedSchema

LEMMA IInvRecord == IInv => RecordIsReviewed
<1> SUFFICES ASSUME IInv, NEW r \in Started
             PROVE  /\ r \in Released => record[r] = After(r)
                    /\ r \in Recovering \ Released => {"started", "failed"} \subseteq ledger[r] /\ schema = After(r)
  BY Zenon DEF RecordIsReviewed
<1>1. LedgerInv /\ DownInv /\ r \in Releases
  BY DEF IInv, Started
<1>2. r \in Released => record[r] = After(r)
  BY <1>1 DEF LedgerInv
<1>3. r \in Recovering => {"started", "failed"} \subseteq ledger[r]
  BY <1>1, Zenon DEF LedgerInv
<1>4. r \in Recovering \ Released => schema = After(r)
  BY <1>1 DEF DownInv
<1> QED BY <1>2, <1>3, <1>4

\* States are of their types, one run owns an attempt, and the promises on
\* downtime, migrations, records and containment hold, for any number of runs,
\* releases, databases and faults.
THEOREM SafetyHolds == Spec => []Safety
<1>1. IInv => Safety
  BY IInvLock, IInvDowntime, IInvOffline, IInvRecord DEF Safety, IInv
<1> QED BY <1>1, Invariance, PTL

\* "keep downtime; explicit reviewed recovery required": nothing gets past the
\* ledger check of guarded_deploy but the attempt without a release record.
THEOREM DowntimeIsKept == Spec => []DowntimeKept
<1>1. IInv => DowntimeKept
  BY IInvDowntime
<1> QED BY <1>1, Invariance, PTL

\* The migrations of a cutover run without a writer.
THEOREM MigrationsAreOffline == Spec => []MigratesOffline
<1>1. IInv => MigratesOffline
  BY IInvOffline
<1> QED BY <1>1, Invariance, PTL

\* Under an unresolved attempt no application runs on a half-migrated set of
\* databases, and a rollout starts them on the rehearsed schemas.
THEOREM SchemasAreReviewed == Spec => []AppsOnReviewedSchema
<1>1. IInv => AppsOnReviewedSchema
  BY IInvSchema
<1> QED BY <1>1, Invariance, PTL

\* The record of a cutover names the reviewed schemas, and a recovery is on record
\* only for a release whose migrations were complete.
THEOREM RecordsAreReviewed == Spec => []RecordIsReviewed
<1>1. IInv => RecordIsReviewed
  BY IInvRecord
<1> QED BY <1>1, Invariance, PTL

\* "Keep 503 until every new workload is ready; no mixed-version public traffic."
THEOREM TrafficIsNotMixed == Spec => []NoMixedTraffic
<1>1. IInv => NoMixedTraffic
  BY DEF IInv
<1> QED BY <1>1, Invariance, PTL

\* A failure recorded as contained left the 503 routes and nothing that runs.
THEOREM ContainmentIsKept == Spec => []ContainmentHolds
<1>1. IInv => ContainmentHolds
  BY DEF IInv
<1> QED BY <1>1, Invariance, PTL

\* Nothing but WriteRecord writes a release record.
LEMMA RecordKept ==
  ASSUME [Next]_vars, \A p \in Runs : ~ WriteRecord(p) PROVE UNCHANGED record
<1> USE DEF records
<1>1. ASSUME NEW p \in Runs, Step(p) PROVE UNCHANGED record
  <2>1. CASE Guard(p) \/ Inspect(p) \/ Preflight(p) \/ Reassert(p) \/ Lock(p)
    BY <2>1 DEF Guard, Inspect, Preflight, Reassert, Lock
  <2>8. ASSUME NEW op \in Ops, NEW r \in Releases, Invoke(p, op, r) PROVE UNCHANGED record
    BY <2>8 DEF Invoke
  <2>2. CASE RecoverGuard(p) \/ RecoverInspect(p) \/ RecoverSchema(p)
    BY <2>2 DEF RecoverGuard, RecoverInspect, RecoverSchema
  <2>3. CASE Existing(p) \/ Before(p) \/ Recheck(p) \/ StartJob(p) \/ AwaitJob(p) \/ AfterJobs(p)
    BY <2>3 DEF Existing, Before, Recheck, StartJob, AwaitJob, AfterJobs
  <2>4. CASE Events(p) \/ AwaitKafka(p) \/ Bind(p) \/ AwaitBinding(p) \/ Reserve(p) \/ Unreserve(p)
    BY <2>4 DEF Events, AwaitKafka, Bind, AwaitBinding, Reserve, Unreserve
  <2>5. CASE Apply(p) \/ AwaitRollout(p) \/ ApplyScalers(p)
    BY <2>5 DEF Apply, AwaitRollout, ApplyScalers
  <2>6. CASE Unblock(p) \/ Rebind(p) \/ Public(p) \/ Smoke(p) \/ Return(p)
    BY <2>6 DEF Unblock, Rebind, Public, Smoke, Return
  <2>7. CASE Fail(p) \/ ContainRoutes(p) \/ ContainApps(p) \/ MarkFailed(p) \/ Kill(p)
    BY <2>7 DEF Fail, ContainRoutes, ContainApps, MarkFailed, Kill
  <2> QED BY <1>1, <2>1, <2>2, <2>3, <2>4, <2>5, <2>6, <2>7, <2>8 DEF Step
<1>2. CASE Cluster
  <2>1. CASE \E j \in Jobs : MigrationSucceeds(j) \/ MigrationFails(j)
    BY <2>1 DEF MigrationSucceeds, MigrationFails
  <2>2. CASE \E a \in Apps : PodsConverge(a) \/ Keda(a) \/ OperatorStops(a) \/ OperatorStarts(a)
    BY <2>2 DEF PodsConverge, Keda, OperatorStops, OperatorStarts
  <2>3. CASE BindingsFollow \/ Strimzi \/ HeadroomExpires
             \/ OperatorBlocks \/ OperatorDeletesScalers \/ OperatorRestoresScalers
    BY <2>3 DEF BindingsFollow, Strimzi, HeadroomExpires, OperatorBlocks, OperatorDeletesScalers, OperatorRestoresScalers
  <2> QED BY <1>2, <2>1, <2>2, <2>3 DEF Cluster
<1>3. CASE UNCHANGED vars
  BY <1>3 DEF vars
<1> QED BY <1>1, <1>2, <1>3 DEF Next

\* "Success" is recorded last: the step that records a cutover finds its Pods and
\* no others behind open routes, and records the schemas that are live.
THEOREM SuccessIsLiveHolds == Spec => SuccessIsLive
<1>1. ASSUME IInv, [Next]_vars, NEW r \in Started \ Released, record'[r] # None
      PROVE  /\ record'[r] = schema /\ routes = "normal"
             /\ \A a \in Apps : image[a] = r /\ pod[a] = r
  <2>1. r \in Unfinished /\ r \in Releases /\ record[r] = None
    BY <1>1 DEF Unfinished, Started, Released
  <2>2. PICK p \in Runs : WriteRecord(p)
    BY <1>1, <2>1, RecordKept
  <2>3. run[p].at = "record" /\ run[p].at \in Rolling /\ run[p].at \in Done
    BY <2>2 DEF WriteRecord, At, Rolling, Done
  <2>4. Owns(p) /\ run[p].rel = r
    BY <1>1, <2>1, <2>3, IInvDowntime DEF DowntimeKept
  <2>5. run[p].op \in Offline
    BY <1>1, <2>4, OwnerFacts
  <2>6. \A a \in Apps : image[a] = r /\ pod[a] = r
    BY <1>1, <2>3, <2>4, <2>5, AllReplaced
  <2>7. routes = "normal" /\ run[p].current = schema
    BY <1>1, <2>3, <2>5, Here DEF RolloutInv
  <2>8. record'[r] = run[p].current
    <3>1. record' = record \/ record' = [record EXCEPT ![r] = run[p].current]
      BY <2>2, <2>4 DEF WriteRecord
    <3>2. record' # record
      BY <1>1, <2>1
    <3> QED BY <1>1, <2>1, <3>1, <3>2, Here DEF CatalogType
  <2> QED BY <2>6, <2>7, <2>8
<1>2. IInv /\ [Next]_vars =>
        [\A r \in Started \ Released : record'[r] # None =>
           /\ record'[r] = schema /\ routes = "normal"
           /\ \A a \in Apps : image[a] = r /\ pod[a] = r]_vars
  BY <1>1
<1> QED BY <1>2, Invariance, PTL DEF Spec, SuccessIsLive

-----------------------------------------------------------------------------
(* Kafka.                                                                  *)
\* Where a run is once the broker has settled on the Kafka that it applied.
AfterKafka == Rolling \ {"events", "await_kafka"}

\* One run at a time, or none but of cutovers and recoveries.
OneRollout == (\A p, q \in Runs : p = q) \/ Ops \subseteq Offline

KafkaInv ==
  \A p \in Runs :
    /\ run[p].at \in AfterKafka => kafka
    /\ Ops \subseteq Offline /\ ~ At(p, "idle") => run[p].op \in Offline

\* A step of p that changes its place and no more of its kind.
Steps(p) ==
  /\ \A q \in Runs \ {p} : run'[q] = run[q]
  /\ run'[p].at = "idle" \/ (run[p].at # "idle" /\ run'[p].op = run[p].op)

LEMMA GotoSteps ==
  ASSUME run \in [Runs -> Locals], NEW p \in Runs, run[p].at # "idle", NEW x, Goto(p, x)
  PROVE  Steps(p) /\ run'[p].at = x
BY DEF Goto, Locals, Steps

LEMMA EndSteps ==
  ASSUME run \in [Runs -> Locals], NEW p \in Runs, End(p)
  PROVE  Steps(p) /\ run'[p].at = "idle"
BY DEF End, Idle, Steps

LEMMA RaiseSteps ==
  ASSUME run \in [Runs -> Locals], NEW p \in Runs, Raise(p)
  PROVE  Steps(p) /\ run'[p].at \notin AfterKafka
<1>1. CASE Guarded(p)
  <2>1. run[p].at # "idle" /\ Goto(p, "contain_routes")
    BY <1>1 DEF Raise, Guarded, Deploying, Rolling
  <2> QED BY <2>1, GotoSteps DEF AfterKafka, Rolling
<1>2. CASE ~ Guarded(p)
  BY <1>2, EndSteps DEF Raise, AfterKafka, Rolling
<1> QED BY <1>1, <1>2

LEMMA CheckSteps ==
  ASSUME run \in [Runs -> Locals], NEW p \in Runs, run[p].at # "idle", NEW c, NEW x, Check(p, c, x)
  PROVE  Steps(p) /\ (run'[p].at \in AfterKafka => run'[p].at = x /\ c)
<1>1. CASE c
  BY <1>1, GotoSteps DEF Check
<1>2. CASE ~ c
  BY <1>2, RaiseSteps DEF Check
<1> QED BY <1>1, <1>2

\* Only Events moves the broker, and only past AwaitKafka or Events is it settled.
KafkaMoves(p) ==
  /\ \A q \in Runs \ {p} : run'[q] = run[q]
  /\ kafka' = kafka \/ run[p].at = "events"
  /\ run'[p].at \in AfterKafka => kafka' \/ (run[p].at \in AfterKafka /\ kafka' = kafka)
  /\ \/ run'[p].at = "idle"
     \/ run[p].at = "idle" /\ run'[p].op \in Ops
     \/ run[p].at # "idle" /\ (run'[p].op = run[p].op \/ run[p].op = "rollback")

LEMMA GotoMoves ==
  ASSUME run \in [Runs -> Locals], NEW p \in Runs, run[p].at # "idle", kafka' = kafka, NEW x, Goto(p, x),
         x \in AfterKafka => run[p].at \in AfterKafka
  PROVE  KafkaMoves(p)
BY GotoSteps DEF KafkaMoves, Steps

LEMMA RaiseMoves ==
  ASSUME run \in [Runs -> Locals], NEW p \in Runs, kafka' = kafka, Raise(p)
  PROVE  KafkaMoves(p)
BY RaiseSteps DEF KafkaMoves, Steps

LEMMA EndMoves ==
  ASSUME run \in [Runs -> Locals], NEW p \in Runs, kafka' = kafka, End(p)
  PROVE  KafkaMoves(p)
BY EndSteps DEF KafkaMoves, Steps, AfterKafka, Rolling

LEMMA CheckMoves ==
  ASSUME run \in [Runs -> Locals], NEW p \in Runs, run[p].at # "idle", kafka' = kafka, NEW c, NEW x, Check(p, c, x),
         x \in AfterKafka => run[p].at \in AfterKafka \/ (c => kafka)
  PROVE  KafkaMoves(p)
BY CheckSteps DEF KafkaMoves, Steps

\* Steps that are one check.
LEMMA CheckedMoves ==
  ASSUME run \in [Runs -> Locals], NEW p \in Runs,
         Guard(p) \/ Inspect(p) \/ Preflight(p) \/ Reassert(p) \/ RecoverGuard(p) \/ RecoverInspect(p) \/ Recheck(p)
         \/ AwaitKafka(p) \/ AwaitBinding(p) \/ Rebind(p) \/ Public(p) \/ Smoke(p)
  PROVE  KafkaMoves(p)
<1>1. CASE Guard(p)
  <2>1. run[p].at # "idle" /\ kafka' = kafka
    BY <1>1 DEF Guard, At, platform
  <2>2. CASE run[p].op = "maintenance"
    BY <1>1, <2>1, <2>2, CheckMoves DEF Guard, AfterKafka, Rolling
  <2>3. CASE run[p].op # "maintenance"
    BY <1>1, <2>1, <2>3, CheckMoves DEF Guard, AfterKafka, Rolling
  <2> QED BY <2>2, <2>3
<1>2. CASE Inspect(p)
  <2>1. run[p].at # "idle" /\ kafka' = kafka
    BY <1>2 DEF Inspect, At, platform
  <2> QED BY <1>2, <2>1, CheckMoves DEF Inspect, AfterKafka, Rolling
<1>3. CASE Preflight(p)
  <2>1. run[p].at # "idle" /\ kafka' = kafka
    BY <1>3 DEF Preflight, At, platform
  <2> QED BY <1>3, <2>1, CheckMoves DEF Preflight, AfterKafka, Rolling
<1>4. CASE Reassert(p)
  <2>1. run[p].at # "idle" /\ kafka' = kafka
    BY <1>4 DEF Reassert, At, platform
  <2> QED BY <1>4, <2>1, CheckMoves DEF Reassert, AfterKafka, Rolling
<1>5. CASE RecoverGuard(p)
  <2>1. run[p].at # "idle" /\ kafka' = kafka
    BY <1>5 DEF RecoverGuard, At, platform
  <2> QED BY <1>5, <2>1, CheckMoves DEF RecoverGuard, AfterKafka, Rolling
<1>6. CASE RecoverInspect(p)
  <2>1. run[p].at # "idle" /\ kafka' = kafka
    BY <1>6 DEF RecoverInspect, At, platform
  <2> QED BY <1>6, <2>1, CheckMoves DEF RecoverInspect, AfterKafka, Rolling
<1>7. CASE Recheck(p)
  <2>1. run[p].at # "idle" /\ kafka' = kafka
    BY <1>7 DEF Recheck, At, platform
  <2> QED BY <1>7, <2>1, CheckMoves DEF Recheck, AfterKafka, Rolling
<1>8. CASE AwaitKafka(p)
  <2>1. run[p].at # "idle" /\ kafka' = kafka
    BY <1>8 DEF AwaitKafka, At, platform
  <2> QED BY <1>8, <2>1, CheckMoves DEF AwaitKafka
<1>9. CASE AwaitBinding(p)
  <2>1. run[p].at \in AfterKafka /\ run[p].at # "idle" /\ kafka' = kafka
    BY <1>9 DEF AwaitBinding, At, platform, AfterKafka, Rolling
  <2> QED BY <1>9, <2>1, CheckMoves DEF AwaitBinding
<1>10. CASE Rebind(p)
  <2>1. run[p].at \in AfterKafka /\ run[p].at # "idle" /\ kafka' = kafka
    BY <1>10 DEF Rebind, At, platform, AfterKafka, Rolling
  <2> QED BY <1>10, <2>1, CheckMoves DEF Rebind
<1>11. CASE Public(p)
  <2>1. run[p].at \in AfterKafka /\ run[p].at # "idle" /\ kafka' = kafka
    BY <1>11 DEF Public, At, platform, AfterKafka, Rolling
  <2> QED BY <1>11, <2>1, CheckMoves DEF Public
<1>12. CASE Smoke(p)
  <2>1. run[p].at \in AfterKafka /\ run[p].at # "idle" /\ kafka' = kafka
    BY <1>12 DEF Smoke, At, platform, AfterKafka, Rolling
  <2> QED BY <1>12, <2>1, CheckMoves DEF Smoke
<1> QED BY <1>1, <1>2, <1>3, <1>4, <1>5, <1>6, <1>7, <1>8, <1>9, <1>10, <1>11, <1>12

\* Steps that change more of the run than its place.
LEMMA WrittenMoves ==
  ASSUME run \in [Runs -> Locals], NEW p \in Runs,
         RecoverSchema(p) \/ Existing(p) \/ Before(p) \/ AwaitJob(p) \/ AfterJobs(p) \/ AwaitRollout(p)
  PROVE  KafkaMoves(p)
<1>1. CASE RecoverSchema(p)
  <2>1. run[p].at # "idle" /\ kafka' = kafka
    BY <1>1 DEF RecoverSchema, At, platform
  <2>2. CASE Raise(p)
    BY <2>1, <2>2, RaiseMoves
  <2>3. CASE run' = [run EXCEPT ![p].at = "reassert", ![p].current = schema]
    BY <2>1, <2>3 DEF KafkaMoves, Locals, AfterKafka, Rolling
  <2> QED BY <1>1, <2>2, <2>3 DEF RecoverSchema
<1>2. CASE Existing(p)
  <2>1. run[p].at # "idle" /\ kafka' = kafka
    BY <1>2 DEF Existing, At, platform
  <2>2. CASE Raise(p)
    BY <2>1, <2>2, RaiseMoves
  <2>3. CASE Check(p, run[p].op # "rollback", "before")
    BY <2>1, <2>3, CheckMoves DEF AfterKafka, Rolling
  <2>4. CASE run' = [run EXCEPT ![p].at = "events", ![p].op = IF @ = "rollback" THEN "deploy" ELSE @,
                                ![p].existing = TRUE, ![p].current = schema]
    <3>1. run'[p].at = "events" /\ (run'[p].op = run[p].op \/ run[p].op = "rollback")
          /\ \A q \in Runs \ {p} : run'[q] = run[q]
      BY <2>4 DEF Locals
    <3> QED BY <2>1, <3>1 DEF KafkaMoves, AfterKafka
  <2> QED BY <1>2, <2>2, <2>3, <2>4 DEF Existing
<1>3. CASE Before(p)
  <2>1. run[p].at # "idle" /\ kafka' = kafka
    BY <1>3 DEF Before, At, platform
  <2>2. CASE run[p].op = "maintenance"
    BY <1>3, <2>1, <2>2, CheckMoves DEF Before, AfterKafka, Rolling
  <2>3. CASE run[p].op # "maintenance"
    BY <1>3, <2>1, <2>3, GotoMoves DEF Before, AfterKafka, Rolling
  <2> QED BY <2>2, <2>3
<1>4. CASE AwaitJob(p)
  <2> DEFINE i == run[p].i
             next == IF i = NumJobs THEN "after" ELSE NextJob(p)
  <2>1. run[p].at # "idle" /\ kafka' = kafka
    BY <1>4 DEF AwaitJob, At, platform
  <2>2. CASE Raise(p)
    BY <2>1, <2>2, RaiseMoves
  <2>3. CASE run' = [run EXCEPT ![p].at = next, ![p].i = IF i = NumJobs THEN 1 ELSE i + 1]
    <3>1. next \in {"after", "recheck", "start_job"}
      BY DEF NextJob
    <3> HIDE DEF next
    <3>2. run'[p].at = next /\ run'[p].op = run[p].op /\ \A q \in Runs \ {p} : run'[q] = run[q]
      BY <2>3 DEF Locals
    <3> QED BY <2>1, <3>1, <3>2 DEF KafkaMoves, AfterKafka, Rolling
  <2> QED BY <1>4, <2>2, <2>3 DEF AwaitJob
<1>5. CASE AfterJobs(p)
  <2>1. run[p].at # "idle" /\ kafka' = kafka
    BY <1>5 DEF AfterJobs, At, platform
  <2>2. CASE Raise(p)
    BY <2>1, <2>2, RaiseMoves
  <2>3. CASE run' = [run EXCEPT ![p].at = "events", ![p].current = schema]
    BY <2>1, <2>3 DEF KafkaMoves, Locals, AfterKafka
  <2> QED BY <1>5, <2>2, <2>3 DEF AfterJobs
<1>6. CASE AwaitRollout(p)
  <2>1. run[p].at \in AfterKafka /\ run[p].at # "idle" /\ kafka' = kafka
    BY <1>6 DEF AwaitRollout, At, platform, AfterKafka, Rolling
  <2>2. CASE Raise(p)
    BY <2>1, <2>2, RaiseMoves
  <2>3. CASE ~ Raise(p)
    <3>1. PICK x, n : run' = [run EXCEPT ![p].at = x, ![p].i = n]
      BY <1>6, <2>3 DEF AwaitRollout
    <3>2. run'[p].op = run[p].op /\ \A q \in Runs \ {p} : run'[q] = run[q]
      BY <3>1 DEF Locals
    <3> QED BY <2>1, <3>2 DEF KafkaMoves
  <2> QED BY <2>2, <2>3
<1> QED BY <1>1, <1>2, <1>3, <1>4, <1>5, <1>6

\* Steps that go on to one place, or raise, or end.
LEMMA PlacedMoves ==
  ASSUME run \in [Runs -> Locals], NEW p \in Runs,
         Lock(p) \/ StartJob(p) \/ Bind(p) \/ Reserve(p) \/ Unreserve(p) \/ Apply(p) \/ ApplyScalers(p) \/ Unblock(p)
         \/ WriteRecord(p) \/ Return(p) \/ Fail(p) \/ ContainRoutes(p) \/ ContainApps(p) \/ MarkFailed(p) \/ Kill(p)
  PROVE  KafkaMoves(p)
<1>1. kafka' = kafka
  BY DEF Lock, StartJob, Bind, Reserve, Unreserve, Apply, ApplyScalers, Unblock, WriteRecord, Return, Fail,
         ContainRoutes, ContainApps, MarkFailed, Kill, platform
<1>2. CASE Raise(p)
  BY <1>1, <1>2, RaiseMoves
<1>3. CASE End(p)
  BY <1>1, <1>3, EndMoves
<1>4. CASE Lock(p) /\ ~ Raise(p)
  <2>1. run[p].at # "idle" /\ Goto(p, IF run[p].op = "recover" THEN "events" ELSE "existing")
    BY <1>4 DEF Lock, At
  <2> QED BY <1>1, <2>1, GotoMoves DEF AfterKafka, Rolling
<1>5. CASE StartJob(p)
  BY <1>1, <1>5, GotoMoves DEF StartJob, At, AfterKafka, Rolling
<1>6. CASE \/ Bind(p) \/ (Reserve(p) /\ ~ Raise(p)) \/ (Unreserve(p) /\ ~ Raise(p)) \/ Apply(p) \/ ApplyScalers(p)
           \/ Unblock(p) \/ (WriteRecord(p) /\ ~ Raise(p))
  <2>1. run[p].at \in AfterKafka /\ run[p].at # "idle"
    BY <1>6 DEF Bind, Reserve, Unreserve, Apply, ApplyScalers, Unblock, WriteRecord, At, AfterKafka, Rolling
  <2>2. PICK x : Goto(p, x)
    BY <1>6 DEF Bind, Reserve, Unreserve, Apply, ApplyScalers, Unblock, WriteRecord
  <2> QED BY <1>1, <2>1, <2>2, GotoMoves
<1>7. CASE ContainRoutes(p) \/ ContainApps(p)
  <2>1. run[p].at # "idle"
    BY <1>7 DEF ContainRoutes, ContainApps, At
  <2>2. PICK x \in {"contain_apps", "mark_failed"} :
          Goto(p, x) \/ run' = [run EXCEPT ![p].at = x, ![p].dirty = TRUE]
    BY <1>7 DEF ContainRoutes, ContainApps
  <2>3. run'[p].at = x /\ run'[p].op = run[p].op /\ \A q \in Runs \ {p} : run'[q] = run[q]
    BY <2>2 DEF Goto, Locals
  <2> QED BY <1>1, <2>1, <2>3 DEF KafkaMoves, AfterKafka, Rolling
<1> QED BY <1>2, <1>3, <1>4, <1>5, <1>6, <1>7 DEF Return, Fail, MarkFailed, Kill

LEMMA StepMoves ==
  ASSUME run \in [Runs -> Locals], NEW p \in Runs, Step(p)
  PROVE  KafkaMoves(p)
<1>1. ASSUME NEW op \in Ops, NEW r \in Releases, Invoke(p, op, r) PROVE KafkaMoves(p)
  <2>1. kafka' = kafka /\ run[p].at = "idle"
    BY <1>1 DEF Invoke, At, platform
  <2>2. PICK x \in {"guard", "recover_guard"} : run' = [run EXCEPT ![p] = [Idle EXCEPT !.at = x, !.op = op, !.rel = r]]
    BY <1>1 DEF Invoke
  <2>3. run'[p].at = x /\ run'[p].op = op /\ \A q \in Runs \ {p} : run'[q] = run[q]
    BY <2>2 DEF Idle
  <2> QED BY <2>1, <2>3 DEF KafkaMoves, AfterKafka, Rolling
<1>2. CASE Events(p)
  <2>1. run[p].at = "events" /\ Goto(p, IF kafka' THEN Settled(p) ELSE "await_kafka")
    BY <1>2 DEF Events, At
  <2>2. Steps(p) /\ run'[p].at = IF kafka' THEN Settled(p) ELSE "await_kafka"
    BY <2>1, GotoSteps
  <2> QED BY <2>1, <2>2 DEF KafkaMoves, Steps, AfterKafka
<1> QED BY <1>1, <1>2, CheckedMoves, WrittenMoves, PlacedMoves DEF Step

LEMMA OneRolls ==
  ASSUME IInv, OneRollout, KafkaInv, NEW p \in Runs, NEW q \in Runs, run[p].at \in Rolling, run[q].at \in Rolling
  PROVE  p = q
<1> SUFFICES ASSUME Ops \subseteq Offline, p # q PROVE FALSE
  BY DEF OneRollout
<1>1. ~ At(p, "idle") /\ ~ At(q, "idle")
  BY DEF At, Rolling
<1>2. run[p].op \in Offline /\ run[q].op \in Offline
  BY <1>1 DEF KafkaInv
<1>3. Owner(run[p]) /\ Owner(run[q])
  BY <1>2 DEF Owner, Offline
<1> QED BY <1>3, Known DEF TogetherInv

LEMMA KafkaNext ==
  ASSUME IInv, OneRollout, KafkaInv, [Next]_vars PROVE KafkaInv'
<1>1. run \in [Runs -> Locals]
  BY IInvForm DEF RunsInv
<1>2. ASSUME NEW p \in Runs, Step(p) PROVE KafkaInv'
  <2>1. KafkaMoves(p)
    BY <1>1, <1>2, StepMoves
  <2> SUFFICES ASSUME NEW r \in Runs
               PROVE  /\ run'[r].at \in AfterKafka => kafka'
                      /\ Ops \subseteq Offline /\ run'[r].at # "idle" => run'[r].op \in Offline
    BY DEF KafkaInv, At
  <2>2. /\ run[r].at \in AfterKafka => kafka
        /\ Ops \subseteq Offline /\ run[r].at # "idle" => run[r].op \in Offline
    BY DEF KafkaInv, At
  <2>3. CASE r = p
    BY <2>1, <2>2, <2>3 DEF KafkaMoves, Offline
  <2>4. CASE r # p
    <3>1. run'[r] = run[r]
      BY <2>1, <2>4 DEF KafkaMoves
    <3>2. run[r].at \in AfterKafka => kafka' = kafka
      <4>1. run[r].at \in AfterKafka /\ run[p].at = "events" => r = p
        BY OneRolls DEF AfterKafka, Rolling
      <4> QED BY <2>1, <2>4, <4>1 DEF KafkaMoves
    <3> QED BY <2>2, <3>1, <3>2
  <2> QED BY <2>3, <2>4
<1>3. CASE Cluster
  <2>1. UNCHANGED run /\ (kafka' = kafka \/ kafka' = TRUE)
    <3>1. CASE \E j \in Jobs : MigrationSucceeds(j) \/ MigrationFails(j)
      BY <3>1 DEF MigrationSucceeds, MigrationFails, platform
    <3>2. CASE \E a \in Apps : PodsConverge(a) \/ Keda(a) \/ OperatorStops(a) \/ OperatorStarts(a)
      BY <3>2 DEF PodsConverge, Keda, OperatorStops, OperatorStarts, platform
    <3>3. CASE BindingsFollow \/ Strimzi \/ HeadroomExpires
      BY <3>3 DEF BindingsFollow, Strimzi, HeadroomExpires, platform
    <3>4. CASE OperatorBlocks \/ OperatorDeletesScalers \/ OperatorRestoresScalers
      BY <3>4 DEF OperatorBlocks, OperatorDeletesScalers, OperatorRestoresScalers, platform
    <3> QED BY <1>3, <3>1, <3>2, <3>3, <3>4 DEF Cluster
  <2> QED BY <2>1 DEF KafkaInv, At
<1>4. CASE UNCHANGED vars
  BY <1>4 DEF vars, platform, KafkaInv, At
<1> QED BY <1>2, <1>3, <1>4 DEF Next

\* A Deployment is replaced only when the broker has settled on the Kafka that was
\* applied, where one run rolls out at a time: with a single run, or for cutovers and
\* recoveries, whose lock keeps all others from the rollout.
THEOREM KafkaIsSettled ==
  ASSUME OneRollout
  PROVE  Spec => []ReplacedOnSettledKafka
<1>1. Init => KafkaInv
  <2> SUFFICES ASSUME Init, NEW p \in Runs PROVE run[p].at = "idle"
    BY DEF KafkaInv, At, AfterKafka, Rolling
  <2> QED BY DEF Init, Idle
<1>2. IInv /\ KafkaInv /\ [Next]_vars => KafkaInv'
  BY KafkaNext
<1>3. KafkaInv => ReplacedOnSettledKafka
  BY DEF KafkaInv, ReplacedOnSettledKafka, At, AfterKafka, Rolling
<1> QED BY <1>1, <1>2, <1>3, Invariance, PTL DEF Spec
=============================================================================
