----------------------------- MODULE RequestWake -----------------------------
(***************************************************************************)
(* The EKS sleep/wake controller (infra/lambda/request_wake/handler.py): a *)
(* Lambda that runs one command or one scheduled tick at a time, keeps its *)
(* phase in a DynamoDB item, and drives two managed node groups that the   *)
(* in-cluster autoscaler, EKS and the operators change at the same time.   *)
(*                                                                         *)
(* One run of the Lambda is a sequence of AWS calls, one action per call;  *)
(* everything outside the Lambda interleaves between them, and Crash may   *)
(* end the run after any call (an exception, the 55 s timeout).            *)
(***************************************************************************)
EXTENDS Naturals, FiniteSets

CONSTANTS
  FirstGroup,      \* the node group that comes first in NODE_GROUPS
  MaxSize,         \* MaxSize[g]: the ASG maximum of node group g
  MaxFaults,       \* bound on crashes, lost instances and outside EKS updates
  MaxScalings,     \* bound on writes of the cluster autoscaler
  MaxReplacements  \* bound on node group replacements per group

Groups == {"general", "ai_worker"}

\* Terraform's scaling bounds: general keeps two nodes, ai_worker may be empty.
Floor == [g \in Groups |-> IF g = "general" THEN 2 ELSE 0]
\* The capacity a wake asks for: two general nodes, one AI node.
WakeSize == [g \in Groups |-> IF g = "general" THEN 2 ELSE 1]

ASSUME GroupAssumption == FirstGroup \in Groups
ASSUME SizeAssumption ==
  /\ MaxSize \in [Groups -> Nat]
  /\ \A g \in Groups : MaxSize[g] >= WakeSize[g]
ASSUME BoundAssumption ==
  MaxFaults \in Nat /\ MaxScalings \in Nat /\ MaxReplacements \in Nat

VARIABLES
  phase,        \* DynamoDB item: "awake", "sleeping", "asleep", "waking"
  owned,        \* DynamoDB item: owned_asgs of the last sleep command
  pc,           \* stage and node group of the call the Lambda makes next
  nodes,        \* local: what describe_nodegroup returned in this run
  groups,       \* local: what describe_auto_scaling_groups returned in this run
  done,         \* groups whose resize returned True in this run
  ng,           \* EKS: status and scalingConfig of each node group
  target,       \* EKS: the scalingConfig an update in progress will apply
  asg,          \* generation of the ASG behind each node group
  suspended,    \* ASGs whose Launch process is suspended
  foreign,      \* those of them that an operator suspended
  desired,      \* DesiredCapacity of each current ASG
  inst,         \* number of instances of each current ASG
  serving,      \* number of InService instances of the general ASG
  hit,          \* ALB 5XX datapoint in the detection window
  runHit,       \* a 5XX occurred since the current run started
  faults,       \* Crash, LoseInstance and OutsideUpdate steps so far
  scalings      \* Autoscale steps so far

table == <<phase, owned>>
run   == <<pc, nodes, groups, done>>
eks   == <<ng, target>>
aws   == <<asg, suspended, foreign, desired, inst, serving>>
alb   == <<hit, runHit>>
bound == <<faults, scalings>>
vars  == <<table, run, eks, aws, alb, bound>>

-----------------------------------------------------------------------------
Asgs == Groups \X (0 .. MaxReplacements)
AsgOf(g) == <<g, asg[g]>>
CurrentAsgs == {AsgOf(g) : g \in Groups}
Other(g) == IF g = "general" THEN "ai_worker" ELSE "general"
SecondGroup == Other(FirstGroup)

Phases == {"awake", "sleeping", "asleep", "waking"}
Stages == {"idle", "check_nodegroup", "check_asg", "save_sleeping", "detect",
           "describe_nodegroup", "describe_asg", "launch", "resize", "finish"}
Sizes == UNION {0 .. MaxSize[g] : g \in Groups}
Configs == [min : {0, 2}, size : Sizes]
Nodegroups == [active : BOOLEAN, min : {0, 2}, size : Sizes]
Descriptions == [asg : 0 .. MaxReplacements, actual : Sizes, empty : BOOLEAN, inService : Sizes]

\* Locals not assigned yet; they are never read before the call that sets them.
NoNode == [active |-> FALSE, min |-> 0, size |-> 0]
NoGroup == [asg |-> 0, actual |-> 0, empty |-> FALSE, inService |-> 0]

At(stage) == pc.stage = stage
Goto(stage, g) == pc' = [stage |-> stage, group |-> g]
\* Next call of a loop over the groups, or the first call after the loop.
Continue(after) ==
  IF pc.group = FirstGroup THEN Goto(pc.stage, SecondGroup) ELSE Goto(after, FirstGroup)
\* The run returns or raises: its local variables are gone.
EndRun ==
  /\ Goto("idle", FirstGroup)
  /\ nodes' = [g \in Groups |-> NoNode] /\ groups' = [g \in Groups |-> NoGroup]
  /\ done' = {}

Init ==
  /\ phase = "awake" /\ owned = {}
  /\ pc = [stage |-> "idle", group |-> FirstGroup]
  /\ nodes = [g \in Groups |-> NoNode] /\ groups = [g \in Groups |-> NoGroup] /\ done = {}
  /\ ng = [g \in Groups |-> [active |-> TRUE, min |-> Floor[g], size |-> Floor[g]]]
  /\ target = [g \in Groups |-> [min |-> Floor[g], size |-> Floor[g]]]
  /\ asg = [g \in Groups |-> 0] /\ suspended = {} /\ foreign = {}
  /\ desired = Floor /\ inst = Floor /\ serving = Floor["general"]
  /\ hit = "none" /\ runHit = FALSE
  /\ faults = 0 /\ scalings = 0

-----------------------------------------------------------------------------
(* The Lambda.  A definition named ...Mutant is a plausible mistake in the  *)
(* one that follows it: mutation runs put it in that one's place to see a   *)
(* property fail.                                                           *)
(*                                                                          *)
(* Reserved concurrency 1: a run starts only when none is     *)
(* under way, and an invocation that arrives during a run is dropped.      *)

\* Accepts a sleep while waking, as if the wake were over.
InvokeSleepMutant ==
  /\ At("idle")
  /\ Goto(IF phase \in {"awake", "waking"} THEN "check_nodegroup" ELSE "describe_nodegroup", FirstGroup)
  /\ runHit' = FALSE
  /\ UNCHANGED <<table, nodes, groups, done, eks, aws, hit, bound>>

\* The operator's sleep command with confirm_no_active_jobs.  It is rejected
\* while waking; from awake it inspects the groups before it records intent.
InvokeSleep ==
  /\ At("idle") /\ phase # "waking"
  /\ Goto(IF phase = "awake" THEN "check_nodegroup" ELSE "describe_nodegroup", FirstGroup)
  /\ runHit' = FALSE
  /\ UNCHANGED <<table, nodes, groups, done, eks, aws, hit, bound>>

\* save(state, "waking"): nobody reads the detection window any more.
SaveWaking == phase' = "waking" /\ hit' = "none"

\* A wake command saves the intent in every phase but awake; a frontend
\* request does so only when the cluster is asleep, and otherwise works as a tick.
InvokeWake ==
  /\ At("idle") /\ phase # "awake"
  /\ SaveWaking
  /\ Goto("describe_nodegroup", FirstGroup)
  /\ runHit' = FALSE
  /\ UNCHANGED <<owned, nodes, groups, done, eks, aws, bound>>

InvokeRequest ==
  /\ At("idle") /\ phase # "awake"
  /\ IF phase = "asleep" THEN SaveWaking ELSE UNCHANGED <<phase, hit>>
  /\ Goto("describe_nodegroup", FirstGroup)
  /\ runHit' = FALSE
  /\ UNCHANGED <<owned, nodes, groups, done, eks, aws, bound>>

\* Takes the tick for a detector only: it does not resume what is under way.
InvokeTickMutant ==
  /\ At("idle") /\ phase = "asleep"
  /\ Goto("detect", FirstGroup)
  /\ runHit' = FALSE
  /\ UNCHANGED <<table, nodes, groups, done, eks, aws, hit, bound>>

\* The scheduled tick (in phase awake it returns at once).
InvokeTick ==
  /\ At("idle") /\ phase # "awake"
  /\ Goto(IF phase = "asleep" THEN "detect" ELSE "describe_nodegroup", FirstGroup)
  /\ runHit' = FALSE
  /\ UNCHANGED <<table, nodes, groups, done, eks, aws, hit, bound>>

\* sleep, from awake: every node group must be ACTIVE ...
CheckNodegroup ==
  /\ At("check_nodegroup")
  /\ IF ng[pc.group].active
     THEN Continue("check_asg") /\ UNCHANGED <<nodes, groups, done>>
     ELSE EndRun
  /\ UNCHANGED <<table, eks, aws, alb, bound>>

\* ... and no Launch suspended by somebody else; the names become the intent.
CheckAsg ==
  /\ At("check_asg")
  /\ IF AsgOf(pc.group) \in suspended
     THEN EndRun
     ELSE /\ groups' = [groups EXCEPT ![pc.group] = [NoGroup EXCEPT !.asg = asg[pc.group]]]
          /\ Continue("save_sleeping")
          /\ UNCHANGED <<nodes, done>>
  /\ UNCHANGED <<table, eks, aws, alb, bound>>

\* Leaves the phase to the last save of the run.
SaveSleepingMutant ==
  /\ At("save_sleeping")
  /\ owned' = {<<g, groups[g].asg>> : g \in Groups}
  /\ Goto("describe_nodegroup", FirstGroup)
  /\ UNCHANGED <<phase, nodes, groups, done, eks, aws, alb, bound>>

SaveSleeping ==
  /\ At("save_sleeping")
  /\ phase' = "sleeping"
  /\ owned' = {<<g, groups[g].asg>> : g \in Groups}
  /\ Goto("describe_nodegroup", FirstGroup)
  /\ UNCHANGED <<nodes, groups, done, eks, aws, alb, bound>>

\* has_request: a published 5XX datapoint of the window wakes the cluster.
Detect ==
  /\ At("detect")
  /\ IF hit = "published" THEN SaveWaking ELSE UNCHANGED <<phase, hit>>
  /\ Goto("describe_nodegroup", FirstGroup)
  /\ UNCHANGED <<owned, nodes, groups, done, eks, aws, runHit, bound>>

DescribeNodegroup ==
  /\ At("describe_nodegroup")
  /\ nodes' = [nodes EXCEPT ![pc.group] = ng[pc.group]]
  /\ Continue("describe_asg")
  /\ UNCHANGED <<table, groups, done, eks, aws, alb, bound>>

\* The ownership check: no node group was replaced since the sleep command.
SameGroupsMutant(names) == owned \intersect names # {}
SameGroups(names) == owned = names

\* The last describe is followed by the ownership check, which raises.
DescribeAsg ==
  LET g == pc.group
      group == [asg |-> asg[g], actual |-> desired[g], empty |-> (inst[g] = 0),
                inService |-> IF g = "general" THEN serving ELSE 0]
      names == {<<g, asg[g]>>, <<FirstGroup, groups[FirstGroup].asg>>}
  IN
  /\ At("describe_asg")
  /\ \/ /\ g # FirstGroup /\ ~ SameGroups(names)
        /\ EndRun
     \/ /\ g = FirstGroup \/ SameGroups(names)
        /\ groups' = [groups EXCEPT ![g] = group]
        /\ Continue("launch")
        /\ UNCHANGED <<nodes, done>>
  /\ UNCHANGED <<table, eks, aws, alb, bound>>

\* The wake branch names its groups, general first; the sleep branch iterates.
FirstResized == IF phase = "waking" THEN "general" ELSE FirstGroup

\* suspend_processes / resume_processes on one owned ASG.
Launch ==
  /\ At("launch")
  /\ LET a == <<pc.group, groups[pc.group].asg>> IN
     IF phase = "waking"
     THEN suspended' = suspended \ {a} /\ foreign' = foreign \ {a}
     ELSE suspended' = suspended \union {a} /\ UNCHANGED foreign
  /\ IF pc.group = FirstGroup THEN Goto("launch", SecondGroup) ELSE Goto("resize", FirstResized)
  /\ UNCHANGED <<table, nodes, groups, done, eks, asg, desired, inst, serving, alb, bound>>

\* resize(): what this run asks of group g, from what it saw.
MaxOf(a, b) == IF a >= b THEN a ELSE b
MinimumMutant(g) == 0
Minimum(g) == IF phase = "waking" THEN Floor[g] ELSE 0
Wanted(g) ==
  IF phase = "waking" THEN MaxOf(WakeSize[g], MaxOf(nodes[g].size, groups[g].actual)) ELSE 0
\* Ignores the minimum size.
SettledMutant(g) == nodes[g].size = Wanted(g) /\ groups[g].actual = Wanted(g)
Settled(g) ==
  /\ nodes[g].size = Wanted(g) /\ groups[g].actual = Wanted(g)
  /\ nodes[g].min = Minimum(g)

NextResize ==
  IF pc.group = FirstResized
  THEN Goto("resize", Other(FirstResized))
  ELSE Goto("finish", FirstGroup)

\* update_nodegroup_config is rejected while another update is in progress.
ResizeGroup ==
  LET g == pc.group IN
  /\ At("resize")
  /\ \/ /\ ~ nodes[g].active
        /\ NextResize /\ UNCHANGED <<nodes, groups, done, eks>>
     \/ /\ nodes[g].active /\ Settled(g)
        /\ NextResize /\ done' = done \union {g} /\ UNCHANGED <<nodes, groups, eks>>
     \/ /\ nodes[g].active /\ ~ Settled(g) /\ ng[g].active
        /\ ng' = [ng EXCEPT ![g].active = FALSE]
        /\ target' = [target EXCEPT ![g] = [min |-> Minimum(g), size |-> Wanted(g)]]
        /\ NextResize /\ UNCHANGED <<nodes, groups, done>>
     \* rejected: the wake branch survives that for the AI group, a run otherwise raises
     \/ /\ nodes[g].active /\ ~ Settled(g) /\ ~ ng[g].active
        /\ phase = "waking" /\ g = "ai_worker"
        /\ NextResize /\ UNCHANGED <<nodes, groups, done, eks>>
     \/ /\ nodes[g].active /\ ~ Settled(g) /\ ~ ng[g].active
        /\ ~ (phase = "waking" /\ g = "ai_worker")
        /\ EndRun /\ UNCHANGED eks
  /\ UNCHANGED <<table, aws, alb, bound>>

\* An update call that fails for any other reason; only the AI one is caught.
AiUpdateFails ==
  /\ At("resize") /\ phase = "waking" /\ pc.group = "ai_worker"
  /\ nodes["ai_worker"].active /\ ~ Settled("ai_worker")
  /\ faults < MaxFaults /\ faults' = faults + 1
  /\ NextResize
  /\ UNCHANGED <<table, nodes, groups, done, eks, aws, alb, scalings>>

\* Trusts the sizes and not the instances.
SleepCompleteMutant == done = Groups
SleepComplete == done = Groups /\ \A g \in Groups : groups[g].empty
FallsAsleepMutant == phase \in {"sleeping", "asleep"} /\ SleepComplete
FallsAsleep == phase = "sleeping" /\ SleepComplete
\* Forgets the AI prewarm.
WakeCompleteMutant == "general" \in done /\ groups["general"].inService >= 2
WakeComplete == done = Groups /\ groups["general"].inService >= 2
Awakes == phase = "waking" /\ WakeComplete

\* The last save of the run.  `since` is the start of this run rounded down to
\* a minute: a 5XX of this run stays in the window, an earlier one may.
Finish ==
  /\ At("finish")
  /\ \/ /\ FallsAsleep
        /\ phase' = "asleep"
        /\ hit' \in IF runHit THEN {hit} ELSE {"none", hit}
     \/ /\ Awakes
        /\ phase' = "awake"
        /\ UNCHANGED hit
     \/ /\ ~ FallsAsleep /\ ~ Awakes
        /\ UNCHANGED <<phase, hit>>
  /\ EndRun
  /\ UNCHANGED <<owned, eks, aws, runHit, bound>>

\* A call raises (before or after it took effect), or the Lambda times out.
Crash ==
  /\ ~ At("idle")
  /\ faults < MaxFaults /\ faults' = faults + 1
  /\ EndRun
  /\ UNCHANGED <<table, eks, aws, alb, scalings>>

-----------------------------------------------------------------------------
(* Everything the Lambda does not serialise.                               *)

\* EKS finishes an update: the node group and its ASG take the new sizes.
EksApply(g) ==
  /\ ~ ng[g].active
  /\ ng' = [ng EXCEPT ![g] = [active |-> TRUE, min |-> target[g].min, size |-> target[g].size]]
  /\ desired' = [desired EXCEPT ![g] = target[g].size]
  /\ UNCHANGED <<table, run, target, asg, suspended, foreign, inst, serving, alb, bound>>

\* EKS copies the desired size of the ASG only now and then.
EksSync(g) ==
  /\ ng[g].active /\ ng[g].size # desired[g]
  /\ ng' = [ng EXCEPT ![g].size = desired[g]]
  /\ UNCHANGED <<table, run, target, aws, alb, bound>>

\* An update from outside the controller (terraform apply restores the minimum).
OutsideUpdate(g) ==
  /\ ng[g].active
  /\ faults < MaxFaults /\ faults' = faults + 1
  /\ ng' = [ng EXCEPT ![g].active = FALSE]
  /\ target' = [target EXCEPT ![g] = [min |-> Floor[g], size |-> MaxOf(Floor[g], ng[g].size)]]
  /\ UNCHANGED <<table, run, aws, alb, scalings>>

\* The cluster autoscaler runs on general nodes and writes the ASG directly.
Autoscale(g) ==
  /\ serving > 0
  /\ scalings < MaxScalings /\ scalings' = scalings + 1
  /\ \E n \in ng[g].min .. MaxSize[g] :
       n # desired[g] /\ desired' = [desired EXCEPT ![g] = n]
  /\ UNCHANGED <<table, run, eks, asg, suspended, foreign, inst, serving, alb, faults>>

StartInstance(g) ==
  /\ AsgOf(g) \notin suspended /\ inst[g] < desired[g]
  /\ inst' = [inst EXCEPT ![g] = @ + 1]
  /\ UNCHANGED <<table, run, eks, asg, suspended, foreign, desired, serving, alb, bound>>

InstanceServes ==
  /\ serving < inst["general"]
  /\ serving' = serving + 1
  /\ UNCHANGED <<table, run, eks, asg, suspended, foreign, desired, inst, alb, bound>>

\* An instance of g goes: pending ones first or not.
RemoveInstance(g) ==
  /\ inst[g] > 0
  /\ inst' = [inst EXCEPT ![g] = @ - 1]
  /\ serving' \in IF g # "general" THEN {serving}
                  ELSE {serving, serving - 1} \intersect (0 .. inst[g] - 1)
  /\ UNCHANGED <<table, run, eks, asg, suspended, foreign, desired, alb>>

StopInstance(g) == inst[g] > desired[g] /\ RemoveInstance(g) /\ UNCHANGED bound

LoseInstance(g) ==
  /\ inst[g] <= desired[g] /\ RemoveInstance(g)
  /\ faults < MaxFaults /\ faults' = faults + 1 /\ UNCHANGED scalings

\* An operator suspends Launch for reasons of his own, or resumes it.
OperatorSuspend(g) ==
  /\ phase = "awake" /\ AsgOf(g) \notin suspended
  /\ suspended' = suspended \union {AsgOf(g)} /\ foreign' = foreign \union {AsgOf(g)}
  /\ UNCHANGED <<table, run, eks, asg, desired, inst, serving, alb, bound>>

OperatorResume(g) ==
  /\ phase = "awake" /\ AsgOf(g) \in foreign
  /\ suspended' = suspended \ {AsgOf(g)} /\ foreign' = foreign \ {AsgOf(g)}
  /\ UNCHANGED <<table, run, eks, asg, desired, inst, serving, alb, bound>>

\* A node group is deleted and created again (minutes of work, between runs).
ReplaceNodegroup(g) ==
  /\ At("idle") /\ phase = "asleep" /\ asg[g] < MaxReplacements
  /\ asg' = [asg EXCEPT ![g] = @ + 1]
  /\ ng' = [ng EXCEPT ![g] = [active |-> TRUE, min |-> Floor[g], size |-> Floor[g]]]
  /\ desired' = [desired EXCEPT ![g] = Floor[g]]
  /\ inst' = [inst EXCEPT ![g] = 0]
  /\ serving' = IF g = "general" THEN 0 ELSE serving
  /\ UNCHANGED <<table, run, target, suspended, foreign, alb, bound>>

\* The ALB answers 5XX, first for the evicted pods and then for want of nodes.
\* Those of the other phases lie before the start of the next window.
UserHit ==
  /\ phase \in {"sleeping", "asleep"}
  /\ hit' = IF hit = "none" THEN "unpublished" ELSE hit
  /\ runHit' = (phase = "sleeping" /\ ~ At("idle"))
  /\ UNCHANGED <<table, run, eks, aws, bound>>

\* CloudWatch delivers the datapoint late.
Publish ==
  /\ hit = "unpublished" /\ hit' = "published"
  /\ UNCHANGED <<table, run, eks, aws, runHit, bound>>

-----------------------------------------------------------------------------
Invoke == InvokeSleep \/ InvokeWake \/ InvokeRequest \/ InvokeTick

LambdaCall ==
  \/ CheckNodegroup \/ CheckAsg \/ SaveSleeping \/ Detect
  \/ DescribeNodegroup \/ DescribeAsg \/ Launch \/ ResizeGroup \/ Finish

Controller == Invoke \/ LambdaCall \/ AiUpdateFails \/ Crash

Cloud ==
  \/ \E g \in Groups :
       \/ EksApply(g) \/ EksSync(g) \/ OutsideUpdate(g) \/ Autoscale(g)
       \/ StartInstance(g) \/ StopInstance(g) \/ LoseInstance(g)
       \/ OperatorSuspend(g) \/ OperatorResume(g) \/ ReplaceNodegroup(g)
  \/ InstanceServes \/ UserHit \/ Publish

Next == Controller \/ Cloud

Spec == Init /\ [][Next]_vars

\* EventBridge fires every minute and drops what it cannot deliver, so a tick
\* lands if the Lambda is free again and again; a call returns; AWS works off
\* its own queue.  Operators, users and the autoscaler promise nothing.
Fairness ==
  /\ SF_vars(InvokeTick) /\ WF_vars(LambdaCall)
  /\ \A g \in Groups : WF_vars(EksApply(g)) /\ WF_vars(StartInstance(g)) /\ WF_vars(StopInstance(g))
  /\ WF_vars(InstanceServes) /\ WF_vars(Publish)

FairSpec == Spec /\ Fairness

-----------------------------------------------------------------------------
TypeOK ==
  /\ phase \in Phases /\ owned \subseteq Asgs
  /\ pc \in [stage : Stages, group : Groups]
  /\ nodes \in [Groups -> Nodegroups] /\ groups \in [Groups -> Descriptions]
  /\ done \subseteq Groups
  /\ ng \in [Groups -> Nodegroups]
  /\ target \in [Groups -> Configs]
  /\ asg \in [Groups -> 0 .. MaxReplacements]
  /\ suspended \subseteq Asgs /\ foreign \subseteq suspended
  /\ desired \in [Groups -> Sizes] /\ inst \in [Groups -> Sizes] /\ serving \in Sizes
  /\ hit \in {"none", "unpublished", "published"} /\ runHit \in BOOLEAN
  /\ faults \in 0 .. MaxFaults /\ scalings \in 0 .. MaxScalings

\* "Persist intent before AWS mutations so the next tick can recover partial
\* updates": whenever the controller holds a Launch suspended, or has emptied
\* the general group or asked EKS to, a non-awake phase owning it is on record,
\* whatever call the previous run died at.
IntentCoversMutation ==
  /\ suspended \ foreign # {} => phase # "awake" /\ suspended \ foreign \subseteq owned
  /\ ng["general"].min = 0 \/ (~ ng["general"].active /\ target["general"].min = 0) => phase # "awake"

\* Asleep means asleep: as long as the phase is asleep no owned group has an
\* instance and none can start one, although the AI group was described before
\* the general one and the autoscaler may have raised it in between.
AsleepMeansGone ==
  phase = "asleep" =>
    \A g \in Groups : AsgOf(g) \in owned => inst[g] = 0 /\ AsgOf(g) \in suspended

\* Awake means the general group keeps itself at two nodes: Launch is not held
\* by the controller, and EKS, its pending update and the ASG all ask for two.
AwakeKeepsCapacity ==
  phase = "awake" =>
    /\ \A g \in Groups : AsgOf(g) \in suspended => AsgOf(g) \in foreign
    /\ ng["general"].min = 2 /\ desired["general"] >= 2
    /\ ~ ng["general"].active => target["general"].min = 2 /\ target["general"].size >= 2

\* A wake in progress is never turned back: no command, late tick or crash
\* takes a waking cluster anywhere but to awake.
WakeNotCancelled == [][phase = "waking" => phase' \in {"waking", "awake"}]_vars

\* Awake is only reached with every Launch restored and with both groups seen
\* at the requested size, so the AI prewarm is not lost to a failed update.
AwakeOnlyWhenReady ==
  [][phase # "awake" /\ phase' = "awake" =>
       /\ owned \intersect suspended = {}
       /\ \A g \in Groups : nodes[g].active /\ nodes[g].size >= WakeSize[g] /\ groups[g].actual >= WakeSize[g]]_vars

\* The controller never touches an ASG outside the persisted sleep intent: a
\* replaced node group is neither suspended, resumed nor resized by it.
ForeignGroupUntouched ==
  [][Controller => \A g \in Groups : AsgOf(g) \notin owned /\ phase # "awake" =>
       /\ UNCHANGED <<ng[g], target[g]>>
       /\ AsgOf(g) \in suspended <=> AsgOf(g) \in suspended']_vars

\* A request that reaches the ALB while the cluster is asleep wakes it, however
\* late its datapoint is delivered and however many ticks ran before.
RequestWakes == (phase = "asleep" /\ hit # "none") ~> phase = "waking"

\* A wake whose node groups are still the recorded ones completes, from any
\* mixture of half-applied sleep and wake calls.
WakeCompletes == (phase = "waking" /\ owned = CurrentAsgs) ~> phase = "awake"

\* A sleep settles: the cluster falls asleep or is woken, never stuck between.
SleepSettles == phase = "sleeping" ~> phase \in {"asleep", "waking"}

\* "During wake retain any larger operator/autoscaler capacity": an update the
\* wake asked for (never to zero) does not lower the desired size of a group.
WakeRetainsCapacity ==
  [][\A g \in Groups : phase = "waking" /\ target[g].size > 0 /\ EksApply(g) =>
       desired'[g] >= desired[g]]_vars

-----------------------------------------------------------------------------
(* The strengthening under which the safety properties are inductive.      *)

Describing == {"describe_nodegroup", "describe_asg", "launch", "resize", "finish"}
Acting == {"launch", "resize", "finish"}
Second == pc.group # FirstGroup
SeenAsgs == {<<g, groups[g].asg>> : g \in Groups}

\* Which phase a stage belongs to, and what the local variables hold there.
StageInv ==
  /\ pc.stage \in {"check_nodegroup", "check_asg", "save_sleeping"} => phase = "awake"
  /\ pc.stage = "detect" => phase = "asleep"
  /\ pc.stage \in Describing => phase # "awake"
  /\ pc.stage \notin Describing => \A g \in Groups : ~ nodes[g].active /\ ~ groups[g].empty
  /\ pc.stage = "describe_nodegroup" => \A g \in Groups : ~ groups[g].empty
  /\ pc.stage \in Acting => owned = SeenAsgs
  /\ pc.stage \in {"resize", "finish"} \/ done = {}
  /\ \A g \in done : nodes[g].active /\ Settled(g)

\* ASGs described in this run are still the current ones; none is newer.
AsgInv ==
  /\ \A a \in owned : a[2] <= asg[a[1]]
  /\ pc.stage \in Acting \union {"save_sleeping"} => SeenAsgs = CurrentAsgs
  /\ pc.stage \in {"check_asg", "describe_asg"} /\ Second => groups[FirstGroup].asg = asg[FirstGroup]

\* Launch processes: held under a recorded intent, complete once a run has
\* passed the launch stage, and complete before anything can be sized to zero.
EmptyingGeneral ==
  ng["general"].min = 0 \/ (~ ng["general"].active /\ target["general"].min = 0)
LaunchInv ==
  /\ \A a \in suspended \ foreign : phase # "awake" /\ a \in owned
  /\ pc.stage = "launch" /\ Second => (AsgOf(FirstGroup) \in suspended <=> phase # "waking")
  /\ pc.stage \in {"resize", "finish"} =>
       IF phase = "waking" THEN owned \intersect suspended = {} ELSE owned \subseteq suspended
  /\ phase \in {"sleeping", "asleep"} /\ EmptyingGeneral => owned \subseteq suspended

\* A general group seen at minimum 0 was seen after Launch was suspended, so a
\* group seen empty stays empty; one seen at minimum 2 stays there in a wake.
SeenInv ==
  /\ phase = "sleeping" /\ nodes["general"].active /\ nodes["general"].min = 0 =>
       /\ owned \subseteq suspended
       /\ \A g \in Groups : groups[g].empty /\ AsgOf(g) \in owned => inst[g] = 0
  /\ phase = "waking" /\ nodes["general"].active /\ nodes["general"].min = 2 => ~ EmptyingGeneral

\* An update that keeps the minimum keeps the size, and the ASG obeys both.
CapacityInv ==
  /\ desired["general"] >= ng["general"].min
  /\ target["general"].size >= target["general"].min
  /\ phase = "awake" => ~ EmptyingGeneral

IInv == TypeOK /\ StageInv /\ AsgInv /\ LaunchInv /\ SeenInv /\ CapacityInv /\ AsleepMeansGone
=============================================================================
