------------------------- MODULE RequestWake_proofs -------------------------
(***************************************************************************)
(* Proofs about RequestWake for every group order, ASG maximum, and bound  *)
(* on faults, autoscaler writes and node group replacements.               *)
(***************************************************************************)
EXTENDS RequestWake, TLAPS

\* The sizes form an initial segment of Nat that holds what a wake asks for.
LEMMA SizesFacts ==
  /\ Sizes \subseteq Nat
  /\ \A n \in Sizes : \A m \in Nat : m <= n => m \in Sizes
  /\ 0 \in Sizes /\ 1 \in Sizes /\ 2 \in Sizes
  /\ \A g \in Groups : 0 .. MaxSize[g] \subseteq Sizes
<1>1. MaxSize \in [Groups -> Nat] /\ MaxSize["general"] >= 2
  BY SizeAssumption DEF Groups, WakeSize
<1>2. \A g \in Groups : 0 .. MaxSize[g] \subseteq Sizes
  BY DEF Sizes
<1>3. Sizes \subseteq Nat
  BY <1>1 DEF Sizes
<1>4. ASSUME NEW n \in Sizes, NEW m \in Nat, m <= n PROVE m \in Sizes
  <2>1. PICK g \in Groups : n \in 0 .. MaxSize[g]
    BY DEF Sizes
  <2>2. m \in 0 .. MaxSize[g]
    BY <2>1, <1>1, <1>4
  <2> QED BY <2>2, <1>2
<1>5. 0 \in Sizes /\ 1 \in Sizes /\ 2 \in Sizes
  <2>1. "general" \in Groups
    BY DEF Groups
  <2>2. MaxSize["general"] \in Nat /\ 2 <= MaxSize["general"]
    BY <1>1, <2>1
  <2>3. 2 \in 0 .. MaxSize["general"]
    BY <2>2
  <2>4. 2 \in Sizes
    BY <1>2, <2>1, <2>3
  <2> QED BY <2>4, <1>4
<1> QED BY <1>2, <1>3, <1>4, <1>5

LEMMA SizesNat == \A n \in Sizes : n \in Nat
BY SizesFacts

\* Neighbouring sizes within a bound are sizes.
LEMMA SizesStep ==
  /\ \A n, m \in Sizes : n < m => n + 1 \in Sizes
  /\ \A n \in Sizes : n > 0 => n - 1 \in Sizes /\ 0 .. (n - 1) \subseteq Sizes
<1>1. ASSUME NEW n \in Sizes, NEW m \in Sizes, n < m PROVE n + 1 \in Sizes
  <2>1. n + 1 \in Nat /\ n + 1 <= m
    BY <1>1, SizesNat
  <2> QED BY <2>1, SizesFacts
<1>2. ASSUME NEW n \in Sizes, n > 0, NEW m \in 0 .. (n - 1) PROVE m \in Sizes
  <2>1. m \in Nat /\ m <= n
    BY <1>2, SizesNat
  <2> QED BY <2>1, SizesFacts
<1>3. ASSUME NEW n \in Sizes, n > 0 PROVE n - 1 \in Sizes
  <2>1. n - 1 \in 0 .. (n - 1)
    BY <1>3, SizesNat
  <2> QED BY <2>1, <1>2, <1>3
<1> QED BY <1>1, <1>2, <1>3

LEMMA DeactivateType == \A r \in Nodegroups : [r EXCEPT !.active = FALSE] \in Nodegroups
BY DEF Nodegroups

\* The two groups, the one that comes first, and the constants of each.
LEMMA GroupFacts ==
  /\ FirstGroup \in Groups /\ SecondGroup \in Groups /\ FirstGroup # SecondGroup
  /\ "general" \in Groups /\ "ai_worker" \in Groups
  /\ \A g \in Groups : g = FirstGroup \/ g = SecondGroup
  /\ \A g \in Groups : Other(g) \in Groups /\ Other(g) # g
  /\ Floor \in [Groups -> {0, 2}] /\ Floor["general"] = 2
  /\ WakeSize \in [Groups -> {1, 2}] /\ WakeSize["general"] = 2
BY GroupAssumption DEF Groups, SecondGroup, Other, Floor, WakeSize

LEMMA UnsetType == NoNode \in Nodegroups /\ NoGroup \in Descriptions
BY SizesFacts, BoundAssumption DEF NoNode, NoGroup, Nodegroups, Descriptions

\* Where the program counter and the locals go when a run ends or continues.
LEMMA ControlType ==
  ASSUME TypeOK
  PROVE  /\ EndRun => /\ pc' \in [stage : Stages, group : Groups]
                      /\ nodes' \in [Groups -> Nodegroups]
                      /\ groups' \in [Groups -> Descriptions] /\ done' \subseteq Groups
         /\ \A s \in Stages, g \in Groups : Goto(s, g) => pc' \in [stage : Stages, group : Groups]
         /\ \A s \in Stages : Continue(s) => pc' \in [stage : Stages, group : Groups]
         /\ NextResize => pc' \in [stage : Stages, group : Groups]
<1>1. pc.stage \in Stages /\ {"idle", "resize", "finish"} \subseteq Stages
  BY DEF TypeOK, Stages
<1>2. FirstResized \in Groups
  BY GroupFacts DEF FirstResized
<1> QED BY <1>1, <1>2, GroupFacts, UnsetType DEF EndRun, Goto, Continue, NextResize

-----------------------------------------------------------------------------
LEMMA InitInv == Init => IInv
<1> SUFFICES ASSUME Init PROVE IInv
  OBVIOUS
<1> USE GroupFacts, SizesFacts DEF Init
<1>1. TypeOK
  <2>1. nodes \in [Groups -> Nodegroups] /\ groups \in [Groups -> Descriptions]
    BY UnsetType
  <2>2. Floor \in [Groups -> Sizes]
    OBVIOUS
  <2>3. ng \in [Groups -> Nodegroups] /\ target \in [Groups -> Configs]
    BY <2>2 DEF Configs, Nodegroups
  <2>4. pc \in [stage : Stages, group : Groups]
    BY DEF Stages
  <2>5. asg \in [Groups -> 0 .. MaxReplacements] /\ faults \in 0 .. MaxFaults /\ scalings \in 0 .. MaxScalings
    BY BoundAssumption
  <2> QED BY <2>1, <2>2, <2>3, <2>4, <2>5 DEF TypeOK, Phases
<1>2. StageInv /\ AsgInv
  BY DEF StageInv, AsgInv, NoNode, NoGroup, Describing, Acting
<1>3. LaunchInv /\ SeenInv /\ CapacityInv /\ AsleepMeansGone
  BY DEF LaunchInv, SeenInv, CapacityInv, AsleepMeansGone, EmptyingGeneral
<1> QED BY <1>1, <1>2, <1>3 DEF IInv

-----------------------------------------------------------------------------
(* TypeOK is preserved, one step per action. *)
LEMMA TypeStep == TypeOK /\ [Next]_vars => TypeOK'
<1> SUFFICES ASSUME TypeOK, [Next]_vars PROVE TypeOK'
  OBVIOUS
<1> USE GroupFacts DEF TypeOK, table, eks, aws, alb, bound
<1>1. CASE InvokeSleep
  BY <1>1, ControlType DEF InvokeSleep, Stages
<1>2. CASE InvokeWake
  BY <1>2, ControlType DEF InvokeWake, SaveWaking, Stages, Phases
<1>3. CASE InvokeRequest
  BY <1>3, ControlType DEF InvokeRequest, SaveWaking, Stages, Phases
<1>4. CASE InvokeTick
  BY <1>4, ControlType DEF InvokeTick, Stages
<1>5. CASE CheckNodegroup
  BY <1>5, ControlType DEF CheckNodegroup, Stages
<1>6. CASE CheckAsg
  <2>1. [NoGroup EXCEPT !.asg = asg[pc.group]] \in Descriptions
    BY UnsetType DEF Descriptions
  <2> QED BY <1>6, <2>1, ControlType DEF CheckAsg, Stages
<1>7. CASE SaveSleeping
  <2>1. owned' \subseteq Asgs
    BY <1>7 DEF SaveSleeping, Asgs, Descriptions
  <2> QED BY <1>7, <2>1, ControlType DEF SaveSleeping, Stages, Phases
<1>8. CASE Detect
  BY <1>8, ControlType DEF Detect, SaveWaking, Stages, Phases
<1>9. CASE DescribeNodegroup
  BY <1>9, ControlType DEF DescribeNodegroup, Stages
<1>10. CASE DescribeAsg
  <2>1. pc.group \in Groups
    OBVIOUS
  <2>2. [asg |-> asg[pc.group], actual |-> desired[pc.group], empty |-> (inst[pc.group] = 0),
         inService |-> IF pc.group = "general" THEN serving ELSE 0] \in Descriptions
    BY <2>1, SizesFacts DEF Descriptions
  <2> QED BY <1>10, <2>1, <2>2, ControlType DEF DescribeAsg, Stages
<1>11. CASE Launch
  <2>1. suspended' \subseteq Asgs /\ foreign' \subseteq suspended'
    BY <1>11 DEF Launch, Asgs, Descriptions
  <2> QED BY <1>11, <2>1, ControlType DEF Launch, Stages, FirstResized
<1>12. CASE ResizeGroup
  <2>1. pc.group \in Groups
    OBVIOUS
  <2>2. [ng[pc.group] EXCEPT !.active = FALSE] \in Nodegroups
    BY <2>1, DeactivateType
  <2>3. [min |-> Minimum(pc.group), size |-> Wanted(pc.group)] \in Configs
    BY <2>1, SizesFacts DEF Configs, Minimum, Wanted, MaxOf, Nodegroups, Descriptions
  <2>4. ng' \in [Groups -> Nodegroups] /\ target' \in [Groups -> Configs]
    <3>1. CASE UNCHANGED eks
      BY <3>1
    <3>2. CASE /\ ng' = [ng EXCEPT ![pc.group] = [ng[pc.group] EXCEPT !.active = FALSE]]
               /\ target' = [target EXCEPT ![pc.group] = [min |-> Minimum(pc.group), size |-> Wanted(pc.group)]]
      BY <2>1, <2>2, <2>3, <3>2
    <3> QED BY <1>12, <3>1, <3>2 DEF ResizeGroup
  <2>5. /\ pc' \in [stage : Stages, group : Groups] /\ done' \subseteq Groups
        /\ nodes' \in [Groups -> Nodegroups] /\ groups' \in [Groups -> Descriptions]
    BY <1>12, <2>1, ControlType DEF ResizeGroup
  <2> QED BY <1>12, <2>4, <2>5 DEF ResizeGroup
<1>13. CASE AiUpdateFails
  BY <1>13, ControlType, BoundAssumption DEF AiUpdateFails
<1>14. CASE Finish
  BY <1>14, ControlType DEF Finish, Phases
<1>15. CASE Crash
  BY <1>15, ControlType, BoundAssumption DEF Crash
<1>16. ASSUME NEW g \in Groups, EksApply(g) PROVE TypeOK'
  BY <1>16 DEF EksApply, run, Nodegroups, Configs
<1>17. ASSUME NEW g \in Groups, EksSync(g) PROVE TypeOK'
  BY <1>17 DEF EksSync, run, Nodegroups
<1>18. ASSUME NEW g \in Groups, OutsideUpdate(g) PROVE TypeOK'
  <2>1. MaxOf(Floor[g], ng[g].size) \in Sizes /\ Floor[g] \in {0, 2}
    BY SizesFacts DEF MaxOf, Nodegroups
  <2>2. [ng[g] EXCEPT !.active = FALSE] \in Nodegroups
    BY DeactivateType
  <2>3. [min |-> Floor[g], size |-> MaxOf(Floor[g], ng[g].size)] \in Configs
    BY <2>1 DEF Configs
  <2> QED BY <1>18, <2>2, <2>3, BoundAssumption DEF OutsideUpdate, run
<1>19. ASSUME NEW g \in Groups, Autoscale(g) PROVE TypeOK'
  <2>1. PICK n \in ng[g].min .. MaxSize[g] : desired' = [desired EXCEPT ![g] = n]
    BY <1>19 DEF Autoscale
  <2>2. n \in Sizes
    <3>1. n \in Nat /\ n <= MaxSize[g] /\ MaxSize[g] \in Nat
      <4>1. ng[g].min \in {0, 2} /\ MaxSize[g] \in Nat
        BY SizeAssumption DEF Nodegroups
      <4> QED BY <2>1, <4>1
    <3>2. n \in 0 .. MaxSize[g]
      BY <3>1
    <3> QED BY <3>2, SizesFacts
  <2> QED BY <1>19, <2>1, <2>2, BoundAssumption DEF Autoscale, run
<1>20. ASSUME NEW g \in Groups, StartInstance(g) PROVE TypeOK'
  <2>1. inst[g] \in Sizes /\ desired[g] \in Sizes /\ inst[g] < desired[g]
    BY <1>20 DEF StartInstance
  <2>2. inst[g] + 1 \in Sizes
    BY <2>1, SizesStep
  <2> QED BY <1>20, <2>2 DEF StartInstance, run
<1>21. ASSUME NEW g \in Groups, RemoveInstance(g), UNCHANGED scalings, faults' \in 0 .. MaxFaults
       PROVE  TypeOK'
  <2>1. inst[g] \in Sizes /\ inst[g] > 0
    BY <1>21 DEF RemoveInstance
  <2>2. inst[g] - 1 \in Sizes /\ 0 .. (inst[g] - 1) \subseteq Sizes
    BY <2>1, SizesStep
  <2>3. serving' \in Sizes
    <3>1. CASE serving' = serving
      BY <3>1
    <3>2. CASE serving' # serving
      <4>1. serving' \in 0 .. (inst[g] - 1)
        BY <1>21, <3>2 DEF RemoveInstance
      <4> QED BY <4>1, <2>2
    <3> QED BY <3>1, <3>2
  <2> QED BY <1>21, <2>2, <2>3 DEF RemoveInstance, run
<1>22. ASSUME NEW g \in Groups, StopInstance(g) PROVE TypeOK'
  BY <1>21, <1>22 DEF StopInstance
<1>23. ASSUME NEW g \in Groups, LoseInstance(g) PROVE TypeOK'
  BY <1>21, <1>23, BoundAssumption DEF LoseInstance
<1>24. ASSUME NEW g \in Groups, OperatorSuspend(g) PROVE TypeOK'
  BY <1>24 DEF OperatorSuspend, run, AsgOf, Asgs
<1>25. ASSUME NEW g \in Groups, OperatorResume(g) PROVE TypeOK'
  BY <1>25 DEF OperatorResume, run
<1>26. ASSUME NEW g \in Groups, ReplaceNodegroup(g) PROVE TypeOK'
  BY <1>26, BoundAssumption, SizesFacts DEF ReplaceNodegroup, run, Nodegroups
<1>27. CASE InstanceServes
  <2>1. serving \in Sizes /\ inst["general"] \in Sizes /\ serving < inst["general"]
    BY <1>27 DEF InstanceServes
  <2>2. serving + 1 \in Sizes
    BY <2>1, SizesStep
  <2> QED BY <1>27, <2>2 DEF InstanceServes, run
<1>28. CASE UserHit \/ Publish
  BY <1>28 DEF UserHit, Publish, run
<1>29. CASE UNCHANGED vars
  BY <1>29 DEF vars, run
<1> QED
  BY <1>1, <1>2, <1>3, <1>4, <1>5, <1>6, <1>7, <1>8, <1>9, <1>10, <1>11, <1>12, <1>13, <1>14, <1>15,
     <1>16, <1>17, <1>18, <1>19, <1>20, <1>22, <1>23, <1>24, <1>25, <1>26, <1>27, <1>28, <1>29
  DEF Next, Controller, Invoke, LambdaCall, Cloud

-----------------------------------------------------------------------------
\* The cloud's actions change neither the table nor the locals of a run, and
\* the controller changes no ASG generation, size or instance count.
LEMMA CloudFrame == Cloud => UNCHANGED <<table, run>>
<1> SUFFICES ASSUME Cloud PROVE UNCHANGED <<table, run>>
  OBVIOUS
<1> QED
  BY DEF Cloud, EksApply, EksSync, OutsideUpdate, Autoscale, StartInstance, StopInstance, LoseInstance,
         RemoveInstance, OperatorSuspend, OperatorResume, ReplaceNodegroup, InstanceServes, UserHit, Publish

LEMMA ControllerFrame == Controller => UNCHANGED <<asg, desired, inst, serving>>
<1> SUFFICES ASSUME Controller PROVE UNCHANGED <<asg, desired, inst, serving>>
  OBVIOUS
<1> QED
  BY DEF Controller, Invoke, InvokeSleep, InvokeWake, InvokeRequest, InvokeTick, LambdaCall, CheckNodegroup,
         CheckAsg, SaveSleeping, Detect, DescribeNodegroup, DescribeAsg, Launch, ResizeGroup, Finish,
         AiUpdateFails, Crash, aws

-----------------------------------------------------------------------------
(* StageInv: only the controller's own steps can disturb it. *)
LEMMA StageStep == TypeOK /\ StageInv /\ [Next]_vars => StageInv'
<1> SUFFICES ASSUME TypeOK, StageInv, [Next]_vars PROVE StageInv'
  OBVIOUS
<1> USE GroupFacts
<1>1. CASE UNCHANGED <<table, run>>
  BY <1>1 DEF StageInv, table, run, Settled, Wanted, Minimum, SeenAsgs
<1>2. CASE EndRun /\ UNCHANGED owned
  BY <1>2 DEF EndRun, Goto, StageInv, Describing, Acting, NoNode, NoGroup
<1>3. CASE Invoke
  BY <1>3 DEF Invoke, InvokeSleep, InvokeWake, InvokeRequest, InvokeTick, SaveWaking, At, Goto, table,
              StageInv, Describing, Acting
<1>4. CASE CheckNodegroup
  BY <1>2, <1>4 DEF CheckNodegroup, Continue, At, Goto, table, StageInv, Describing, Acting
<1>5. CASE CheckAsg
  BY <1>2, <1>5 DEF CheckAsg, Continue, At, Goto, table, StageInv, Describing, Acting, NoGroup, TypeOK
<1>6. CASE SaveSleeping
  BY <1>6 DEF SaveSleeping, At, Goto, StageInv, Describing, Acting
<1>7. CASE Detect
  BY <1>7 DEF Detect, SaveWaking, At, Goto, StageInv, Describing, Acting
<1>8. CASE DescribeNodegroup
  BY <1>8 DEF DescribeNodegroup, Continue, At, Goto, table, StageInv, Describing, Acting
<1>9. CASE DescribeAsg
  <2>1. CASE EndRun
    BY <1>2, <1>9, <2>1 DEF DescribeAsg, table
  <2>2. CASE ~ EndRun
    <3>1. done' = {} /\ pc'.stage \in {"describe_asg", "launch"} /\ UNCHANGED <<phase, owned>>
      BY <1>9, <2>2 DEF DescribeAsg, SameGroups, At, Continue, Goto, StageInv, table, TypeOK
    <3>2. pc'.stage = "launch" => owned' = SeenAsgs'
      BY <1>9, <2>2 DEF DescribeAsg, SameGroups, At, Continue, Goto, SeenAsgs, table, TypeOK
    <3> QED BY <1>9, <2>2, <3>1, <3>2 DEF DescribeAsg, At, StageInv, Describing, Acting
  <2> QED BY <2>1, <2>2
<1>10. CASE Launch
  BY <1>10 DEF Launch, At, Goto, table, StageInv, Describing, Acting, SeenAsgs
<1>11. CASE ResizeGroup \/ AiUpdateFails
  <2>1. CASE EndRun
    BY <1>2, <1>11, <2>1 DEF ResizeGroup, AiUpdateFails, table
  <2>2. CASE ~ EndRun
    BY <1>11, <2>2 DEF ResizeGroup, AiUpdateFails, NextResize, At, Goto, table, StageInv, Describing, Acting,
                   SeenAsgs, Settled, Wanted, Minimum
  <2> QED BY <2>1, <2>2
<1>12. CASE Finish \/ Crash
  BY <1>2, <1>12 DEF Finish, Crash, table
<1> QED
  BY <1>1, <1>3, <1>4, <1>5, <1>6, <1>7, <1>8, <1>9, <1>10, <1>11, <1>12, CloudFrame
  DEF Next, Controller, LambdaCall, vars

-----------------------------------------------------------------------------
(* AsgInv: the controller records what it describes, and a node group is   *)
(* only replaced between runs.                                             *)
LEMMA AsgStep == TypeOK /\ StageInv /\ AsgInv /\ [Next]_vars => AsgInv'
<1> SUFFICES ASSUME TypeOK, StageInv, AsgInv, [Next]_vars PROVE AsgInv'
  OBVIOUS
<1> USE GroupFacts
<1>1. CASE UNCHANGED <<table, run, asg>>
  BY <1>1 DEF AsgInv, table, run, SeenAsgs, CurrentAsgs, AsgOf, Second
<1>2. ASSUME NEW g \in Groups, ReplaceNodegroup(g) PROVE AsgInv'
  <2>1. \A k \in Groups : asg'[k] >= asg[k] /\ asg[k] \in Nat /\ asg'[k] \in Nat
    BY <1>2 DEF ReplaceNodegroup, TypeOK
  <2>2. \A a \in owned : a[1] \in Groups /\ a[2] \in Nat
    BY DEF TypeOK, Asgs
  <2>3. \A a \in owned : a[2] <= asg'[a[1]]
    BY <2>1, <2>2 DEF AsgInv
  <2> QED BY <1>2, <2>3 DEF ReplaceNodegroup, AsgInv, At, Acting, table, run
<1>3. CASE EndRun /\ UNCHANGED <<owned, asg>>
  BY <1>3 DEF EndRun, Goto, AsgInv, Acting
<1>4. ASSUME Controller PROVE AsgInv'
  <2>1. UNCHANGED asg
    BY <1>4, ControllerFrame
  <2>2. CASE Invoke
    BY <2>1, <2>2 DEF Invoke, InvokeSleep, InvokeWake, InvokeRequest, InvokeTick, Goto, table, AsgInv, Acting, Second
  <2>3. CASE CheckNodegroup
    BY <1>3, <2>1, <2>3 DEF CheckNodegroup, Continue, At, Goto, table, AsgInv, Acting, Second
  <2>4. CASE CheckAsg
    <3>1. CASE EndRun
      BY <1>3, <2>1, <2>4, <3>1 DEF CheckAsg, table
    <3>2. CASE ~ EndRun
      <4>1. /\ groups' = [groups EXCEPT ![pc.group] = [NoGroup EXCEPT !.asg = asg[pc.group]]]
            /\ pc.group \in Groups /\ Continue("save_sleeping") /\ UNCHANGED owned /\ At("check_asg")
        BY <2>4, <3>2 DEF CheckAsg, table, TypeOK
      <4>2. groups'[pc.group].asg = asg'[pc.group]
        BY <2>1, <4>1 DEF TypeOK, NoGroup
      <4>3. pc.group = SecondGroup => groups'[FirstGroup].asg = asg'[FirstGroup]
        BY <2>1, <4>1 DEF TypeOK, AsgInv, At, Second
      <4> QED BY <2>1, <4>1, <4>2, <4>3 DEF Continue, At, Goto, AsgInv, Acting, Second, SeenAsgs, CurrentAsgs, AsgOf
    <3> QED BY <3>1, <3>2
  <2>5. CASE SaveSleeping
    <3>1. owned' = CurrentAsgs
      BY <2>5 DEF SaveSleeping, At, AsgInv, SeenAsgs
    <3>2. \A a \in owned' : a[2] <= asg'[a[1]]
      BY <2>1, <3>1 DEF CurrentAsgs, AsgOf, TypeOK
    <3> QED BY <2>1, <2>5, <3>2 DEF SaveSleeping, Goto, AsgInv, Acting, Second
  <2>6. CASE Detect
    BY <2>1, <2>6 DEF Detect, Goto, AsgInv, Acting
  <2>7. CASE DescribeNodegroup
    BY <2>1, <2>7 DEF DescribeNodegroup, Continue, At, Goto, table, AsgInv, Acting, Second
  <2>8. CASE DescribeAsg
    <3>1. CASE EndRun
      BY <1>3, <2>1, <2>8, <3>1 DEF DescribeAsg, table
    <3>2. CASE ~ EndRun
      <4>1. /\ groups'[pc.group].asg = asg[pc.group] /\ pc.group \in Groups
            /\ \A g \in Groups \ {pc.group} : groups'[g] = groups[g]
            /\ Continue("launch") /\ UNCHANGED owned /\ At("describe_asg")
        BY <2>8, <3>2 DEF DescribeAsg, table, TypeOK
      <4>2. pc.group = SecondGroup => groups'[FirstGroup].asg = asg'[FirstGroup]
        BY <2>1, <4>1 DEF AsgInv, At, Second
      <4> QED BY <2>1, <4>1, <4>2 DEF Continue, At, Goto, AsgInv, Acting, Second, SeenAsgs, CurrentAsgs, AsgOf
    <3> QED BY <3>1, <3>2
  <2>9. CASE Launch \/ ResizeGroup \/ AiUpdateFails
    <3>1. CASE EndRun
      BY <1>3, <2>1, <2>9, <3>1 DEF Launch, ResizeGroup, AiUpdateFails, table
    <3>2. CASE ~ EndRun
      BY <2>1, <2>9, <3>2 DEF Launch, ResizeGroup, AiUpdateFails, NextResize, At, Goto, table,
                             AsgInv, Acting, SeenAsgs, CurrentAsgs, AsgOf
    <3> QED BY <3>1, <3>2
  <2>10. CASE Finish \/ Crash
    BY <1>3, <2>1, <2>10 DEF Finish, Crash, table
  <2> QED BY <1>4, <2>2, <2>3, <2>4, <2>5, <2>6, <2>7, <2>8, <2>9, <2>10 DEF Controller, LambdaCall
<1>5. CASE Cloud
  <2>1. UNCHANGED asg \/ \E g \in Groups : ReplaceNodegroup(g)
    BY <1>5 DEF Cloud, EksApply, EksSync, OutsideUpdate, Autoscale, StartInstance, StopInstance, LoseInstance,
                RemoveInstance, OperatorSuspend, OperatorResume, InstanceServes, UserHit, Publish, aws
  <2> QED BY <1>1, <1>2, <1>5, <2>1, CloudFrame
<1> QED
  BY <1>1, <1>4, <1>5 DEF Next, vars, aws

-----------------------------------------------------------------------------
\* Nothing outside the controller starts emptying the general group.
LEMMA EmptyFrame == TypeOK /\ Cloud /\ EmptyingGeneral' => EmptyingGeneral
<1> SUFFICES ASSUME TypeOK, Cloud, EmptyingGeneral' PROVE EmptyingGeneral
  OBVIOUS
<1> USE GroupFacts DEF EmptyingGeneral, TypeOK, Nodegroups
<1>1. CASE UNCHANGED eks
  BY <1>1 DEF eks
<1>2. ASSUME NEW g \in Groups, EksApply(g) PROVE EmptyingGeneral
  BY <1>2 DEF EksApply
<1>5. ASSUME NEW g \in Groups, EksSync(g) PROVE EmptyingGeneral
  BY <1>5 DEF EksSync
<1>3. ASSUME NEW g \in Groups, OutsideUpdate(g) PROVE EmptyingGeneral
  BY <1>3 DEF OutsideUpdate
<1>4. ASSUME NEW g \in Groups, ReplaceNodegroup(g) PROVE EmptyingGeneral
  BY <1>4 DEF ReplaceNodegroup
<1> QED
  BY <1>1, <1>2, <1>3, <1>4, <1>5
  DEF Cloud, Autoscale, StartInstance, StopInstance, LoseInstance, RemoveInstance, OperatorSuspend,
      OperatorResume, InstanceServes, UserHit, Publish, eks

\* What a run that got as far as acting works on are the current ASGs.
LEMMA ActingFacts ==
  ASSUME TypeOK, StageInv, AsgInv, pc.stage \in Acting
  PROVE  /\ \A g \in Groups : groups[g].asg = asg[g]
         /\ owned = {AsgOf(FirstGroup), AsgOf(SecondGroup)} /\ phase # "awake"
<1>1. SeenAsgs = CurrentAsgs /\ owned = SeenAsgs
  BY DEF AsgInv, StageInv
<1>2. \A g \in Groups : groups[g].asg = asg[g]
  <2> SUFFICES ASSUME NEW g \in Groups PROVE groups[g].asg = asg[g]
    OBVIOUS
  <2>1. <<g, groups[g].asg>> \in CurrentAsgs
    BY <1>1 DEF SeenAsgs
  <2> QED BY <2>1 DEF CurrentAsgs, AsgOf
<1>3. phase # "awake"
  BY DEF StageInv, Acting, Describing
<1> QED BY <1>1, <1>2, <1>3, GroupFacts DEF CurrentAsgs

-----------------------------------------------------------------------------
(* LaunchInv: what is suspended is owned, in a run and between runs. *)
LEMMA LaunchStep ==
  TypeOK /\ StageInv /\ AsgInv /\ LaunchInv /\ CapacityInv /\ [Next]_vars => LaunchInv'
<1> SUFFICES ASSUME TypeOK, StageInv, AsgInv, LaunchInv, CapacityInv, [Next]_vars PROVE LaunchInv'
  OBVIOUS
<1> USE GroupFacts
<1>1. ASSUME UNCHANGED <<table, suspended, foreign>>, EmptyingGeneral' => EmptyingGeneral,
             pc'.stage \in {"launch", "resize", "finish"} => UNCHANGED <<pc, asg>>
      PROVE  LaunchInv'
  BY <1>1 DEF LaunchInv, table, Second, AsgOf
<1>2. ASSUME UNCHANGED <<owned, suspended, foreign, eks>>, phase # "awake", phase' = "waking",
             pc'.stage \notin {"launch", "resize", "finish"}
      PROVE  LaunchInv'
  BY <1>2 DEF LaunchInv
<1>3. CASE Invoke
  BY <1>1, <1>2, <1>3 DEF Invoke, InvokeSleep, InvokeWake, InvokeRequest, InvokeTick, SaveWaking, Goto,
                          table, aws, eks, EmptyingGeneral
<1>4. CASE CheckNodegroup \/ CheckAsg \/ DescribeNodegroup
  BY <1>1, <1>4 DEF CheckNodegroup, CheckAsg, DescribeNodegroup, Continue, EndRun, At, Goto,
                    table, aws, eks, EmptyingGeneral
<1>5. CASE SaveSleeping
  <2>1. phase = "awake" /\ suspended' \ foreign' = {} /\ ~ EmptyingGeneral'
    BY <1>5 DEF SaveSleeping, At, StageInv, LaunchInv, CapacityInv, EmptyingGeneral, aws, eks
  <2> QED BY <1>5, <2>1 DEF SaveSleeping, Goto, LaunchInv
<1>6. CASE Detect
  <2>1. phase = "asleep"
    BY <1>6 DEF Detect, At, StageInv
  <2> QED BY <1>1, <1>2, <1>6, <2>1 DEF Detect, SaveWaking, Goto, table, aws, eks, EmptyingGeneral
<1>7. CASE DescribeAsg
  <2>1. CASE EndRun
    BY <1>1, <1>7, <2>1 DEF DescribeAsg, EndRun, Goto, table, aws, eks, EmptyingGeneral
  <2>2. CASE ~ EndRun
    <3>1. pc'.stage \in {"describe_asg", "launch"} /\ (pc'.stage = "launch" => pc'.group = FirstGroup)
      BY <1>7, <2>2 DEF DescribeAsg, SameGroups, At, Continue, Goto
    <3> QED BY <1>7, <3>1 DEF DescribeAsg, LaunchInv, Second, table, aws, eks, EmptyingGeneral
  <2> QED BY <2>1, <2>2
<1>8. CASE Launch
  <2>1. /\ groups[pc.group].asg = asg[pc.group] /\ pc.group \in Groups /\ phase # "awake"
        /\ owned = {AsgOf(FirstGroup), AsgOf(SecondGroup)} /\ AsgOf(pc.group) \in owned
    <3>1. pc.stage \in Acting /\ pc.group \in Groups
      BY <1>8 DEF Launch, At, Acting, TypeOK
    <3> QED BY <3>1, ActingFacts
  <2>2. UNCHANGED <<table, eks, asg>>
    BY <1>8 DEF Launch
  <2>3. IF phase = "waking" THEN suspended' = suspended \ {AsgOf(pc.group)} /\ foreign' = foreign \ {AsgOf(pc.group)}
        ELSE suspended' = suspended \union {AsgOf(pc.group)} /\ UNCHANGED foreign
    BY <1>8, <2>1 DEF Launch, AsgOf
  <2>4. \A a \in suspended' \ foreign' : phase' # "awake" /\ a \in owned'
    BY <2>1, <2>2, <2>3 DEF LaunchInv, table
  <2>5. phase' \in {"sleeping", "asleep"} /\ EmptyingGeneral' => owned' \subseteq suspended'
    BY <2>2, <2>3 DEF LaunchInv, EmptyingGeneral, table, eks
  <2>6. CASE pc.group = FirstGroup
    <3>1. pc'.stage = "launch" /\ (AsgOf(FirstGroup)' \in suspended' <=> phase' # "waking")
      BY <1>8, <2>2, <2>3, <2>6 DEF Launch, Goto, AsgOf, table
    <3> QED BY <2>4, <2>5, <3>1 DEF LaunchInv
  <2>7. CASE pc.group = SecondGroup
    <3>1. AsgOf(FirstGroup) \in suspended <=> phase # "waking"
      BY <1>8, <2>7 DEF Launch, At, LaunchInv, Second
    <3>2. AsgOf(FirstGroup) # AsgOf(SecondGroup)
      BY DEF AsgOf
    <3>3. IF phase = "waking" THEN owned \intersect suspended' = {} ELSE owned \subseteq suspended'
      BY <2>1, <2>3, <2>7, <3>1, <3>2
    <3>4. pc'.stage = "resize"
      BY <1>8, <2>7 DEF Launch, Goto
    <3> QED BY <2>2, <2>4, <2>5, <3>3, <3>4 DEF LaunchInv, table
  <2> QED BY <2>1, <2>6, <2>7
<1>9. CASE ResizeGroup
  <2>1. UNCHANGED <<table, suspended, foreign, asg>> /\ phase # "awake"
    BY <1>9 DEF ResizeGroup, aws, At, StageInv, Describing
  <2>2. IF phase = "waking" THEN owned \intersect suspended = {} ELSE owned \subseteq suspended
    BY <1>9 DEF ResizeGroup, At, LaunchInv
  <2>3. pc'.stage # "launch"
    BY <1>9 DEF ResizeGroup, NextResize, EndRun, Goto
  <2> QED BY <2>1, <2>2, <2>3 DEF LaunchInv, table
<1>10. CASE AiUpdateFails
  BY <1>10 DEF AiUpdateFails, NextResize, At, Goto, LaunchInv, EmptyingGeneral, table, aws, eks
<1>11. CASE Finish
  <2>1. IF phase = "waking" THEN owned \intersect suspended = {} ELSE owned \subseteq suspended
    BY <1>11 DEF Finish, At, LaunchInv
  <2> QED BY <1>11, <2>1 DEF Finish, FallsAsleep, Awakes, EndRun, Goto, LaunchInv, EmptyingGeneral, aws, eks
<1>12. CASE Crash
  BY <1>1, <1>12 DEF Crash, EndRun, Goto, EmptyingGeneral, table, aws, eks
<1>13. CASE Cloud
  <2>1. ASSUME NEW g \in Groups, OperatorSuspend(g) \/ OperatorResume(g) PROVE LaunchInv'
    <3>1. phase = "awake" /\ UNCHANGED <<table, pc, eks>> /\ suspended' \ foreign' \subseteq suspended \ foreign
      BY <2>1 DEF OperatorSuspend, OperatorResume, run, TypeOK
    <3> QED BY <3>1 DEF LaunchInv, StageInv, Describing, table
  <2>2. ASSUME NEW g \in Groups, ReplaceNodegroup(g) PROVE LaunchInv'
    <3>1. UNCHANGED <<table, pc, suspended, foreign>> /\ pc.stage = "idle"
      BY <2>2 DEF ReplaceNodegroup, At, run
    <3> QED BY <1>1, <1>13, <3>1, EmptyFrame
  <2>3. UNCHANGED <<suspended, foreign, asg>> \/ \E g \in Groups : OperatorSuspend(g) \/ OperatorResume(g) \/ ReplaceNodegroup(g)
    BY <1>13 DEF Cloud, EksApply, EksSync, OutsideUpdate, Autoscale, StartInstance, StopInstance, LoseInstance,
                 RemoveInstance, InstanceServes, UserHit, Publish, aws
  <2> QED BY <1>1, <1>13, <2>1, <2>2, <2>3, CloudFrame, EmptyFrame DEF run
<1>14. CASE UNCHANGED vars
  BY <1>1, <1>14 DEF vars, run, aws, eks, EmptyingGeneral
<1> QED
  BY <1>3, <1>4, <1>5, <1>6, <1>7, <1>8, <1>9, <1>10, <1>11, <1>12, <1>13, <1>14
  DEF Next, Controller, LambdaCall

-----------------------------------------------------------------------------
(* SeenInv: what a run saw of a group it is emptying, or keeping, stays so. *)
LEMMA SeenStep ==
  TypeOK /\ StageInv /\ AsgInv /\ LaunchInv /\ SeenInv /\ [Next]_vars => SeenInv'
<1> SUFFICES ASSUME TypeOK, StageInv, AsgInv, LaunchInv, SeenInv, [Next]_vars PROVE SeenInv'
  OBVIOUS
<1> USE GroupFacts
<1>1. CASE ~ nodes'["general"].active
  BY <1>1 DEF SeenInv
<1>2. ASSUME EndRun PROVE SeenInv'
  BY <1>1, <1>2 DEF EndRun, NoNode
<1>3. CASE Invoke \/ CheckNodegroup \/ CheckAsg \/ SaveSleeping \/ Detect
  <2>1. pc.stage \notin Describing
    BY <1>3 DEF Invoke, InvokeSleep, InvokeWake, InvokeRequest, InvokeTick, CheckNodegroup, CheckAsg,
                SaveSleeping, Detect, At, Describing
  <2>2. ~ nodes["general"].active
    BY <2>1 DEF StageInv
  <2>3. UNCHANGED nodes \/ EndRun
    BY <1>3 DEF Invoke, InvokeSleep, InvokeWake, InvokeRequest, InvokeTick, CheckNodegroup, CheckAsg,
                SaveSleeping, Detect
  <2> QED BY <1>1, <1>2, <2>2, <2>3
<1>4. CASE DescribeNodegroup
  <2>1. /\ UNCHANGED <<phase, owned, groups, suspended, inst, eks, asg>>
        /\ \A g \in Groups : ~ groups[g].empty
    BY <1>4 DEF DescribeNodegroup, At, StageInv, table, aws
  <2>2. UNCHANGED <<nodes>> \/ nodes'["general"] = ng["general"] \/ nodes'["general"] = nodes["general"]
    BY <1>4 DEF DescribeNodegroup, TypeOK
  <2>3. CASE nodes'["general"] = nodes["general"]
    BY <2>1, <2>3 DEF SeenInv, EmptyingGeneral, eks
  <2>4. CASE nodes'["general"] = ng["general"]
    <3>1. UNCHANGED EmptyingGeneral
      BY <2>1 DEF EmptyingGeneral, eks
    <3>2. phase' = "sleeping" /\ nodes'["general"].min = 0 => owned' \subseteq suspended'
      BY <2>1, <2>4 DEF LaunchInv, EmptyingGeneral
    <3>3. nodes'["general"].active /\ nodes'["general"].min = 2 => ~ EmptyingGeneral
      BY <2>4 DEF EmptyingGeneral
    <3> QED BY <2>1, <3>1, <3>2, <3>3 DEF SeenInv
  <2> QED BY <2>2, <2>3, <2>4
<1>5. CASE DescribeAsg
  <2>1. CASE ~ EndRun
    <3>1. /\ UNCHANGED <<table, nodes, eks, aws>> /\ pc.group \in Groups
          /\ groups'[pc.group].empty = (inst[pc.group] = 0)
          /\ \A g \in Groups \ {pc.group} : groups'[g] = groups[g]
      BY <1>5, <2>1 DEF DescribeAsg, TypeOK
    <3> QED BY <3>1 DEF SeenInv, EmptyingGeneral, AsgOf, table, eks, aws
  <2> QED BY <1>2, <2>1
<1>6. CASE Launch
  <2>1. UNCHANGED <<table, nodes, groups, eks, asg, inst>> /\ (phase = "sleeping" => suspended \subseteq suspended')
    BY <1>6 DEF Launch
  <2> QED BY <2>1 DEF SeenInv, EmptyingGeneral, AsgOf, table, eks
<1>7. CASE ResizeGroup \/ AiUpdateFails
  <2>1. CASE ~ EndRun
    <3>1. UNCHANGED <<table, nodes, groups, aws>>
      BY <1>7, <2>1 DEF ResizeGroup, AiUpdateFails
    <3>2. phase = "waking" /\ ~ EmptyingGeneral => ~ EmptyingGeneral'
      <4>1. CASE UNCHANGED eks
        BY <4>1 DEF EmptyingGeneral, eks
      <4>2. CASE /\ ng' = [ng EXCEPT ![pc.group].active = FALSE]
                 /\ target' = [target EXCEPT ![pc.group] = [min |-> Minimum(pc.group), size |-> Wanted(pc.group)]]
        BY <4>2 DEF EmptyingGeneral, TypeOK, Nodegroups, Configs, Minimum
      <4> QED BY <1>7, <4>1, <4>2 DEF ResizeGroup, AiUpdateFails
    <3> QED BY <3>1, <3>2 DEF SeenInv, AsgOf, table, aws
  <2> QED BY <1>2, <2>1
<1>8. CASE Finish \/ Crash
  BY <1>2, <1>8 DEF Finish, Crash
<1>9. CASE Cloud
  <2>1. UNCHANGED <<phase, owned, pc, nodes, groups>>
    BY <1>9, CloudFrame DEF table, run
  <2>2. ASSUME UNCHANGED <<asg, suspended>>,
               \A g \in Groups : AsgOf(g) \in owned /\ owned \subseteq suspended /\ inst[g] = 0 => inst'[g] = 0
        PROVE  SeenInv'
    BY <1>9, <2>1, <2>2, EmptyFrame DEF SeenInv, AsgOf
  <2>3. ASSUME NEW g \in Groups, OperatorSuspend(g) \/ OperatorResume(g) \/ ReplaceNodegroup(g) PROVE SeenInv'
    <3>1. phase \in {"awake", "asleep"}
      BY <2>3 DEF OperatorSuspend, OperatorResume, ReplaceNodegroup
    <3> QED BY <2>1, <3>1 DEF SeenInv
  <2>4. ASSUME NEW g \in Groups, StartInstance(g) PROVE SeenInv'
    BY <2>2, <2>4 DEF StartInstance, TypeOK
  <2>5. ASSUME NEW g \in Groups, RemoveInstance(g) PROVE SeenInv'
    <3>1. \A k \in Groups : inst[k] = 0 => inst'[k] = 0
      BY <2>5 DEF RemoveInstance, TypeOK
    <3> QED BY <2>2, <2>5, <3>1 DEF RemoveInstance
  <2>6. \/ UNCHANGED <<asg, suspended, inst>>
        \/ \E g \in Groups : \/ OperatorSuspend(g) \/ OperatorResume(g) \/ ReplaceNodegroup(g)
                             \/ StartInstance(g) \/ RemoveInstance(g)
    BY <1>9 DEF Cloud, EksApply, EksSync, OutsideUpdate, Autoscale, StopInstance, LoseInstance,
                InstanceServes, UserHit, Publish, aws
  <2> QED BY <2>2, <2>3, <2>4, <2>5, <2>6
<1>10. CASE UNCHANGED vars
  BY <1>10 DEF vars, run, aws, eks, table, SeenInv, EmptyingGeneral, AsgOf
<1> QED
  BY <1>3, <1>4, <1>5, <1>6, <1>7, <1>8, <1>9, <1>10 DEF Next, Controller, LambdaCall

-----------------------------------------------------------------------------
(* CapacityInv: while awake, nothing applied or pending empties general. *)
LEMMA CapacityStep ==
  TypeOK /\ StageInv /\ SeenInv /\ CapacityInv /\ [Next]_vars => CapacityInv'
<1> SUFFICES ASSUME TypeOK, StageInv, SeenInv, CapacityInv, [Next]_vars PROVE CapacityInv'
  OBVIOUS
<1> USE GroupFacts
<1>1. ASSUME UNCHANGED <<desired, eks>>, phase' = "awake" => phase = "awake" PROVE CapacityInv'
  BY <1>1 DEF CapacityInv, EmptyingGeneral, eks
<1>2. CASE Invoke \/ CheckNodegroup \/ CheckAsg \/ SaveSleeping \/ Detect \/ DescribeNodegroup
           \/ DescribeAsg \/ Launch \/ AiUpdateFails \/ Crash
  <2>1. UNCHANGED <<desired, eks>>
    BY <1>2, ControllerFrame DEF Controller, LambdaCall, Invoke, InvokeSleep, InvokeWake, InvokeRequest, InvokeTick,
       CheckNodegroup, CheckAsg, SaveSleeping, Detect, DescribeNodegroup, DescribeAsg, Launch, AiUpdateFails, Crash
  <2>2. phase' = "awake" => phase = "awake"
    BY <1>2 DEF Invoke, InvokeSleep, InvokeWake, InvokeRequest, InvokeTick, SaveWaking, CheckNodegroup, CheckAsg,
       SaveSleeping, Detect, DescribeNodegroup, DescribeAsg, Launch, AiUpdateFails, Crash, table
  <2> QED BY <1>1, <2>1, <2>2
<1>3. CASE ResizeGroup
  <2>1. phase # "awake" /\ UNCHANGED <<phase, desired>>
    BY <1>3 DEF ResizeGroup, At, StageInv, Describing, table, aws
  <2>2. CASE UNCHANGED eks
    BY <1>1, <2>1, <2>2
  <2>3. CASE /\ ng' = [ng EXCEPT ![pc.group].active = FALSE]
             /\ target' = [target EXCEPT ![pc.group] = [min |-> Minimum(pc.group), size |-> Wanted(pc.group)]]
    <3>1. ng'["general"].min = ng["general"].min
      BY <2>3 DEF TypeOK, Nodegroups
    <3>2. Wanted("general") >= Minimum("general")
      <4>1. nodes["general"].size \in Nat /\ groups["general"].actual \in Nat
        BY SizesNat DEF TypeOK, Nodegroups, Descriptions
      <4> QED BY <4>1 DEF Wanted, Minimum, MaxOf
    <3>3. target'["general"].size >= target'["general"].min
      BY <2>3, <3>2 DEF TypeOK, CapacityInv
    <3> QED BY <2>1, <3>1, <3>3 DEF CapacityInv
  <2> QED BY <1>3, <2>2, <2>3 DEF ResizeGroup
<1>4. CASE Finish
  <2>1. UNCHANGED <<desired, eks>>
    BY <1>4 DEF Finish, aws
  <2>2. CASE phase' = "awake" /\ phase # "awake"
    <3>1. phase = "waking" /\ "general" \in done
      BY <1>4, <2>2 DEF Finish, FallsAsleep, Awakes, WakeComplete
    <3>2. nodes["general"].active /\ nodes["general"].min = 2
      BY <3>1 DEF StageInv, Settled, Minimum
    <3> QED BY <2>1, <3>1, <3>2 DEF SeenInv, CapacityInv, EmptyingGeneral, eks
  <2> QED BY <1>1, <2>1, <2>2
<1>5. CASE Cloud
  <2>1. UNCHANGED phase /\ (EmptyingGeneral' => EmptyingGeneral)
    BY <1>5, CloudFrame, EmptyFrame DEF table
  <2>2. ASSUME desired'["general"] >= ng'["general"].min, target'["general"].size >= target'["general"].min
        PROVE  CapacityInv'
    BY <2>1, <2>2 DEF CapacityInv
  <2>3. ASSUME NEW g \in Groups, EksApply(g) PROVE CapacityInv'
    <3>1. desired'["general"] >= ng'["general"].min
      BY <2>3 DEF EksApply, TypeOK, CapacityInv
    <3> QED BY <2>2, <2>3, <3>1 DEF EksApply, CapacityInv
  <2>4. ASSUME NEW g \in Groups, EksSync(g) PROVE CapacityInv'
    <3>1. ng'["general"].min = ng["general"].min
      BY <2>4 DEF EksSync, TypeOK, Nodegroups
    <3> QED BY <2>2, <2>4, <3>1 DEF EksSync, CapacityInv, aws
  <2>5. ASSUME NEW g \in Groups, OutsideUpdate(g) PROVE CapacityInv'
    <3>1. ng'["general"].min = ng["general"].min
      BY <2>5 DEF OutsideUpdate, TypeOK, Nodegroups
    <3>2. MaxOf(Floor[g], ng[g].size) >= Floor[g]
      <4>1. ng[g].size \in Sizes
        BY DEF TypeOK, Nodegroups
      <4>2. ng[g].size \in Nat
        BY <4>1, SizesNat
      <4>3. Floor[g] \in {0, 2}
        OBVIOUS
      <4> QED BY <4>2, <4>3 DEF MaxOf
    <3>3. target'["general"].size >= target'["general"].min
      BY <2>5, <3>2 DEF OutsideUpdate, TypeOK, CapacityInv
    <3> QED BY <2>2, <2>5, <3>1, <3>3 DEF OutsideUpdate, CapacityInv, aws
  <2>6. ASSUME NEW g \in Groups, Autoscale(g) PROVE CapacityInv'
    <3>1. PICK n \in ng[g].min .. MaxSize[g] : desired' = [desired EXCEPT ![g] = n]
      BY <2>6 DEF Autoscale
    <3>2. n >= ng[g].min
      BY <3>1, SizeAssumption DEF TypeOK, Nodegroups
    <3>3. desired'["general"] >= ng["general"].min
      BY <3>1, <3>2 DEF TypeOK, CapacityInv
    <3> QED BY <2>2, <2>6, <3>3 DEF Autoscale, CapacityInv, eks
  <2>7. ASSUME NEW g \in Groups, ReplaceNodegroup(g) PROVE CapacityInv'
    BY <2>2, <2>7 DEF ReplaceNodegroup, TypeOK, CapacityInv
  <2>8. \/ UNCHANGED <<desired, eks>>
        \/ \E g \in Groups : EksApply(g) \/ EksSync(g) \/ OutsideUpdate(g) \/ Autoscale(g) \/ ReplaceNodegroup(g)
    BY <1>5 DEF Cloud, StartInstance, StopInstance, LoseInstance, RemoveInstance, OperatorSuspend, OperatorResume,
                InstanceServes, UserHit, Publish, aws
  <2> QED BY <1>1, <2>1, <2>3, <2>4, <2>5, <2>6, <2>7, <2>8
<1>6. CASE UNCHANGED vars
  BY <1>1, <1>6 DEF vars, table, aws
<1> QED
  BY <1>2, <1>3, <1>4, <1>5, <1>6 DEF Next, Controller, LambdaCall

-----------------------------------------------------------------------------
(* AsleepMeansGone: groups seen empty under a held Launch are empty still. *)
LEMMA AsleepStep ==
  TypeOK /\ StageInv /\ AsgInv /\ LaunchInv /\ SeenInv /\ AsleepMeansGone /\ [Next]_vars => AsleepMeansGone'
<1> SUFFICES ASSUME TypeOK, StageInv, AsgInv, LaunchInv, SeenInv, AsleepMeansGone, [Next]_vars
             PROVE  AsleepMeansGone'
  OBVIOUS
<1> USE GroupFacts
<1>1. ASSUME UNCHANGED <<owned, asg>>, phase' = "asleep" => phase = "asleep",
             \A g \in Groups : inst[g] = 0 /\ AsgOf(g) \in suspended => inst'[g] = 0 /\ AsgOf(g) \in suspended'
      PROVE  AsleepMeansGone'
  BY <1>1 DEF AsleepMeansGone, AsgOf
<1>2. CASE Invoke \/ CheckNodegroup \/ CheckAsg \/ SaveSleeping \/ Detect \/ DescribeNodegroup
           \/ DescribeAsg \/ ResizeGroup \/ AiUpdateFails \/ Crash
  <2>1. UNCHANGED <<asg, suspended, inst>>
    BY <1>2 DEF Invoke, InvokeSleep, InvokeWake, InvokeRequest, InvokeTick, CheckNodegroup, CheckAsg, SaveSleeping,
       Detect, DescribeNodegroup, DescribeAsg, ResizeGroup, AiUpdateFails, Crash, aws
  <2>2. phase' = "asleep" => phase = "asleep" /\ UNCHANGED owned
    BY <1>2 DEF Invoke, InvokeSleep, InvokeWake, InvokeRequest, InvokeTick, SaveWaking, CheckNodegroup, CheckAsg,
       SaveSleeping, Detect, DescribeNodegroup, DescribeAsg, ResizeGroup, AiUpdateFails, Crash, table
  <2> QED BY <2>1, <2>2 DEF AsleepMeansGone, AsgOf
<1>3. CASE Launch
  <2>1. UNCHANGED <<table, asg, inst>>
    BY <1>3 DEF Launch
  <2>2. phase = "asleep" => suspended \subseteq suspended'
    BY <1>3 DEF Launch
  <2> QED BY <2>1, <2>2 DEF AsleepMeansGone, AsgOf, table
<1>4. CASE Finish
  <2>1. UNCHANGED <<owned, asg, suspended, inst>>
    BY <1>4 DEF Finish, aws
  <2>2. CASE phase' = "asleep" /\ phase # "asleep"
    <3>1. phase = "sleeping" /\ done = Groups /\ \A g \in Groups : groups[g].empty
      BY <1>4, <2>2 DEF Finish, FallsAsleep, Awakes, SleepComplete
    <3>2. nodes["general"].active /\ nodes["general"].min = 0
      BY <3>1 DEF StageInv, Settled, Minimum
    <3> QED BY <2>1, <3>1, <3>2 DEF SeenInv, AsleepMeansGone, AsgOf
  <2> QED BY <1>1, <2>1, <2>2 DEF AsgOf
<1>5. CASE Cloud
  <2>1. UNCHANGED <<phase, owned>>
    BY <1>5, CloudFrame DEF table
  <2>2. ASSUME NEW g \in Groups, StartInstance(g) PROVE AsleepMeansGone'
    BY <1>1, <2>1, <2>2 DEF StartInstance, TypeOK, AsgOf
  <2>3. ASSUME NEW g \in Groups, RemoveInstance(g) PROVE AsleepMeansGone'
    <3>1. \A k \in Groups : inst[k] = 0 => inst'[k] = 0
      BY <2>3 DEF RemoveInstance, TypeOK
    <3> QED BY <1>1, <2>1, <2>3, <3>1 DEF RemoveInstance, AsgOf
  <2>4. ASSUME NEW g \in Groups, OperatorSuspend(g) \/ OperatorResume(g) PROVE AsleepMeansGone'
    BY <2>1, <2>4 DEF OperatorSuspend, OperatorResume, AsleepMeansGone
  <2>5. ASSUME NEW g \in Groups, ReplaceNodegroup(g) PROVE AsleepMeansGone'
    <3>1. /\ UNCHANGED suspended /\ \A k \in Groups \ {g} : inst'[k] = inst[k] /\ asg'[k] = asg[k]
          /\ asg'[g] = asg[g] + 1 /\ asg[g] \in Nat
      BY <2>5 DEF ReplaceNodegroup, TypeOK
    <3>2. AsgOf(g)' \notin owned
      <4>1. \A a \in owned : a[1] = g => a[2] \in Nat /\ a[2] <= asg[g]
        BY DEF AsgInv, TypeOK, Asgs
      <4>2. <<g, asg[g] + 1>> \notin owned
        <5> SUFFICES ASSUME <<g, asg[g] + 1>> \in owned PROVE FALSE
          OBVIOUS
        <5>1. asg[g] + 1 <= asg[g]
          BY <4>1
        <5> QED BY <3>1, <5>1
      <4> QED BY <3>1, <4>2 DEF AsgOf
    <3> QED BY <2>1, <3>1, <3>2 DEF AsleepMeansGone, AsgOf
  <2>6. \/ UNCHANGED <<asg, suspended, inst>>
        \/ \E g \in Groups : \/ OperatorSuspend(g) \/ OperatorResume(g) \/ ReplaceNodegroup(g)
                             \/ StartInstance(g) \/ RemoveInstance(g)
    BY <1>5 DEF Cloud, EksApply, EksSync, OutsideUpdate, Autoscale, StopInstance, LoseInstance,
                InstanceServes, UserHit, Publish, aws
  <2> QED BY <1>1, <2>1, <2>2, <2>3, <2>4, <2>5, <2>6 DEF AsgOf
<1>6. CASE UNCHANGED vars
  BY <1>6 DEF vars, table, aws, AsleepMeansGone, AsgOf
<1> QED
  BY <1>2, <1>3, <1>4, <1>5, <1>6 DEF Next, Controller, LambdaCall

-----------------------------------------------------------------------------
\* The inductive invariant: in every reachable state the locals of a run, the
\* suspended Launch processes and the sizes agree with the recorded phase.
THEOREM Invariance == Spec => []IInv
<1>1. IInv /\ [Next]_vars => IInv'
  BY TypeStep, StageStep, AsgStep, LaunchStep, SeenStep, CapacityStep, AsleepStep DEF IInv
<1> QED BY InitInv, <1>1, PTL DEF Spec

\* Every variable keeps its type, whatever the constants are.
THEOREM TypeCorrect == Spec => []TypeOK
<1>1. IInv => TypeOK
  BY DEF IInv
<1> QED BY Invariance, <1>1, PTL

\* request_wake saves its phase before it mutates AWS (handler.py:127): a crash
\* at any call leaves an intent on record that covers what was changed.
THEOREM IntentCovers == Spec => []IntentCoversMutation
<1>1. IInv => IntentCoversMutation
  BY DEF IInv, LaunchInv, CapacityInv, EmptyingGeneral, IntentCoversMutation
<1> QED BY Invariance, <1>1, PTL

\* The sleep branch reports "asleep" (handler.py:138-142) only for groups that
\* are empty at that moment and stay empty.
THEOREM AsleepSound == Spec => []AsleepMeansGone
<1>1. IInv => AsleepMeansGone
  BY DEF IInv
<1> QED BY Invariance, <1>1, PTL

\* "awake" (handler.py:161-165) implies that nothing under way shrinks general.
THEOREM AwakeSound == Spec => []AwakeKeepsCapacity
<1>1. IInv => AwakeKeepsCapacity
  <2> SUFFICES ASSUME IInv, phase = "awake" PROVE AwakeKeepsCapacity
    BY DEF AwakeKeepsCapacity
  <2>1. \A g \in Groups : AsgOf(g) \in suspended => AsgOf(g) \in foreign
    BY DEF IInv, LaunchInv
  <2>2. ~ EmptyingGeneral /\ "general" \in Groups
    BY GroupFacts DEF IInv, CapacityInv
  <2>3. ng["general"].min \in {0, 2} /\ target["general"].min \in {0, 2}
    BY <2>2 DEF IInv, TypeOK, Nodegroups, Configs
  <2>4. ng["general"].min = 2 /\ (~ ng["general"].active => target["general"].min = 2)
    BY <2>2, <2>3 DEF EmptyingGeneral
  <2> QED BY <2>1, <2>4 DEF AwakeKeepsCapacity, IInv, CapacityInv
<1> QED BY Invariance, <1>1, PTL

\* No command, tick or crash turns a wake back (handler.py:96-97, 111-115).
THEOREM WakeStays == Spec => WakeNotCancelled
<1>1. IInv /\ [Next]_vars => [phase = "waking" => phase' \in {"waking", "awake"}]_vars
  <2> SUFFICES ASSUME IInv, Next, phase = "waking" PROVE phase' \in {"waking", "awake"}
    OBVIOUS
  <2>1. CASE Cloud
    BY <2>1, CloudFrame DEF table
  <2>2. CASE SaveSleeping
    BY <2>2 DEF SaveSleeping, At, IInv, StageInv
  <2>3. CASE Finish
    BY <2>3 DEF Finish, FallsAsleep, Awakes
  <2>4. CASE Controller /\ ~ SaveSleeping /\ ~ Finish
    BY <2>4 DEF Controller, LambdaCall, Invoke, InvokeSleep, InvokeWake, InvokeRequest, InvokeTick, SaveWaking,
       CheckNodegroup, CheckAsg, Detect, DescribeNodegroup, DescribeAsg, Launch, ResizeGroup, AiUpdateFails, Crash, table
  <2> QED BY <2>1, <2>2, <2>3, <2>4 DEF Next
<1> QED BY Invariance, <1>1, PTL DEF Spec, WakeNotCancelled

\* A run writes "awake" (handler.py:161-163) only after it resumed Launch and
\* saw both groups ACTIVE at the sizes a wake asks for.
THEOREM AwakeReady == Spec => AwakeOnlyWhenReady
<1>1. IInv /\ [Next]_vars =>
        [phase # "awake" /\ phase' = "awake" =>
          /\ owned \intersect suspended = {}
          /\ \A g \in Groups :
               nodes[g].active /\ nodes[g].size >= WakeSize[g] /\ groups[g].actual >= WakeSize[g]]_vars
  <2> SUFFICES ASSUME IInv, Next, phase # "awake", phase' = "awake"
               PROVE  /\ owned \intersect suspended = {}
                      /\ \A g \in Groups :
                           nodes[g].active /\ nodes[g].size >= WakeSize[g] /\ groups[g].actual >= WakeSize[g]
    OBVIOUS
  <2>1. CASE Finish
    <3>1. phase = "waking" /\ done = Groups /\ At("finish")
      BY <2>1 DEF Finish, FallsAsleep, Awakes, WakeComplete
    <3>2. owned \intersect suspended = {}
      BY <3>1 DEF IInv, LaunchInv, At
    <3>3. ASSUME NEW g \in Groups
          PROVE  nodes[g].active /\ nodes[g].size >= WakeSize[g] /\ groups[g].actual >= WakeSize[g]
      <4>1. nodes[g].active /\ nodes[g].size = Wanted(g) /\ groups[g].actual = Wanted(g)
        BY <3>1 DEF IInv, StageInv, Settled
      <4>2. nodes[g].size \in Sizes /\ groups[g].actual \in Sizes
        BY DEF IInv, TypeOK, Nodegroups, Descriptions
      <4>3. nodes[g].size \in Nat /\ groups[g].actual \in Nat
        BY <4>2, SizesNat
      <4>4. WakeSize[g] \in Nat
        BY GroupFacts
      <4>5. Wanted(g) >= WakeSize[g]
        BY <3>1, <4>3, <4>4 DEF Wanted, MaxOf
      <4> QED BY <4>1, <4>5
    <3> QED BY <3>2, <3>3
  <2>2. CASE Cloud
    BY <2>2, CloudFrame DEF table
  <2>3. CASE Controller /\ ~ Finish
    BY <2>3 DEF Controller, LambdaCall, Invoke, InvokeSleep, InvokeWake, InvokeRequest, InvokeTick, SaveWaking,
       CheckNodegroup, CheckAsg, SaveSleeping, Detect, DescribeNodegroup, DescribeAsg, Launch, ResizeGroup,
       AiUpdateFails, Crash, table
  <2> QED BY <2>1, <2>2, <2>3 DEF Next
<1> QED BY Invariance, <1>1, PTL DEF Spec, AwakeOnlyWhenReady

\* The comparison of owned_asgs with the described names (handler.py:126-127)
\* keeps the controller off every ASG that is not part of the sleep on record.
THEOREM ForeignSafe == Spec => ForeignGroupUntouched
<1>1. IInv /\ [Next]_vars =>
        [Controller => \A g \in Groups : AsgOf(g) \notin owned /\ phase # "awake" =>
           /\ UNCHANGED <<ng[g], target[g]>>
           /\ AsgOf(g) \in suspended <=> AsgOf(g) \in suspended']_vars
  <2> SUFFICES ASSUME IInv, Controller, NEW g \in Groups, AsgOf(g) \notin owned
               PROVE  /\ UNCHANGED <<ng[g], target[g]>>
                      /\ AsgOf(g) \in suspended <=> AsgOf(g) \in suspended'
    OBVIOUS
  <2>1. CASE Launch \/ ResizeGroup
    <3>1. pc.stage \in Acting /\ pc.group \in Groups
      BY <2>1 DEF Launch, ResizeGroup, At, Acting, IInv, TypeOK
    <3>2. AsgOf(pc.group) \in owned /\ <<pc.group, groups[pc.group].asg>> = AsgOf(pc.group)
      BY <3>1, ActingFacts, GroupFacts DEF IInv, AsgOf
    <3>3. pc.group # g /\ AsgOf(pc.group) # AsgOf(g)
      BY <3>2 DEF AsgOf
    <3>4. CASE Launch
      BY <3>2, <3>3, <3>4 DEF Launch, eks
    <3>5. CASE ResizeGroup
      BY <3>3, <3>5 DEF ResizeGroup, eks, aws, IInv, TypeOK
    <3> QED BY <2>1, <3>4, <3>5
  <2>2. CASE Controller /\ ~ Launch /\ ~ ResizeGroup
    BY <2>2 DEF Controller, LambdaCall, Invoke, InvokeSleep, InvokeWake, InvokeRequest, InvokeTick, CheckNodegroup,
       CheckAsg, SaveSleeping, Detect, DescribeNodegroup, DescribeAsg, Finish, AiUpdateFails, Crash, eks, aws
  <2> QED BY <2>1, <2>2
<1> QED BY Invariance, <1>1, PTL DEF Spec, ForeignGroupUntouched
=============================================================================
