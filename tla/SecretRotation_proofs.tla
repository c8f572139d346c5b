------------------------ MODULE SecretRotation_proofs ------------------------
(***************************************************************************)
(* Proofs about SecretRotation for any finite number of runs and every     *)
(* bound on key pairs, edits and faults.                                   *)
(***************************************************************************)
EXTENDS SecretRotation, FiniteSetTheorems, TLAPS

LEMMA InitialKeys == Initial \in Keys
BY SizeAssumption DEF Initial, Keys

LEMMA TargetType == \A op \in Ops : Target(op) \in Secrets /\ (Target(op) = "app" <=> op # "sync")
BY DEF Target, Secrets, Ops

\* A set of runs that gains or loses at most one changes its size by at most one.
LEMMA CountChange ==
  ASSUME NEW S \in SUBSET Runs, NEW T \in SUBSET Runs, NEW p \in Runs, S \ {p} = T \ {p}
  PROVE  /\ Cardinality(S) \in Nat /\ Cardinality(T) \in Nat
         /\ Cardinality(T) = Cardinality(S) + (IF p \in T THEN 1 ELSE 0) - (IF p \in S THEN 1 ELSE 0)
<1>1. IsFiniteSet(S) /\ IsFiniteSet(T)
  BY RunsAssumption, FS_Subset
<1>2. Cardinality(S) \in Nat /\ Cardinality(T) \in Nat
  BY <1>1, FS_CardinalityType
<1>3. Cardinality(S \ {p}) = IF p \in S THEN Cardinality(S) - 1 ELSE Cardinality(S)
  BY <1>1, FS_RemoveElement
<1>4. Cardinality(T \ {p}) = IF p \in T THEN Cardinality(T) - 1 ELSE Cardinality(T)
  BY <1>1, FS_RemoveElement
<1>5. Cardinality(S \ {p}) = Cardinality(T \ {p})
  OBVIOUS
<1>6. CASE p \in S
  BY <1>2, <1>3, <1>4, <1>5, <1>6
<1>7. CASE p \notin S
  BY <1>2, <1>3, <1>4, <1>5, <1>7
<1> QED BY <1>6, <1>7

\* A step of one run leaves the others alone.
LEMMA OthersKept ==
  ASSUME TypeOK, NEW p \in Runs, Step(p)
  PROVE  \A q \in Runs \ {p} : run'[q] = run[q]
BY DEF TypeOK, Step, Invoke, Read, ReadSource, ReadDestination, Recheck, Put, Promote, Move,
       Confirm, Unlabel, Report, CallFails, Kill, Tell, Goto

-----------------------------------------------------------------------------
(* What each step does to the locals of its run, field by field.           *)
Places ==
  {"idle", "read", "read_destination", "put", "promote", "confirm", "unlabel", "recheck", "report"}
Locals ==
  [at : Places, op : Ops, data : Keys, base : Nat, token : Nat, source : Nat, outcome : {"ok", "failed"}]

\* After the step the locals of run p are these, and the others are as before.
Became(p, at, op, d, base, token, source, outcome) ==
  /\ run' \in [Runs -> Locals] /\ \A q \in Runs : q # p => run'[q] = run[q]
  /\ run'[p].at = at /\ run'[p].op = op /\ run'[p].data = d /\ run'[p].base = base
  /\ run'[p].token = token /\ run'[p].source = source /\ run'[p].outcome = outcome

LEMMA RunType == TypeOK => run \in [Runs -> Locals]
BY DEF TypeOK, Locals, Places

LEMMA GotoEffect ==
  ASSUME TypeOK, NEW p \in Runs, NEW x \in Places, Goto(p, x)
  PROVE  Became(p, x, run[p].op, run[p].data, run[p].base, run[p].token, run[p].source, run[p].outcome)
<1>1. run \in [Runs -> Locals]
  BY RunType
<1> QED BY <1>1 DEF Goto, Locals, Became

LEMMA TellEffect ==
  ASSUME TypeOK, NEW p \in Runs, NEW o \in {"ok", "failed"}, Tell(p, o)
  PROVE  Became(p, "report", run[p].op, Initial, run[p].base, run[p].token, 0, o)
<1>1. run \in [Runs -> Locals]
  BY RunType
<1> QED BY <1>1, InitialKeys DEF Tell, Locals, Places, Became

LEMMA InvokeEffect ==
  ASSUME TypeOK, NEW p \in Runs, NEW op \in Ops, Invoke(p, op)
  PROVE  Became(p, "read", op, Initial, 0, 0, 0, "ok")
<1>1. run \in [Runs -> Locals]
  BY RunType
<1>2. Idle \in Locals /\ Idle.data = Initial /\ Idle.base = 0 /\ Idle.token = 0 /\ Idle.source = 0
      /\ Idle.outcome = "ok"
  BY InitialKeys DEF Idle, Locals, Places, Ops
<1> DEFINE asked == [Idle EXCEPT !.at = "read", !.op = op]
<1>3. asked \in Locals /\ asked.at = "read" /\ asked.op = op /\ asked.data = Initial /\ asked.base = 0
      /\ asked.token = 0 /\ asked.source = 0 /\ asked.outcome = "ok"
  BY <1>2 DEF Locals, Places
<1>4. run' = [run EXCEPT ![p] = asked]
  BY DEF Invoke
<1> HIDE DEF asked
<1> QED BY <1>1, <1>3, <1>4 DEF Became

LEMMA IdleEffect ==
  ASSUME TypeOK, NEW p \in Runs, run' = [run EXCEPT ![p] = Idle]
  PROVE  Became(p, "idle", "stage", Initial, 0, 0, 0, "ok")
<1>1. run \in [Runs -> Locals]
  BY RunType
<1> QED BY <1>1, InitialKeys DEF Idle, Locals, Places, Ops, Became

\* What a run stores is of the keys that are current and the pair that it made.
LEMMA ChangedKeys ==
  ASSUME NEW op \in Ops \ {"sync"}, NEW d \in Keys, NEW pair \in Nat,
         op \in {"stage", "rotate"} => pair <= MaxKeys
  PROVE  /\ Changed(op, d, pair) \in Keys /\ Changed(op, d, pair).code = d.code
         /\ op = "retire-hmac" => Changed(op, d, pair).key = d.key /\ Changed(op, d, pair).prev = d.prev
         /\ op = "retire-previous" => Changed(op, d, pair).key = d.key
         /\ op \in {"stage", "rotate"} /\ Changed(op, d, pair) # d =>
              Changed(op, d, pair).key = pair /\ Changed(op, d, pair).prev = d.key
<1>1. CASE op = "retire-hmac"
  BY <1>1 DEF Changed, Keys
<1>2. CASE op = "retire-previous"
  BY <1>2, SizeAssumption DEF Changed, Keys
<1>3. CASE op = "stage" /\ d.key # 0
  BY <1>3 DEF Changed, Keys, Rsa
<1>4. CASE op \in {"stage", "rotate"} /\ ~ (op = "stage" /\ d.key # 0)
  <2> DEFINE new == [d EXCEPT !.prev = d.key, !.key = pair]
  <2>1. Changed(op, d, pair) = new
    BY <1>4 DEF Changed, Rsa
  <2>2. pair \in 0 .. MaxKeys
    BY <1>4, SizeAssumption
  <2> DEFINE kept == [d EXCEPT !.prev = d.key]
  <2>3. kept \in Keys /\ kept.code = d.code /\ kept.prev = d.key
    BY DEF Keys
  <2>4. new = [kept EXCEPT !.key = pair]
    OBVIOUS
  <2> HIDE DEF kept, new
  <2>5. new \in Keys /\ new.code = d.code /\ new.key = pair /\ new.prev = d.key
    BY <2>2, <2>3, <2>4 DEF Keys
  <2> QED BY <1>4, <2>1, <2>5
<1> QED BY <1>1, <1>2, <1>3, <1>4 DEF Ops

\* A run that asked for a pair gets the one after those made.
LEMMA AskingCounted ==
  ASSUME TypeOK, CountInv, NEW p \in Runs, At(p, "read"), run[p].op \in {"stage", "rotate"}
  PROVE  keys + 1 <= MaxKeys
<1>1. p \in Asking
  BY DEF Asking
<1>2. Cardinality(Asking) \in Nat \ {0}
  BY <1>1, RunsAssumption, FS_Subset, FS_CardinalityType, FS_EmptySet DEF Asking
<1> QED BY <1>2, SizeAssumption DEF CountInv, TypeOK

LEMMA ReadEffect ==
  ASSUME TypeOK, CountInv, NEW p \in Runs, Read(p)
  PROVE  LET op == run[p].op  d == data["app"]  new == Changed(op, d, keys + 1) IN
         /\ op \in Ops \ {"sync"} /\ new \in Keys
         /\ \/ \E o \in {"ok", "failed"} :
                 /\ Became(p, "report", op, Initial, run[p].base, run[p].token, 0, o)
                 /\ o = "ok" => Allowed(op, d)
                 /\ keys' = keys
            \/ /\ Became(p, "put", op, new, version["app"], run[p].token, run[p].source, run[p].outcome)
               /\ new # d /\ Allowed(op, d)
               /\ keys' = IF op \in {"stage", "rotate"} THEN keys + 1 ELSE keys
<1> DEFINE op == run[p].op  d == data["app"]  new == Changed(op, d, keys + 1)
<1>1. run \in [Runs -> Locals]
  BY RunType
<1>2. op \in Ops \ {"sync"} /\ d \in Keys /\ keys \in Nat /\ version["app"] \in Nat
  BY <1>1 DEF Read, Locals, TypeOK, Secrets
<1>3. op \in {"stage", "rotate"} => keys + 1 <= MaxKeys
  BY AskingCounted DEF Read
<1>4. /\ new \in Keys /\ new.code = d.code
      /\ op = "retire-hmac" => new.key = d.key
      /\ op = "retire-previous" => new.key = d.key
      /\ op \in {"stage", "rotate"} /\ new # d => new.key = keys + 1
  BY <1>2, <1>3, ChangedKeys
<1>5. d.key <= keys
  BY DEF CountInv
<1>6. d.key \in Nat /\ Initial.key = 0
  BY <1>2 DEF Keys, Initial
<1>7. CASE ~ Allowed(op, d)
  <2>1. Tell(p, "failed")
    BY <1>7 DEF Read
  <2>2. Became(p, "report", op, Initial, run[p].base, run[p].token, 0, "failed")
    BY <2>1, TellEffect
  <2>3. keys' = keys
    BY <2>2, <1>2, <1>6 DEF Read, Became
  <2> QED BY <2>2, <2>3, <1>2, <1>4
<1>8. CASE Allowed(op, d) /\ new = d
  <2>1. Tell(p, "ok")
    BY <1>8 DEF Read
  <2>2. Became(p, "report", op, Initial, run[p].base, run[p].token, 0, "ok")
    BY <2>1, TellEffect
  <2>3. keys' = keys
    BY <2>2, <1>2, <1>6 DEF Read, Became
  <2> QED BY <2>2, <2>3, <1>2, <1>4, <1>8
<1>9. CASE Allowed(op, d) /\ new # d
  <2>1. run' = [run EXCEPT ![p].at = "put", ![p].data = new, ![p].base = version["app"]]
    BY <1>9 DEF Read
  <2> HIDE DEF new
  <2>2. Became(p, "put", op, new, version["app"], run[p].token, run[p].source, run[p].outcome)
    BY <2>1, <1>1, <1>2, <1>4 DEF Locals, Places, Became
  <2>3. keys' = IF new.key = keys + 1 THEN keys + 1 ELSE keys
    BY <2>2 DEF Read, Became
  <2>4. keys' = IF op \in {"stage", "rotate"} THEN keys + 1 ELSE keys
    BY <2>3, <1>2, <1>4, <1>5, <1>6, <1>9 DEF Ops
  <2> QED BY <2>2, <2>4, <1>2, <1>4, <1>9 DEF new
<1> QED BY <1>7, <1>8, <1>9

LEMMA ReadSourceEffect ==
  ASSUME TypeOK, NEW p \in Runs, ReadSource(p)
  PROVE  \E d \in Keys :
           /\ d.key = 0 /\ d.code = data["app"].code
           /\ Became(p, "read_destination", "sync", d, run[p].base, run[p].token, version["app"], run[p].outcome)
<1> DEFINE d == [Initial EXCEPT !.code = data["app"].code]
<1>1. run \in [Runs -> Locals] /\ version["app"] \in Nat
  BY RunType DEF TypeOK, Secrets
<1>2. d \in Keys /\ d.key = 0 /\ d.code = data["app"].code
  <2>1. Initial \in Keys /\ Initial.key = 0 /\ data["app"].code \in 0 .. MaxEdits
    BY InitialKeys, SizeAssumption DEF TypeOK, Secrets, Keys, Initial
  <2> QED BY <2>1 DEF Keys
<1>3. run' = [run EXCEPT ![p].at = "read_destination", ![p].source = version["app"], ![p].data = d]
  BY DEF ReadSource
<1>4. run[p].op = "sync"
  BY DEF ReadSource
<1> HIDE DEF d
<1>5. Became(p, "read_destination", "sync", d, run[p].base, run[p].token, version["app"], run[p].outcome)
  BY <1>1, <1>2, <1>3, <1>4 DEF Locals, Places, Became
<1> QED BY <1>2, <1>5

LEMMA ReadDestinationEffect ==
  ASSUME TypeOK, NEW p \in Runs, ReadDestination(p)
  PROVE  LET r == run[p] IN
         \/ /\ data["waf"] = r.data
            /\ Became(p, "recheck", r.op, r.data, r.base, r.token, r.source, r.outcome)
         \/ Became(p, "put", r.op, r.data, version["waf"], r.token, r.source, r.outcome)
<1>1. run \in [Runs -> Locals] /\ version["waf"] \in Nat
  BY RunType DEF TypeOK, Secrets
<1>2. CASE data["waf"] = run[p].data
  BY <1>2, GotoEffect DEF ReadDestination, Places
<1>3. CASE data["waf"] # run[p].data
  BY <1>1, <1>3 DEF ReadDestination, Locals, Places, Became
<1> QED BY <1>2, <1>3

LEMMA MoveEffect ==
  ASSUME TypeOK, NEW p \in Runs, NEW s \in Secrets, NEW x \in Places, Move(p, s, x)
  PROVE  LET r == run[p] IN
         /\ Became(p, x, r.op, r.data, r.base, version[s] + 1, r.source, r.outcome)
         /\ data' \in [Secrets -> Keys] /\ version' \in [Secrets -> Nat]
         /\ data'[s] = r.data /\ version'[s] = version[s] + 1
         /\ \A t \in Secrets : t # s => data'[t] = data[t] /\ version'[t] = version[t]
<1>1. run \in [Runs -> Locals] /\ version \in [Secrets -> Nat] /\ data \in [Secrets -> Keys]
  BY RunType DEF TypeOK
<1>2. run[p].data \in Keys /\ version[s] + 1 \in Nat
  BY <1>1 DEF Locals
<1>3. Became(p, x, run[p].op, run[p].data, run[p].base, version[s] + 1, run[p].source, run[p].outcome)
  BY <1>1, <1>2 DEF Move, Locals, Became
<1> QED BY <1>1, <1>2, <1>3 DEF Move

LEMMA ConfirmEffect ==
  ASSUME TypeOK, NEW p \in Runs, Confirm(p)
  PROVE  LET r == run[p] IN
         Became(p, "unlabel", r.op, r.data, r.base, r.token, r.source,
                IF version[Target(r.op)] = r.token THEN "ok" ELSE "failed")
<1>1. run \in [Runs -> Locals]
  BY RunType
<1> QED BY <1>1 DEF Confirm, Locals, Places, Became

LEMMA RecheckEffect ==
  ASSUME TypeOK, NEW p \in Runs, Recheck(p)
  PROVE  LET r == run[p]  o == IF version["app"] = r.source THEN "ok" ELSE "failed" IN
         Became(p, "report", r.op, Initial, r.base, r.token, 0, o)
BY TellEffect DEF Recheck

LEMMA PutEffect ==
  ASSUME TypeOK, NEW p \in Runs, Put(p)
  PROVE  LET r == run[p] IN
         /\ labels' \in [Secrets -> Nat] /\ labels'[Target(r.op)] = labels[Target(r.op)] + 1
         /\ \A s \in Secrets : s # Target(r.op) => labels'[s] = labels[s]
         /\ \/ Became(p, "promote", r.op, r.data, r.base, r.token, r.source, r.outcome) /\ faults' = faults
            \/ Became(p, "report", r.op, Initial, r.base, r.token, 0, "failed") /\ Fault
<1>1. run[p].op \in Ops
  BY RunType DEF Locals
<1>2. Target(run[p].op) \in Secrets /\ labels \in [Secrets -> Nat]
  BY <1>1, TargetType DEF TypeOK
<1>3. \/ Became(p, "promote", run[p].op, run[p].data, run[p].base, run[p].token, run[p].source, run[p].outcome)
         /\ faults' = faults
      \/ Became(p, "report", run[p].op, Initial, run[p].base, run[p].token, 0, "failed") /\ Fault
  BY GotoEffect, TellEffect DEF Put, Places
<1>4. labels' = [labels EXCEPT ![Target(run[p].op)] = @ + 1]
  BY DEF Put
<1> QED BY <1>2, <1>3, <1>4

LEMMA UnlabelEffect ==
  ASSUME TypeOK, CountInv, NEW p \in Runs, Unlabel(p)
  PROVE  LET r == run[p] IN
         /\ labels' \in [Secrets -> Nat]
         /\ \/ labels'[Target(r.op)] = labels[Target(r.op)] - 1 /\ faults' = faults
            \/ labels'[Target(r.op)] = labels[Target(r.op)] /\ Fault
         /\ \A s \in Secrets : s # Target(r.op) => labels'[s] = labels[s]
         /\ Became(p, IF r.op = "sync" /\ r.outcome = "ok" THEN "recheck" ELSE "report",
                   r.op, r.data, r.base, r.token, r.source, r.outcome)
<1> DEFINE s == Target(run[p].op)
<1>1. run[p].op \in Ops
  BY RunType DEF Locals
<1>2. s \in Secrets /\ labels \in [Secrets -> Nat]
  BY <1>1, TargetType DEF TypeOK
<1>3. p \in Staging(s)
  BY DEF Unlabel, At, Staging
<1>4. Cardinality(Staging(s)) \in Nat \ {0}
  BY <1>3, RunsAssumption, FS_Subset, FS_CardinalityType, FS_EmptySet DEF Staging
<1>5. labels[s] >= 1
  BY <1>2, <1>4 DEF CountInv
<1>6. Became(p, IF run[p].op = "sync" /\ run[p].outcome = "ok" THEN "recheck" ELSE "report",
             run[p].op, run[p].data, run[p].base, run[p].token, run[p].source, run[p].outcome)
  BY GotoEffect DEF Unlabel, Places
<1>7. \/ labels' = [labels EXCEPT ![s] = @ - 1] /\ faults' = faults
      \/ labels' = labels /\ Fault
  BY DEF Unlabel
<1> HIDE DEF s
<1>8. /\ labels' \in [Secrets -> Nat]
      /\ \/ labels'[s] = labels[s] - 1 /\ faults' = faults
         \/ labels'[s] = labels[s] /\ Fault
      /\ \A t \in Secrets : t # s => labels'[t] = labels[t]
  BY <1>2, <1>5, <1>7
<1> QED BY <1>6, <1>8 DEF s

LEMMA PromoteEffect ==
  ASSUME TypeOK, NEW p \in Runs, Promote(p)
  PROVE  LET r == run[p]  s == Target(r.op) IN
         \/ /\ version[s] = r.base
            /\ data' \in [Secrets -> Keys] /\ version' \in [Secrets -> Nat]
            /\ data'[s] = r.data /\ version'[s] = version[s] + 1
            /\ \A t \in Secrets : t # s => data'[t] = data[t] /\ version'[t] = version[t]
            /\ \/ Became(p, "unlabel", r.op, r.data, r.base, version[s] + 1, r.source, r.outcome) /\ faults' = faults
               \/ Became(p, "confirm", r.op, r.data, r.base, version[s] + 1, r.source, r.outcome) /\ Fault
         \/ /\ version[s] # r.base /\ UNCHANGED <<data, version, faults>>
            /\ Became(p, "confirm", r.op, r.data, r.base, r.token, r.source, r.outcome)
<1> DEFINE s == Target(run[p].op)
<1>1. run[p].op \in Ops
  BY RunType DEF Locals
<1>2. s \in Secrets
  BY <1>1, TargetType
<1>3. \/ version[s] = run[p].base /\ Move(p, s, "unlabel") /\ faults' = faults
      \/ version[s] = run[p].base /\ Move(p, s, "confirm") /\ Fault
      \/ version[s] # run[p].base /\ Goto(p, "confirm") /\ UNCHANGED <<data, version, faults>>
  BY DEF Promote
<1>4. {"unlabel", "confirm"} \subseteq Places
  BY DEF Places
<1> HIDE DEF s
<1>5. CASE version[s] = run[p].base /\ Move(p, s, "unlabel") /\ faults' = faults
  BY <1>2, <1>4, <1>5, MoveEffect DEF s
<1>6. CASE version[s] = run[p].base /\ Move(p, s, "confirm") /\ Fault
  BY <1>2, <1>4, <1>6, MoveEffect DEF s
<1>7. CASE version[s] # run[p].base /\ Goto(p, "confirm") /\ UNCHANGED <<data, version, faults>>
  BY <1>4, <1>7, GotoEffect DEF s
<1> QED BY <1>3, <1>5, <1>6, <1>7

LEMMA CallFailsEffect ==
  ASSUME TypeOK, NEW p \in Runs, CallFails(p)
  PROVE  LET r == run[p] IN
         /\ Fault
         /\ \/ At(p, "promote") /\ Became(p, "confirm", r.op, r.data, r.base, r.token, r.source, r.outcome)
            \/ /\ r.at \in {"read", "read_destination", "recheck", "put", "confirm"}
               /\ Became(p, "report", r.op, Initial, r.base, r.token, 0, "failed")
BY GotoEffect, TellEffect DEF CallFails, Places, At

-----------------------------------------------------------------------------
(* The parts of the inductive invariant, each preserved by every step.     *)
Numbered == \A s \in Secrets : version[s] >= 1

LEMMA TypeStep == TypeOK /\ Numbered /\ CountInv /\ Next => TypeOK' /\ Numbered'
<1> SUFFICES ASSUME TypeOK, Numbered, CountInv, Next PROVE TypeOK' /\ Numbered'
  OBVIOUS
<1> DEFINE Bounds == keys' \in 0 .. MaxKeys /\ edits' \in 0 .. MaxEdits /\ faults' \in 0 .. MaxFaults
           Stored == /\ data' \in [Secrets -> Keys] /\ version' \in [Secrets -> Nat]
                     /\ labels' \in [Secrets -> Nat] /\ Numbered'
<1>1. /\ data \in [Secrets -> Keys] /\ version \in [Secrets -> Nat] /\ labels \in [Secrets -> Nat]
      /\ keys \in 0 .. MaxKeys /\ edits \in 0 .. MaxEdits /\ faults \in 0 .. MaxFaults
  BY DEF TypeOK
<1>2. Fault => faults' \in 0 .. MaxFaults
  BY <1>1, SizeAssumption DEF Fault
<1>3. UNCHANGED <<data, version, labels>> => Stored
  BY <1>1 DEF Numbered
<1>4. ASSUME NEW p \in Runs, Step(p) PROVE run' \in [Runs -> Locals] /\ Bounds /\ Stored
  <2>1. ASSUME NEW op \in Ops, Invoke(p, op) PROVE run' \in [Runs -> Locals] /\ Bounds /\ Stored
    BY <1>1, <1>3, <2>1, InvokeEffect DEF Became, Invoke, aws
  <2>2. CASE Read(p)
    <3>1. run[p].op \in {"stage", "rotate"} => keys + 1 \in 0 .. MaxKeys
      BY <1>1, <2>2, AskingCounted, SizeAssumption DEF Read
    <3> QED BY <1>1, <1>3, <2>2, <3>1, ReadEffect DEF Became, Read, aws
  <2>3. CASE ReadSource(p)
    BY <1>1, <1>3, <2>3, ReadSourceEffect DEF Became, ReadSource, aws
  <2>4. CASE ReadDestination(p)
    BY <1>1, <1>3, <2>4, ReadDestinationEffect DEF Became, ReadDestination, aws
  <2>5. CASE Recheck(p)
    BY <1>1, <1>3, <2>5, RecheckEffect DEF Became, Recheck, aws
  <2>6. CASE Put(p)
    BY <1>1, <1>2, <2>6, PutEffect DEF Became, Put, Numbered
  <2>7. CASE Promote(p)
    <3>1. data' \in [Secrets -> Keys] /\ version' \in [Secrets -> Nat] /\ run' \in [Runs -> Locals]
      BY <1>1, <2>7, PromoteEffect DEF Became
    <3>2. \A s \in Secrets : version'[s] = version[s] \/ version'[s] = version[s] + 1
      BY <1>1, <2>7, PromoteEffect
    <3>3. Numbered'
      BY <1>1, <3>2 DEF Numbered
    <3>4. faults' \in 0 .. MaxFaults
      BY <1>1, <1>2, <2>7, PromoteEffect
    <3> QED BY <1>1, <2>7, <3>1, <3>3, <3>4 DEF Promote
  <2>8. CASE Confirm(p)
    BY <1>1, <1>3, <2>8, ConfirmEffect DEF Became, Confirm, aws
  <2>9. CASE Unlabel(p)
    BY <1>1, <1>2, <2>9, UnlabelEffect DEF Became, Unlabel, Numbered
  <2>10. CASE Report(p)
    BY <1>1, <1>3, <2>10, IdleEffect DEF Became, Report, aws
  <2>11. CASE CallFails(p)
    BY <1>1, <1>2, <1>3, <2>11, CallFailsEffect DEF Became, CallFails, aws
  <2>12. CASE Kill(p)
    BY <1>1, <1>2, <1>3, <2>12, IdleEffect DEF Became, Kill, aws
  <2> QED BY <1>4, <2>1, <2>2, <2>3, <2>4, <2>5, <2>6, <2>7, <2>8, <2>9, <2>10, <2>11, <2>12 DEF Step
<1>5. ASSUME Edit PROVE run' \in [Runs -> Locals] /\ Bounds /\ Stored
  <2>1. run \in [Runs -> Locals] /\ "app" \in Secrets
    BY RunType DEF Secrets
  <2>2. edits + 1 \in 0 .. MaxEdits
    BY <1>1, <1>5, SizeAssumption DEF Edit
  <2>3. [data["app"] EXCEPT !.code = edits + 1] \in Keys
    BY <1>1, <2>1, <2>2 DEF Keys
  <2>4. data' = [data EXCEPT !["app"] = [data["app"] EXCEPT !.code = edits + 1]]
    BY <1>5 DEF Edit
  <2>5. data' \in [Secrets -> Keys]
    BY <1>1, <2>3, <2>4
  <2>6. version' \in [Secrets -> Nat] /\ Numbered'
    BY <1>1, <1>5, <2>1 DEF Edit, Numbered
  <2> QED BY <1>1, <1>5, <2>1, <2>2, <2>5, <2>6 DEF Edit
<1>6. run' \in [Runs -> Locals] /\ Bounds /\ Stored
  BY <1>4, <1>5 DEF Next
<1> QED BY <1>6 DEF TypeOK, Locals, Places

\* Who has a label to remove, of which secret, and who may make a pair: in sizes.
HasLabel(r) == r.at \in {"promote", "confirm", "unlabel"}
HasLabelOf(r, s) == HasLabel(r) /\ Target(r.op) = s
MayMake(r) == r.at = "read" /\ r.op \in {"stage", "rotate"}
One(b) == IF b THEN 1 ELSE 0
Labelled == {p \in Runs : HasLabel(run[p])}

LEMMA SizesChange ==
  ASSUME NEW p \in Runs, \A q \in Runs : q # p => run'[q] = run[q]
  PROVE  LET r == run[p]  n == run'[p] IN
         /\ Cardinality(Labelled) \in Nat /\ Cardinality(Asking) \in Nat
         /\ \A s \in Secrets : Cardinality(Staging(s)) \in Nat
         /\ Cardinality(Labelled') = Cardinality(Labelled) + One(HasLabel(n)) - One(HasLabel(r))
         /\ Cardinality(Asking') = Cardinality(Asking) + One(MayMake(n)) - One(MayMake(r))
         /\ \A s \in Secrets :
              Cardinality(Staging(s)') = Cardinality(Staging(s)) + One(HasLabelOf(n, s)) - One(HasLabelOf(r, s))
<1>1. /\ Labelled \in SUBSET Runs /\ Labelled' \in SUBSET Runs /\ Labelled \ {p} = Labelled' \ {p}
      /\ p \in Labelled <=> HasLabel(run[p])
      /\ p \in Labelled' <=> HasLabel(run'[p])
  BY DEF Labelled
<1>2. /\ Asking \in SUBSET Runs /\ Asking' \in SUBSET Runs /\ Asking \ {p} = Asking' \ {p}
      /\ p \in Asking <=> MayMake(run[p])
      /\ p \in Asking' <=> MayMake(run'[p])
  BY DEF Asking, MayMake, At
<1>3. ASSUME NEW s \in Secrets
      PROVE  /\ Staging(s) \in SUBSET Runs /\ Staging(s)' \in SUBSET Runs
             /\ Staging(s) \ {p} = Staging(s)' \ {p}
             /\ p \in Staging(s) <=> HasLabelOf(run[p], s)
             /\ p \in Staging(s)' <=> HasLabelOf(run'[p], s)
  BY DEF Staging, HasLabelOf, HasLabel
<1>4. /\ Cardinality(Labelled) \in Nat
      /\ Cardinality(Labelled') = Cardinality(Labelled) + One(p \in Labelled') - One(p \in Labelled)
  BY <1>1, CountChange DEF One
<1>5. /\ Cardinality(Asking) \in Nat
      /\ Cardinality(Asking') = Cardinality(Asking) + One(p \in Asking') - One(p \in Asking)
  BY <1>2, CountChange DEF One
<1>6. ASSUME NEW s \in Secrets
      PROVE  /\ Cardinality(Staging(s)) \in Nat
             /\ Cardinality(Staging(s)') = Cardinality(Staging(s)) + One(p \in Staging(s)') - One(p \in Staging(s))
  BY <1>3, CountChange DEF One
<1> QED BY <1>1, <1>2, <1>3, <1>4, <1>5, <1>6 DEF One

LabelInv == LabelsRemoved /\ \A s \in Secrets : Cardinality(Staging(s)) <= labels[s]

\* A step that leaves the labels, and the label of its run unless it is a fault.
LEMMA LabelsLeft ==
  ASSUME TypeOK, LabelInv, NEW p \in Runs, \A q \in Runs : q # p => run'[q] = run[q], labels' = labels,
         \/ faults' = faults /\ ~ HasLabel(run[p]) /\ ~ HasLabel(run'[p])
         \/ faults' = faults /\ HasLabel(run[p]) /\ HasLabel(run'[p]) /\ run'[p].op = run[p].op
         \/ Fault /\ ~ HasLabel(run'[p])
         \/ Fault /\ HasLabel(run[p]) /\ HasLabel(run'[p]) /\ run'[p].op = run[p].op
  PROVE  LabelInv'
<1>1. /\ labels["app"] \in Nat /\ labels["waf"] \in Nat /\ faults \in Nat
      /\ \A s \in Secrets : labels[s] \in Nat
  BY SizeAssumption DEF TypeOK, Secrets
<1>2. /\ Cardinality(Labelled) \in Nat
      /\ Cardinality(Labelled') = Cardinality(Labelled) + One(HasLabel(run'[p])) - One(HasLabel(run[p]))
      /\ \A s \in Secrets : Cardinality(Staging(s)) \in Nat
      /\ \A s \in Secrets : Cardinality(Staging(s)') =
           Cardinality(Staging(s)) + One(HasLabelOf(run'[p], s)) - One(HasLabelOf(run[p], s))
  BY SizesChange
<1>3. labels["app"] + labels["waf"] <= faults + Cardinality(Labelled)
  BY DEF LabelInv, LabelsRemoved, Labelled, HasLabel
<1>4. \A s \in Secrets : Cardinality(Staging(s)) <= labels[s]
  BY DEF LabelInv
<1>5. labels'["app"] + labels'["waf"] <= faults' + Cardinality(Labelled')
  BY <1>1, <1>2, <1>3 DEF One, Fault
<1>6. \A s \in Secrets : Cardinality(Staging(s)') <= labels'[s]
  BY <1>1, <1>2, <1>4 DEF One, HasLabelOf
<1> QED BY <1>5, <1>6 DEF LabelInv, LabelsRemoved, Labelled, HasLabel

LEMMA LabelStep == TypeOK /\ CountInv /\ Next => LabelInv'
<1> SUFFICES ASSUME TypeOK, CountInv, Next PROVE LabelInv'
  OBVIOUS
<1>1. LabelInv
  BY DEF CountInv, LabelInv
<1>2. /\ labels["app"] \in Nat /\ labels["waf"] \in Nat /\ faults \in Nat
      /\ \A s \in Secrets : labels[s] \in Nat
  BY SizeAssumption DEF TypeOK, Secrets
<1>3. labels["app"] + labels["waf"] <= faults + Cardinality(Labelled)
  BY <1>1 DEF LabelInv, LabelsRemoved, Labelled, HasLabel
<1>4. \A s \in Secrets : Cardinality(Staging(s)) <= labels[s]
  BY <1>1 DEF LabelInv
<1>5. ASSUME NEW p \in Runs, NEW op \in Ops, Invoke(p, op) PROVE LabelInv'
  BY <1>1, <1>5, InvokeEffect, LabelsLeft DEF Became, Invoke, At, aws, HasLabel
<1>6. ASSUME NEW p \in Runs, Read(p) PROVE LabelInv'
  BY <1>1, <1>6, ReadEffect, LabelsLeft DEF Became, Read, At, aws, HasLabel
<1>7. ASSUME NEW p \in Runs, ReadSource(p) PROVE LabelInv'
  BY <1>1, <1>7, ReadSourceEffect, LabelsLeft DEF Became, ReadSource, At, aws, HasLabel
<1>8. ASSUME NEW p \in Runs, ReadDestination(p) PROVE LabelInv'
  BY <1>1, <1>8, ReadDestinationEffect, LabelsLeft DEF Became, ReadDestination, At, aws, HasLabel
<1>9. ASSUME NEW p \in Runs, Recheck(p) PROVE LabelInv'
  BY <1>1, <1>9, RecheckEffect, LabelsLeft DEF Became, Recheck, At, aws, HasLabel
<1>10. ASSUME NEW p \in Runs, Promote(p) PROVE LabelInv'
  BY <1>1, <1>10, PromoteEffect, LabelsLeft DEF Became, Promote, At, HasLabel
<1>11. ASSUME NEW p \in Runs, Confirm(p) PROVE LabelInv'
  BY <1>1, <1>11, ConfirmEffect, LabelsLeft DEF Became, Confirm, At, aws, HasLabel
<1>12. ASSUME NEW p \in Runs, Report(p) PROVE LabelInv'
  BY <1>1, <1>12, IdleEffect, LabelsLeft DEF Became, Report, At, aws, HasLabel
<1>13. ASSUME NEW p \in Runs, CallFails(p) PROVE LabelInv'
  BY <1>1, <1>13, CallFailsEffect, LabelsLeft DEF Became, CallFails, At, aws, HasLabel
<1>14. ASSUME NEW p \in Runs, Kill(p) PROVE LabelInv'
  BY <1>1, <1>14, IdleEffect, LabelsLeft DEF Became, Kill, At, aws, HasLabel
<1>15. ASSUME NEW p \in Runs, Put(p) \/ Unlabel(p) PROVE LabelInv'
  <2> DEFINE s == Target(run[p].op)
  <2>1. run[p].op \in Ops
    BY RunType DEF Locals
  <2>2. s \in Secrets /\ "app" \in Secrets /\ "waf" \in Secrets /\ (s = "app" \/ s = "waf")
    BY <2>1, TargetType DEF Secrets
  <2>3. /\ run'[p].op = run[p].op /\ \A q \in Runs : q # p => run'[q] = run[q]
        /\ \A t \in Secrets : t # s => labels'[t] = labels[t]
        /\ \/ /\ labels'[s] = labels[s] + 1 /\ ~ HasLabel(run[p])
              /\ (HasLabel(run'[p]) /\ faults' = faults) \/ (~ HasLabel(run'[p]) /\ Fault)
           \/ /\ HasLabel(run[p]) /\ ~ HasLabel(run'[p])
              /\ (labels'[s] = labels[s] - 1 /\ faults' = faults) \/ (labels'[s] = labels[s] /\ Fault)
    <3>1. CASE Put(p)
      <4>1. ~ HasLabel(run[p])
        BY <3>1 DEF Put, At, HasLabel
      <4> QED BY <3>1, <4>1, PutEffect DEF Became, HasLabel
    <3>2. CASE Unlabel(p)
      <4>1. HasLabel(run[p])
        BY <3>2 DEF Unlabel, At, HasLabel
      <4>2. CountInv
        OBVIOUS
      <4> QED BY <3>2, <4>1, <4>2, UnlabelEffect DEF Became, HasLabel
    <3> QED BY <1>15, <3>1, <3>2
  <2>4. /\ Cardinality(Labelled) \in Nat
        /\ Cardinality(Labelled') = Cardinality(Labelled) + One(HasLabel(run'[p])) - One(HasLabel(run[p]))
        /\ \A t \in Secrets : Cardinality(Staging(t)) \in Nat
        /\ \A t \in Secrets : Cardinality(Staging(t)') =
             Cardinality(Staging(t)) + One(HasLabelOf(run'[p], t)) - One(HasLabelOf(run[p], t))
    BY <2>3, SizesChange
  <2> HIDE DEF s
  <2>5. labels'["app"] + labels'["waf"] <= faults' + Cardinality(Labelled')
    BY <1>2, <1>3, <2>2, <2>3, <2>4 DEF One, Fault
  <2>6. \A t \in Secrets : Cardinality(Staging(t)') <= labels'[t]
    <3> SUFFICES ASSUME NEW t \in Secrets PROVE Cardinality(Staging(t)') <= labels'[t]
      OBVIOUS
    <3>1. HasLabelOf(run[p], t) <=> HasLabel(run[p]) /\ t = s
      BY DEF HasLabelOf, s
    <3>2. HasLabelOf(run'[p], t) <=> HasLabel(run'[p]) /\ t = s
      BY <2>3 DEF HasLabelOf, s
    <3> QED BY <1>2, <1>4, <2>3, <2>4, <3>1, <3>2 DEF One
  <2> QED BY <2>5, <2>6 DEF LabelInv, LabelsRemoved, Labelled, HasLabel
<1>16. CASE Edit
  <2>1. labels' = labels /\ run' = run /\ faults' = faults
    BY <1>16 DEF Edit
  <2>2. Labelled' = Labelled /\ \A s \in Secrets : Staging(s)' = Staging(s)
    BY <2>1 DEF Labelled, Staging
  <2> QED BY <1>3, <1>4, <2>1, <2>2 DEF LabelInv, LabelsRemoved, Labelled, HasLabel
<1> QED BY <1>5, <1>6, <1>7, <1>8, <1>9, <1>10, <1>11, <1>12, <1>13, <1>14, <1>15, <1>16 DEF Next, Step

KeyInv ==
  /\ keys + Cardinality(Asking) <= MaxKeys
  /\ data["app"].key <= keys /\ \A p \in Runs : run[p].data.key <= keys

LEMMA KeyStep == TypeOK /\ CountInv /\ Next => KeyInv'
<1> SUFFICES ASSUME TypeOK, CountInv, Next PROVE KeyInv'
  OBVIOUS
<1>1. /\ KeyInv /\ keys \in Nat /\ MaxKeys \in Nat /\ "app" \in Secrets
      /\ data["app"].key \in Nat /\ \A p \in Runs : run[p].data.key \in Nat
  BY RunType, SizeAssumption DEF CountInv, KeyInv, TypeOK, Secrets, Keys, Locals
<1>2. Initial.key = 0
  BY DEF Initial
\* A step that makes no pair and lets nobody in, stores what its run held or nothing.
<1>3. ASSUME NEW p \in Runs, \A q \in Runs : q # p => run'[q] = run[q], keys' = keys, ~ MayMake(run'[p]),
             run'[p].data.key \in {0, run[p].data.key, data["app"].key},
             data'["app"].key \in {data["app"].key, run[p].data.key}
      PROVE  KeyInv'
  <2>1. Cardinality(Asking) \in Nat /\ Cardinality(Asking') <= Cardinality(Asking)
    <3>1. /\ Cardinality(Asking) \in Nat
          /\ Cardinality(Asking') = Cardinality(Asking) + One(MayMake(run'[p])) - One(MayMake(run[p]))
      BY <1>3, SizesChange
    <3>2. One(MayMake(run'[p])) = 0 /\ One(MayMake(run[p])) \in {0, 1}
      BY <1>3 DEF One
    <3> QED BY <3>1, <3>2
  <2>2. \A q \in Runs : run'[q].data.key <= keys
    BY <1>1, <1>3 DEF KeyInv
  <2>3. data'["app"].key <= keys
    BY <1>1, <1>3 DEF KeyInv
  <2>4. Cardinality(Asking') \in Nat
    <3>1. Asking' \subseteq Runs
      BY DEF Asking
    <3> QED BY <3>1, RunsAssumption, FS_Subset, FS_CardinalityType
  <2> QED BY <1>1, <1>3, <2>1, <2>2, <2>3, <2>4 DEF KeyInv
<1>4. ASSUME NEW p \in Runs, NEW op \in Ops, Invoke(p, op) PROVE KeyInv'
  <2>1. /\ run'[p].at = "read" /\ run'[p].op = op /\ run'[p].data.key = 0
        /\ \A q \in Runs : q # p => run'[q] = run[q]
    BY <1>2, <1>4, InvokeEffect DEF Became
  <2>2. Cardinality(Asking) \in Nat /\ Cardinality(Asking') = Cardinality(Asking) + One(MayMake(run'[p]))
    <3>1. ~ MayMake(run[p])
      BY <1>4 DEF Invoke, At, MayMake
    <3> QED BY <2>1, <3>1, SizesChange DEF One
  <2>3. op \in {"stage", "rotate"} => keys + Cardinality(Asking) < MaxKeys
    BY <1>4 DEF Invoke, Asking
  <2>4. keys' = keys /\ data' = data
    BY <1>4 DEF Invoke, aws
  <2> QED BY <1>1, <2>1, <2>2, <2>3, <2>4 DEF KeyInv, One, MayMake
<1>5. ASSUME NEW p \in Runs, Read(p) PROVE KeyInv'
  <2>1. data' = data /\ run[p].at = "read" /\ data["app"] \in Keys
    BY <1>5 DEF Read, aws, At, TypeOK, Secrets
  <2>2. /\ \A q \in Runs : q # p => run'[q] = run[q]
        /\ ~ MayMake(run'[p])
        /\ \/ keys' = keys /\ run'[p].data.key \in {0, data["app"].key}
           \/ keys' = keys + 1 /\ MayMake(run[p]) /\ run'[p].data.key = keys + 1
    <3> DEFINE new == Changed(run[p].op, data["app"], keys + 1)
    <3>1. run[p].op \in {"stage", "rotate"} => keys + 1 <= MaxKeys
      BY <2>1, AskingCounted DEF At
    <3>2. run[p].op \in Ops \ {"sync"}
      BY <1>5, ReadEffect
    <3>3. /\ run[p].op \in {"retire-hmac", "retire-previous"} => new.key = data["app"].key
          /\ run[p].op \in {"stage", "rotate"} /\ new # data["app"] => new.key = keys + 1
      <4>1. keys + 1 \in Nat /\ data["app"] \in Keys
        BY <1>1, <2>1
      <4> QED BY <4>1, <3>1, <3>2, ChangedKeys
    <3> HIDE DEF new
    <3>4. \/ /\ run'[p].at = "report" /\ run'[p].data.key = 0 /\ keys' = keys
             /\ \A q \in Runs : q # p => run'[q] = run[q]
          \/ /\ run'[p].at = "put" /\ run'[p].data = new /\ new # data["app"]
             /\ keys' = IF run[p].op \in {"stage", "rotate"} THEN keys + 1 ELSE keys
             /\ \A q \in Runs : q # p => run'[q] = run[q]
      BY <1>2, <1>5, ReadEffect DEF Became, new
    <3> QED BY <2>1, <3>2, <3>3, <3>4 DEF MayMake, Ops
  <2>3. CASE keys' = keys /\ run'[p].data.key \in {0, data["app"].key}
    BY <1>3, <2>1, <2>2, <2>3
  <2>4. CASE keys' = keys + 1 /\ MayMake(run[p]) /\ run'[p].data.key = keys + 1
    <3>1. Cardinality(Asking) \in Nat /\ Cardinality(Asking') = Cardinality(Asking) - 1
      BY <2>2, <2>4, SizesChange DEF One
    <3> QED BY <1>1, <2>1, <2>2, <2>4, <3>1 DEF KeyInv
  <2> QED BY <2>2, <2>3, <2>4
<1>6. ASSUME NEW p \in Runs, ReadSource(p) PROVE KeyInv'
  <2>1. keys' = keys /\ data' = data
    BY <1>6 DEF ReadSource, aws
  <2>2. run'[p].at = "read_destination" /\ run'[p].data.key = 0 /\ \A q \in Runs : q # p => run'[q] = run[q]
    BY <1>6, ReadSourceEffect DEF Became
  <2> QED BY <1>3, <2>1, <2>2 DEF MayMake
<1>7. ASSUME NEW p \in Runs, ReadDestination(p) PROVE KeyInv'
  BY <1>3, <1>7, ReadDestinationEffect DEF Became, ReadDestination, MayMake, aws
<1>8. ASSUME NEW p \in Runs, Recheck(p) PROVE KeyInv'
  BY <1>2, <1>3, <1>8, RecheckEffect DEF Became, Recheck, MayMake, aws
<1>9. ASSUME NEW p \in Runs, Put(p) PROVE KeyInv'
  <2>1. keys' = keys /\ data' = data
    BY <1>9 DEF Put
  <2> QED BY <1>2, <1>3, <1>9, <2>1, PutEffect DEF Became, MayMake
<1>10. ASSUME NEW p \in Runs, Promote(p) PROVE KeyInv'
  <2>1. keys' = keys
    BY <1>10 DEF Promote
  <2>2. \A q \in Runs : q # p => run'[q] = run[q]
    BY <1>10, PromoteEffect DEF Became
  <2>3. run'[p].at \in {"unlabel", "confirm"} /\ run'[p].data = run[p].data
    BY <1>10, PromoteEffect DEF Became
  <2>4. data'["app"] \in {data["app"], run[p].data}
    <3>1. Target(run[p].op) = "app" \/ Target(run[p].op) # "app"
      OBVIOUS
    <3> QED BY <1>1, <1>10, <3>1, PromoteEffect
  <2> QED BY <1>3, <2>1, <2>2, <2>3, <2>4 DEF MayMake
<1>11. ASSUME NEW p \in Runs, Confirm(p) PROVE KeyInv'
  BY <1>3, <1>11, ConfirmEffect DEF Became, Confirm, MayMake, aws
<1>12. ASSUME NEW p \in Runs, Unlabel(p) PROVE KeyInv'
  <2>1. keys' = keys /\ data' = data
    BY <1>12 DEF Unlabel
  <2> QED BY <1>3, <1>12, <2>1, UnlabelEffect DEF Became, MayMake
<1>13. ASSUME NEW p \in Runs, Report(p) PROVE KeyInv'
  BY <1>2, <1>3, <1>13, IdleEffect DEF Became, Report, MayMake, aws
<1>14. ASSUME NEW p \in Runs, CallFails(p) PROVE KeyInv'
  BY <1>2, <1>3, <1>14, CallFailsEffect DEF Became, CallFails, MayMake, aws
<1>15. ASSUME NEW p \in Runs, Kill(p) PROVE KeyInv'
  BY <1>2, <1>3, <1>15, IdleEffect DEF Became, Kill, MayMake, aws
<1>16. CASE Edit
  <2>1. keys' = keys /\ run' = run /\ data' = [data EXCEPT !["app"] = [data["app"] EXCEPT !.code = edits + 1]]
    BY <1>16 DEF Edit
  <2>2. data["app"] \in Keys /\ data \in [Secrets -> Keys]
    BY <1>1 DEF TypeOK
  <2>3. data'["app"].key = data["app"].key
    BY <1>1, <2>1, <2>2 DEF Keys
  <2>4. Asking' = Asking
    BY <2>1 DEF Asking, At
  <2> QED BY <1>1, <2>1, <2>3, <2>4 DEF KeyInv
<1> QED BY <1>4, <1>5, <1>6, <1>7, <1>8, <1>9, <1>10, <1>11, <1>12, <1>13, <1>14, <1>15, <1>16 DEF Next, Step

LEMMA Grow ==
  ASSUME TypeOK, Next
  PROVE  faults' >= faults /\ \A s \in Secrets : version'[s] >= version[s]
<1>1. faults \in Nat /\ \A s \in Secrets : version[s] \in Nat
  BY SizeAssumption DEF TypeOK
<1>2. Fault => faults' >= faults
  BY <1>1 DEF Fault
<1>3. CASE UNCHANGED version
  <2>1. ASSUME NEW p \in Runs, Step(p) PROVE faults' = faults \/ Fault
    <3>1. ASSUME NEW op \in Ops, Invoke(p, op) PROVE faults' = faults
      BY <3>1 DEF Invoke
    <3>2. ASSUME Read(p) \/ ReadSource(p) \/ ReadDestination(p) \/ Recheck(p) \/ Confirm(p) \/ Report(p)
          PROVE  faults' = faults
      BY <3>2 DEF Read, ReadSource, ReadDestination, Recheck, Confirm, Report
    <3>3. ASSUME Put(p) \/ Promote(p) \/ Unlabel(p) \/ CallFails(p) \/ Kill(p)
          PROVE  faults' = faults \/ Fault
      BY <3>3 DEF Put, Promote, Unlabel, CallFails, Kill
    <3> QED BY <2>1, <3>1, <3>2, <3>3 DEF Step
  <2>2. Edit => faults' = faults
    BY DEF Edit
  <2> QED BY <1>1, <1>2, <1>3, <2>1, <2>2 DEF Next
<1>4. CASE ~ UNCHANGED version
  <2>1. (\E p \in Runs : Promote(p)) \/ Edit
    BY <1>4 DEF Next, Step, Invoke, Read, ReadSource, ReadDestination, Recheck, Put, Confirm, Unlabel, Report,
                CallFails, Kill, aws
  <2>2. ASSUME NEW p \in Runs, Promote(p) PROVE faults' >= faults /\ \A s \in Secrets : version'[s] >= version[s]
    <3>1. run[p].op \in Ops
      BY RunType DEF Locals
    <3>2. Target(run[p].op) \in Secrets
      BY <3>1, TargetType
    <3>3. \/ faults' = faults \/ Fault
      BY <2>2 DEF Promote
    <3>4. \A s \in Secrets : version'[s] = version[s] \/ version'[s] = version[s] + 1
      BY <2>2, <3>2, PromoteEffect
    <3> QED BY <1>1, <1>2, <3>3, <3>4
  <2>3. CASE Edit
    <3>1. version \in [Secrets -> Nat]
      BY DEF TypeOK
    <3> QED BY <1>1, <2>3, <3>1 DEF Edit
  <2> QED BY <2>1, <2>2, <2>3
<1> QED BY <1>3, <1>4

LocalOf(p) ==
  LET r == run[p] IN
  /\ r.at \in {"read_destination", "recheck"} => r.op = "sync"
  /\ r.at \in {"idle", "read", "read_destination"} => r.base = 0
  /\ r.at \in {"idle", "read", "read_destination", "put", "promote"} => r.token = 0
  /\ r.at \notin {"unlabel", "recheck", "report"} => r.outcome = "ok"
  /\ r.token <= version[Target(r.op)]
  /\ r.at = "confirm" /\ r.token # 0 => faults >= 1
  /\ r.at = "unlabel" => IF r.outcome = "ok" THEN r.token # 0 ELSE r.token < version[Target(r.op)]

LEMMA LocalStep == TypeOK /\ Numbered /\ CountInv /\ LocalInv /\ Next => LocalInv'
<1> SUFFICES ASSUME TypeOK, Numbered, CountInv, LocalInv, Next PROVE LocalInv'
  OBVIOUS
<1>1. LocalInv' <=> \A q \in Runs : LocalOf(q)'
  BY DEF LocalInv, LocalOf, At
<1>2. \A q \in Runs : LocalOf(q)
  BY DEF LocalInv, LocalOf, At
<1>3. \A q \in Runs : run[q].op \in Ops /\ Target(run[q].op) \in Secrets /\ run[q].token \in Nat
  BY RunType, TargetType DEF Locals
<1>4. \A s \in Secrets : version[s] \in Nat /\ version'[s] \in Nat /\ version[s] >= 1 /\ version'[s] >= 1
  BY TypeStep DEF TypeOK, Numbered
<1>5. faults \in Nat /\ faults' \in Nat
  BY TypeStep, SizeAssumption DEF TypeOK
\* The others: versions and faults only grow.
<1>6. ASSUME NEW q \in Runs, run'[q] = run[q] PROVE LocalOf(q)'
  BY <1>2, <1>3, <1>4, <1>5, <1>6, Grow DEF LocalOf
<1>7. ASSUME NEW p \in Runs, NEW op \in Ops, Invoke(p, op) PROVE LocalOf(p)'
  BY <1>4, <1>7, InvokeEffect, TargetType DEF Became, LocalOf
<1>8. ASSUME NEW p \in Runs, Read(p) PROVE LocalOf(p)'
  <2>1. version' = version /\ run[p].at = "read"
    BY <1>8 DEF Read, aws, At
  <2> QED BY <1>2, <1>3, <1>4, <1>8, <2>1, ReadEffect DEF Became, LocalOf
<1>9. ASSUME NEW p \in Runs, ReadSource(p) PROVE LocalOf(p)'
  <2>1. version' = version /\ run[p].at = "read" /\ run[p].op = "sync"
    BY <1>9 DEF ReadSource, aws, At
  <2> QED BY <1>2, <1>3, <1>4, <1>9, <2>1, ReadSourceEffect DEF Became, LocalOf
<1>10. ASSUME NEW p \in Runs, ReadDestination(p) PROVE LocalOf(p)'
  <2>1. version' = version /\ run[p].at = "read_destination"
    BY <1>10 DEF ReadDestination, aws, At
  <2> QED BY <1>2, <1>3, <1>4, <1>10, <2>1, ReadDestinationEffect DEF Became, LocalOf
<1>11. ASSUME NEW p \in Runs, Recheck(p) PROVE LocalOf(p)'
  <2>1. version' = version /\ run[p].at = "recheck"
    BY <1>11 DEF Recheck, aws, At
  <2> QED BY <1>2, <1>3, <1>4, <1>11, <2>1, RecheckEffect DEF Became, LocalOf
<1>12. ASSUME NEW p \in Runs, Put(p) PROVE LocalOf(p)'
  <2>1. version' = version /\ run[p].at = "put"
    BY <1>12 DEF Put, At
  <2> QED BY <1>2, <1>3, <1>4, <1>12, <2>1, PutEffect DEF Became, LocalOf
<1>13. ASSUME NEW p \in Runs, Promote(p) PROVE LocalOf(p)'
  <2>1. run[p].at = "promote"
    BY <1>13 DEF Promote, At
  <2>2. Fault => faults' >= 1
    BY <1>5 DEF Fault
  <2> QED BY <1>2, <1>3, <1>4, <1>5, <1>13, <2>1, <2>2, PromoteEffect DEF Became, LocalOf
<1>14. ASSUME NEW p \in Runs, Confirm(p) PROVE LocalOf(p)'
  <2>1. version' = version /\ run[p].at = "confirm"
    BY <1>14 DEF Confirm, aws, At
  <2> QED BY <1>2, <1>3, <1>4, <1>14, <2>1, ConfirmEffect DEF Became, LocalOf
<1>15. ASSUME NEW p \in Runs, Unlabel(p) PROVE LocalOf(p)'
  <2>1. version' = version /\ run[p].at = "unlabel"
    BY <1>15 DEF Unlabel, At
  <2> QED BY <1>2, <1>3, <1>4, <1>15, <2>1, UnlabelEffect DEF Became, LocalOf
<1>16. ASSUME NEW p \in Runs, Report(p) \/ Kill(p) PROVE LocalOf(p)'
  <2>1. Became(p, "idle", "stage", Initial, 0, 0, 0, "ok")
    BY <1>16, IdleEffect DEF Report, Kill
  <2>2. Target("stage") \in Secrets
    BY TargetType DEF Ops
  <2> QED BY <1>4, <2>1, <2>2 DEF Became, LocalOf
<1>17. ASSUME NEW p \in Runs, CallFails(p) PROVE LocalOf(p)'
  <2>1. version' = version
    BY <1>17 DEF CallFails, aws
  <2> QED BY <1>2, <1>3, <1>4, <1>17, <2>1, CallFailsEffect DEF Became, LocalOf, At
<1>18. ASSUME NEW p \in Runs, Step(p) PROVE \A q \in Runs : LocalOf(q)'
  <2>1. LocalOf(p)'
    BY <1>7, <1>8, <1>9, <1>10, <1>11, <1>12, <1>13, <1>14, <1>15, <1>16, <1>17, <1>18 DEF Step
  <2>2. \A q \in Runs \ {p} : run'[q] = run[q]
    BY <1>18, OthersKept
  <2> QED BY <1>6, <2>1, <2>2
<1>19. CASE Edit
  BY <1>1, <1>6, <1>19 DEF Edit
<1> QED BY <1>1, <1>18, <1>19 DEF Next

\* What the tool makes of the current secret keeps its code and its keys, except that
\* retiring the previous key drops that one.
LEMMA ChangedHeld ==
  ASSUME NEW op \in Ops \ {"sync"}, NEW d \in Keys, NEW pair \in Nat, pair # 0,
         op \in {"stage", "rotate"} => pair <= MaxKeys,
         d.key = 0 => d.prev = 0, Allowed(op, d), Changed(op, d, pair) # d
  PROVE  LET new == Changed(op, d, pair) IN
         /\ new.code = d.code /\ new.key # 0
         /\ \A k \in Verifies(d) \ Verifies(new) : k # d.key /\ op = "retire-previous"
<1> DEFINE new == Changed(op, d, pair)
<1>1. /\ new \in Keys /\ new.code = d.code
      /\ op = "retire-hmac" => new.key = d.key /\ new.prev = d.prev
      /\ op = "retire-previous" => new.key = d.key
      /\ op \in {"stage", "rotate"} => new.key = pair /\ new.prev = d.key
  BY ChangedKeys
<1>2. /\ op \in {"retire-hmac", "retire-previous"} => d.key # 0
      /\ op = "rotate" => d.prev = 0
  BY DEF Allowed, Rsa
<1>3. op = "stage" => d.key = 0
  BY DEF Changed, Rsa
<1> HIDE DEF new
<1>4. new.key # 0
  BY <1>1, <1>2 DEF Ops
<1>5. \A k \in Verifies(d) \ Verifies(new) : k # d.key /\ op = "retire-previous"
  BY <1>1, <1>2, <1>3 DEF Ops, Verifies
<1> QED BY <1>1, <1>4, <1>5 DEF new

HeldOf(p) ==
  LET r == run[p]  d == data["app"] IN
  r.at \in {"put", "promote"} /\ r.op # "sync" =>
    /\ r.base <= version["app"]
    /\ r.base = version["app"] =>
         /\ r.data.code = d.code /\ r.data.key # 0
         /\ \A k \in Verifies(d) \ Verifies(r.data) : k # d.key /\ r.op = "retire-previous"

LEMMA HeldStep == TypeOK /\ Numbered /\ CountInv /\ LocalInv /\ HeldInv /\ Next => HeldInv'
<1> SUFFICES ASSUME TypeOK, Numbered, CountInv, LocalInv, HeldInv, Next PROVE HeldInv'
  OBVIOUS
<1> DEFINE Base == data["app"].key = 0 => data["app"].prev = 0
<1>1. HeldInv' <=> Base' /\ \A q \in Runs : HeldOf(q)'
  BY DEF HeldInv, HeldOf
<1>2. Base /\ \A q \in Runs : HeldOf(q)
  BY DEF HeldInv, HeldOf
<1>3. /\ "app" \in Secrets /\ version["app"] \in Nat /\ data["app"] \in Keys /\ keys \in Nat
      /\ version \in [Secrets -> Nat] /\ data \in [Secrets -> Keys]
      /\ \A q \in Runs : run[q].op \in Ops /\ run[q].base \in Nat
  BY RunType, SizeAssumption DEF TypeOK, Secrets, Locals
\* Secrets that stay: only the run that stepped matters.
<1>4. ASSUME NEW p \in Runs, Step(p), UNCHANGED <<data, version>>, HeldOf(p)' PROVE HeldInv'
  <2>1. Base'
    BY <1>2, <1>4
  <2>2. \A q \in Runs \ {p} : HeldOf(q)'
    BY <1>2, <1>4, OthersKept DEF HeldOf
  <2> QED BY <1>1, <1>4, <2>1, <2>2
\* A run that is elsewhere after its step.
<1>5. ASSUME NEW p \in Runs, run'[p].at \notin {"put", "promote"} PROVE HeldOf(p)'
  BY <1>5 DEF HeldOf
<1>6. ASSUME NEW p \in Runs, NEW op \in Ops, Invoke(p, op) PROVE HeldInv'
  BY <1>4, <1>5, <1>6, InvokeEffect DEF Became, Invoke, aws, Step
<1>7. ASSUME NEW p \in Runs, Read(p) PROVE HeldInv'
  <2>1. data' = data /\ version' = version /\ Step(p)
    BY <1>7 DEF Read, aws, Step
  <2> DEFINE op == run[p].op  d == data["app"]  new == Changed(op, d, keys + 1)
  <2>2. op \in Ops \ {"sync"}
    BY <1>7, ReadEffect
  <2>3. \/ run'[p].at = "report"
        \/ /\ run'[p].at = "put" /\ run'[p].base = version["app"] /\ run'[p].data = new /\ run'[p].op = op
           /\ new # d /\ Allowed(op, d)
    BY <1>7, ReadEffect DEF Became
  <2>4. CASE run'[p].at = "report"
    BY <1>4, <1>5, <2>1, <2>4
  <2>5. CASE /\ run'[p].at = "put" /\ run'[p].base = version["app"] /\ run'[p].data = new /\ run'[p].op = op
             /\ new # d /\ Allowed(op, d)
    <3>1. op \in {"stage", "rotate"} => keys + 1 <= MaxKeys
      BY <1>7, AskingCounted DEF Read
    <3>2. keys + 1 \in Nat /\ keys + 1 # 0 /\ d \in Keys /\ (d.key = 0 => d.prev = 0)
      BY <1>2, <1>3
    <3>3. /\ new.code = d.code /\ new.key # 0
          /\ \A k \in Verifies(d) \ Verifies(new) : k # d.key /\ op = "retire-previous"
      BY <2>2, <2>5, <3>1, <3>2, ChangedHeld
    <3> HIDE DEF new
    <3>4. HeldOf(p)'
      BY <1>3, <2>1, <2>5, <3>3 DEF HeldOf
    <3> QED BY <1>4, <2>1, <3>4
  <2> QED BY <2>3, <2>4, <2>5
<1>8. ASSUME NEW p \in Runs, ReadSource(p) PROVE HeldInv'
  <2>1. run'[p].at = "read_destination"
    BY <1>8, ReadSourceEffect DEF Became
  <2> QED BY <1>4, <1>5, <1>8, <2>1 DEF ReadSource, aws, Step
<1>9. ASSUME NEW p \in Runs, ReadDestination(p) PROVE HeldInv'
  <2>1. run[p].op = "sync"
    BY <1>9 DEF ReadDestination, LocalInv, At
  <2>2. run'[p].op = "sync"
    BY <1>9, <2>1, ReadDestinationEffect DEF Became
  <2>3. HeldOf(p)'
    BY <2>2 DEF HeldOf
  <2> QED BY <1>4, <1>9, <2>3 DEF ReadDestination, aws, Step
<1>10. ASSUME NEW p \in Runs, Recheck(p) \/ Confirm(p) \/ Report(p) \/ Kill(p) \/ CallFails(p) PROVE HeldInv'
  <2>1. run'[p].at \notin {"put", "promote"}
    BY <1>10, RecheckEffect, ConfirmEffect, IdleEffect, CallFailsEffect DEF Became, Report, Kill
  <2>2. UNCHANGED <<data, version>> /\ Step(p)
    BY <1>10 DEF Recheck, Confirm, Report, Kill, CallFails, aws, Step
  <2> QED BY <1>4, <1>5, <2>1, <2>2
<1>11. ASSUME NEW p \in Runs, Put(p) PROVE HeldInv'
  <2>1. UNCHANGED <<data, version>> /\ Step(p) /\ run[p].at = "put"
    BY <1>11 DEF Put, Step, At
  <2>2. HeldOf(p)'
    BY <1>2, <1>11, <2>1, PutEffect DEF Became, HeldOf
  <2> QED BY <1>4, <2>1, <2>2
<1>12. ASSUME NEW p \in Runs, Unlabel(p) PROVE HeldInv'
  <2>1. UNCHANGED <<data, version>> /\ Step(p)
    BY <1>12 DEF Unlabel, Step
  <2>2. run'[p].at \notin {"put", "promote"}
    BY <1>12, UnlabelEffect DEF Became
  <2> QED BY <1>4, <1>5, <2>1, <2>2
\* Once the application's secret is a version further, no other run's is current.
<1>13. ASSUME version'["app"] = version["app"] + 1, NEW q \in Runs, run'[q] = run[q] PROVE HeldOf(q)'
  BY <1>2, <1>3, <1>13 DEF HeldOf
<1>14. ASSUME NEW p \in Runs, Promote(p) PROVE HeldInv'
  <2>1. run[p].at = "promote" /\ run'[p].at \notin {"put", "promote"} /\ Step(p)
    BY <1>14, PromoteEffect DEF Became, Promote, At, Step
  <2>2. \A q \in Runs \ {p} : run'[q] = run[q]
    BY <2>1, OthersKept
  <2>3. CASE version'["app"] = version["app"] /\ data'["app"] = data["app"]
    <3>1. \A q \in Runs \ {p} : HeldOf(q)'
      BY <1>2, <2>2, <2>3 DEF HeldOf
    <3> QED BY <1>1, <1>2, <1>5, <2>1, <2>3, <3>1
  <2>4. CASE /\ run[p].op # "sync" /\ version["app"] = run[p].base
             /\ version'["app"] = version["app"] + 1 /\ data'["app"] = run[p].data
    <3>1. data'["app"].key # 0
      BY <1>2, <2>1, <2>4 DEF HeldOf
    <3>2. \A q \in Runs \ {p} : HeldOf(q)'
      BY <1>13, <2>2, <2>4
    <3> QED BY <1>1, <1>5, <2>1, <3>1, <3>2
  <2>5. Target(run[p].op) = "app" => run[p].op # "sync"
    BY <1>3, TargetType
  <2> QED BY <1>3, <1>14, <2>3, <2>4, <2>5, PromoteEffect
<1>15. CASE Edit
  <2>1. run' = run /\ version'["app"] = version["app"] + 1
    BY <1>3, <1>15 DEF Edit
  <2>2. data' = [data EXCEPT !["app"] = [data["app"] EXCEPT !.code = edits + 1]]
    BY <1>15 DEF Edit
  <2>3. data'["app"].key = data["app"].key /\ data'["app"].prev = data["app"].prev
    BY <1>3, <2>2 DEF Keys
  <2> QED BY <1>1, <1>2, <1>13, <2>1, <2>3
<1> QED BY <1>6, <1>7, <1>8, <1>9, <1>10, <1>11, <1>12, <1>14, <1>15 DEF Next, Step

Copying(p) == run[p].op = "sync" /\ run[p].at # "idle"
CopyOf(p) ==
  LET r == run[p] IN
  r.op = "sync" /\ r.at \notin {"idle", "read", "report"} =>
    /\ r.source <= version["app"]
    /\ r.source = version["app"] => r.data.code = data["app"].code
    /\ r.at = "recheck" \/ (r.at = "confirm" /\ r.token # 0) \/ (r.at = "unlabel" /\ r.outcome = "ok")
         => data["waf"] = r.data

\* No step but an invocation makes a run that copies.
LEMMA OneCopy ==
  ASSUME TypeOK, CountInv, NEW p \in Runs, Step(p), Copying(p)', ~ Copying(p)
  PROVE  Invoke(p, "sync")
<1>1. run'[p].op = "sync" /\ run'[p].at # "idle" /\ run[p].op \in Ops /\ (run[p].op = "sync" => run[p].at = "idle")
  BY RunType DEF Copying, Locals
<1>2. ASSUME NEW op \in Ops, Invoke(p, op) PROVE Invoke(p, "sync")
  BY <1>1, <1>2, InvokeEffect DEF Became
<1>3. CASE Read(p)
  BY <1>1, <1>3, ReadEffect DEF Became, Read, At
<1>4. CASE ReadSource(p) \/ ReadDestination(p) \/ Recheck(p)
  BY <1>1, <1>4, ReadDestinationEffect, RecheckEffect DEF Became, ReadSource, ReadDestination, Recheck, At
<1>5. CASE Put(p)
  <2>1. run[p].at = "put"
    BY <1>5 DEF Put, At
  <2> QED BY <1>1, <1>5, <2>1, PutEffect DEF Became
<1>6. CASE Promote(p)
  <2>1. run[p].at = "promote"
    BY <1>6 DEF Promote, At
  <2> QED BY <1>1, <1>6, <2>1, PromoteEffect DEF Became
<1>7. CASE Confirm(p)
  BY <1>1, <1>7, ConfirmEffect DEF Became, Confirm, At
<1>8. CASE Unlabel(p)
  <2>1. run[p].at = "unlabel"
    BY <1>8 DEF Unlabel, At
  <2> QED BY <1>1, <1>8, <2>1, UnlabelEffect DEF Became
<1>9. CASE Report(p) \/ Kill(p)
  BY <1>1, <1>9, IdleEffect DEF Became, Report, Kill
<1>10. CASE CallFails(p)
  BY <1>1, <1>10, CallFailsEffect DEF Became, At
<1> QED BY <1>2, <1>3, <1>4, <1>5, <1>6, <1>7, <1>8, <1>9, <1>10 DEF Step

LEMMA CopyStep == TypeOK /\ Numbered /\ CountInv /\ LocalInv /\ CopyInv /\ Next => CopyInv'
<1> SUFFICES ASSUME TypeOK, Numbered, CountInv, LocalInv, CopyInv, Next PROVE CopyInv'
  OBVIOUS
<1> DEFINE Alone == \A p, q \in Runs : Copying(p) /\ Copying(q) => p = q
<1>1. CopyInv' <=> Alone' /\ \A q \in Runs : CopyOf(q)'
  BY DEF CopyInv, Copying, CopyOf, At
<1>2. Alone /\ \A q \in Runs : CopyOf(q)
  BY DEF CopyInv, Copying, CopyOf, At
<1>3. /\ "app" \in Secrets /\ "waf" \in Secrets /\ version \in [Secrets -> Nat] /\ data \in [Secrets -> Keys]
      /\ version["app"] \in Nat
      /\ \A q \in Runs : run[q].op \in Ops /\ run[q].source \in Nat /\ run[q].token \in Nat
  BY RunType DEF TypeOK, Secrets, Locals
\* One copies at a time.
<1>4. ASSUME NEW p \in Runs, Step(p) PROVE Alone'
  <2>1. \A q \in Runs \ {p} : run'[q] = run[q]
    BY <1>4, OthersKept
  <2>2. \A q \in Runs \ {p} : Copying(q)' <=> Copying(q)
    BY <2>1 DEF Copying
  <2>3. CASE Copying(p)' => Copying(p)
    BY <1>2, <2>2, <2>3
  <2>4. CASE Copying(p)' /\ ~ Copying(p)
    <3>1. Invoke(p, "sync")
      BY <1>4, <2>4, OneCopy
    <3>2. \A q \in Runs : ~ Copying(q)
      BY <3>1 DEF Invoke, Copying, At
    <3> QED BY <2>2, <3>2
  <2> QED BY <2>3, <2>4
\* The secrets that a run's copy is about stay or, the application's, get a version further.
<1>5. ASSUME NEW q \in Runs, run'[q] = run[q], Copying(q) => data'["waf"] = data["waf"],
             \/ version'["app"] = version["app"] /\ data'["app"] = data["app"]
             \/ version'["app"] = version["app"] + 1
      PROVE  CopyOf(q)'
  BY <1>2, <1>3, <1>5 DEF CopyOf, Copying
<1>6. ASSUME NEW p \in Runs, Step(p), UNCHANGED <<data, version>>, CopyOf(p)' PROVE CopyInv'
  <2>1. \A q \in Runs \ {p} : CopyOf(q)'
    BY <1>5, <1>6, OthersKept
  <2> QED BY <1>1, <1>4, <1>6, <2>1
<1>7. ASSUME NEW p \in Runs, run'[p].op # "sync" \/ run'[p].at \in {"idle", "read", "report"} PROVE CopyOf(p)'
  BY <1>7 DEF CopyOf
<1>8. ASSUME NEW p \in Runs, NEW op \in Ops, Invoke(p, op) PROVE CopyInv'
  BY <1>6, <1>7, <1>8, InvokeEffect DEF Became, Invoke, aws, Step
<1>9. ASSUME NEW p \in Runs, Read(p) PROVE CopyInv'
  <2>1. data' = data /\ version' = version /\ Step(p) /\ run[p].op # "sync"
    BY <1>9 DEF Read, aws, Step
  <2>2. run'[p].op # "sync"
    BY <1>9, <2>1, ReadEffect DEF Became
  <2> QED BY <1>6, <1>7, <2>1, <2>2
<1>10. ASSUME NEW p \in Runs, ReadSource(p) PROVE CopyInv'
  <2>1. data' = data /\ version' = version /\ Step(p)
    BY <1>10 DEF ReadSource, aws, Step
  <2>2. CopyOf(p)'
    BY <1>3, <1>10, <2>1, ReadSourceEffect DEF Became, CopyOf
  <2> QED BY <1>6, <2>1, <2>2
<1>11. ASSUME NEW p \in Runs, ReadDestination(p) PROVE CopyInv'
  <2>1. data' = data /\ version' = version /\ Step(p) /\ run[p].at = "read_destination" /\ run[p].op = "sync"
    BY <1>11 DEF ReadDestination, aws, Step, At, LocalInv
  <2>2. CopyOf(p)'
    BY <1>2, <1>3, <1>11, <2>1, ReadDestinationEffect DEF Became, CopyOf
  <2> QED BY <1>6, <2>1, <2>2
<1>12. ASSUME NEW p \in Runs, Recheck(p) \/ Report(p) \/ Kill(p) PROVE CopyInv'
  <2>1. run'[p].at \in {"idle", "report"}
    BY <1>12, RecheckEffect, IdleEffect DEF Became, Report, Kill
  <2>2. UNCHANGED <<data, version>> /\ Step(p)
    BY <1>12 DEF Recheck, Report, Kill, aws, Step
  <2> QED BY <1>6, <1>7, <2>1, <2>2
<1>13. ASSUME NEW p \in Runs, Put(p) PROVE CopyInv'
  <2>1. data' = data /\ version' = version /\ Step(p) /\ run[p].at = "put"
    BY <1>13 DEF Put, Step, At
  <2>2. CopyOf(p)'
    BY <1>2, <1>3, <1>13, <2>1, PutEffect DEF Became, CopyOf
  <2> QED BY <1>6, <2>1, <2>2
<1>14. ASSUME NEW p \in Runs, Confirm(p) PROVE CopyInv'
  <2>1. data' = data /\ version' = version /\ Step(p) /\ run[p].at = "confirm"
    BY <1>14 DEF Confirm, aws, Step, At
  <2>2. run[p].op = "sync" => Target(run[p].op) = "waf" /\ version["waf"] >= 1 /\ version["waf"] \in Nat
    BY <1>3 DEF Target, Numbered
  <2>3. CopyOf(p)'
    BY <1>2, <1>3, <1>14, <2>1, <2>2, ConfirmEffect DEF Became, CopyOf
  <2> QED BY <1>6, <2>1, <2>3
<1>15. ASSUME NEW p \in Runs, Unlabel(p) PROVE CopyInv'
  <2>1. data' = data /\ version' = version /\ Step(p) /\ run[p].at = "unlabel"
    BY <1>15 DEF Unlabel, Step, At
  <2>2. CopyOf(p)'
    BY <1>2, <1>3, <1>15, <2>1, UnlabelEffect DEF Became, CopyOf
  <2> QED BY <1>6, <2>1, <2>2
<1>16. ASSUME NEW p \in Runs, CallFails(p) PROVE CopyInv'
  <2>1. data' = data /\ version' = version /\ Step(p)
    BY <1>16 DEF CallFails, aws, Step
  <2>2. At(p, "promote") => run[p].token = 0 /\ run[p].at = "promote"
    BY DEF LocalInv, At
  <2>3. CopyOf(p)'
    BY <1>2, <1>3, <1>16, <2>1, <2>2, CallFailsEffect DEF Became, CopyOf
  <2> QED BY <1>6, <2>1, <2>3
<1>17. ASSUME NEW p \in Runs, Promote(p) PROVE CopyInv'
  <2>1. run[p].at = "promote" /\ run[p].token = 0 /\ Step(p)
    BY <1>17 DEF Promote, At, Step, LocalInv
  <2>2. \A q \in Runs \ {p} : run'[q] = run[q]
    BY <2>1, OthersKept
  <2>3. CASE run[p].op = "sync"
    <3>1. Target(run[p].op) = "waf"
      BY <2>3 DEF Target
    <3>2. \A q \in Runs \ {p} : ~ Copying(q)
      BY <1>2, <2>1, <2>3 DEF Copying
    <3>3. version'["app"] = version["app"] /\ data'["app"] = data["app"]
      BY <1>3, <1>17, <3>1, PromoteEffect
    <3>4. CopyOf(p)'
      BY <1>2, <1>3, <1>17, <2>1, <2>3, <3>1, <3>3, PromoteEffect DEF Became, CopyOf
    <3>5. \A q \in Runs \ {p} : CopyOf(q)'
      BY <1>5, <2>2, <3>2, <3>3
    <3> QED BY <1>1, <1>4, <2>1, <3>4, <3>5
  <2>4. CASE run[p].op # "sync"
    <3>1. Target(run[p].op) = "app"
      BY <2>4 DEF Target
    <3>2. data'["waf"] = data["waf"]
      BY <1>3, <1>17, <3>1, PromoteEffect
    <3>3. \/ version'["app"] = version["app"] /\ data'["app"] = data["app"]
          \/ version'["app"] = version["app"] + 1
      BY <1>3, <1>17, <3>1, PromoteEffect
    <3>4. run'[p].op # "sync"
      BY <1>17, <2>4, PromoteEffect DEF Became
    <3>5. \A q \in Runs \ {p} : CopyOf(q)'
      BY <1>5, <2>2, <3>2, <3>3
    <3> QED BY <1>1, <1>4, <1>7, <2>1, <3>4, <3>5
  <2> QED BY <2>3, <2>4
<1>18. CASE Edit
  <2>1. run' = run /\ version'["app"] = version["app"] + 1 /\ data'["waf"] = data["waf"]
    BY <1>3, <1>18 DEF Edit
  <2>2. Alone'
    BY <1>2, <2>1 DEF Copying
  <2> QED BY <1>1, <1>5, <2>1, <2>2
<1> QED BY <1>8, <1>9, <1>10, <1>11, <1>12, <1>13, <1>14, <1>15, <1>16, <1>17, <1>18 DEF Next, Step

LEMMA EditsStep == TypeOK /\ LocalInv /\ HeldInv /\ EditsKept /\ Next => EditsKept'
<1> SUFFICES ASSUME TypeOK, LocalInv, HeldInv, EditsKept, Next PROVE EditsKept'
  OBVIOUS
<1>1. /\ "app" \in Secrets /\ version \in [Secrets -> Nat] /\ data \in [Secrets -> Keys] /\ edits \in Nat
      /\ \A q \in Runs : run[q].op \in Ops
  BY RunType, SizeAssumption DEF TypeOK, Secrets, Locals
<1>2. ASSUME UNCHANGED <<data, edits>> PROVE EditsKept'
  BY <1>2 DEF EditsKept
<1>3. ASSUME NEW p \in Runs, Promote(p) PROVE EditsKept'
  <2>1. edits' = edits /\ run[p].at = "promote"
    BY <1>3 DEF Promote, At
  <2>2. run[p].op # "sync" /\ run[p].base = version["app"] => run[p].data.code = data["app"].code
    BY <2>1 DEF HeldInv
  <2>3. data'["app"] = data["app"] \/
        (run[p].op # "sync" /\ run[p].base = version["app"] /\ data'["app"] = run[p].data)
    <3>1. Target(run[p].op) = "app" <=> run[p].op # "sync"
      BY <1>1, TargetType
    <3> QED BY <1>1, <1>3, <3>1, PromoteEffect
  <2> QED BY <2>1, <2>2, <2>3 DEF EditsKept
<1>4. CASE Edit
  <2>1. edits' = edits + 1 /\ data' = [data EXCEPT !["app"] = [data["app"] EXCEPT !.code = edits + 1]]
    BY <1>4 DEF Edit
  <2> QED BY <1>1, <2>1 DEF Keys, EditsKept
<1>5. ASSUME NEW p \in Runs, Step(p) PROVE EditsKept'
  <2>1. ASSUME NEW op \in Ops, Invoke(p, op) PROVE EditsKept'
    BY <1>2, <2>1 DEF Invoke, aws
  <2>2. CASE Read(p) \/ ReadSource(p) \/ ReadDestination(p) \/ Recheck(p)
    BY <1>2, <2>2 DEF Read, ReadSource, ReadDestination, Recheck, aws
  <2>3. CASE Put(p) \/ Confirm(p) \/ Unlabel(p) \/ Report(p) \/ CallFails(p) \/ Kill(p)
    BY <1>2, <2>3 DEF Put, Confirm, Unlabel, Report, CallFails, Kill, aws
  <2> QED BY <1>3, <1>5, <2>1, <2>2, <2>3 DEF Step
<1> QED BY <1>4, <1>5 DEF Next

ReportOf(p) ==
  LET r == run[p] IN
  r.at = "report" /\ r.op # "sync" /\ r.base # 0 =>
    IF r.outcome = "ok" THEN r.token # 0
    ELSE r.token = 0 \/ r.token < version["app"] \/ faults >= 2

LEMMA ReportStep ==
  TypeOK /\ Numbered /\ CountInv /\ LocalInv /\ ReportsAreTrue /\ Next => ReportsAreTrue'
<1> SUFFICES ASSUME TypeOK, Numbered, CountInv, LocalInv, ReportsAreTrue, Next PROVE ReportsAreTrue'
  OBVIOUS
<1>1. TypeOK' /\ Numbered'
  BY TypeStep
<1>2. /\ "app" \in Secrets /\ version["app"] \in Nat /\ faults \in Nat
      /\ \A q \in Runs : run[q].op \in Ops /\ run[q].token \in Nat
  BY RunType, SizeAssumption DEF TypeOK, Secrets, Locals
<1>3. /\ version'["app"] \in Nat /\ faults' \in Nat
      /\ \A q \in Runs : run'[q].token \in Nat
  BY <1>1, SizeAssumption DEF TypeOK, Secrets
<1>4. \A q \in Runs : ReportOf(q)
  BY <1>2 DEF ReportsAreTrue, ReportOf, At
<1>5. (\A q \in Runs : ReportOf(q)') => ReportsAreTrue'
  BY <1>3 DEF ReportsAreTrue, ReportOf, At
<1>6. ASSUME NEW q \in Runs, run'[q] = run[q] PROVE ReportOf(q)'
  BY <1>2, <1>3, <1>4, <1>6, Grow DEF ReportOf
<1>7. ASSUME NEW p \in Runs, run'[p].at # "report" PROVE ReportOf(p)'
  BY <1>7 DEF ReportOf
<1>8. ASSUME NEW p \in Runs, NEW op \in Ops, Invoke(p, op) PROVE ReportOf(p)'
  BY <1>7, <1>8, InvokeEffect DEF Became
<1>9. ASSUME NEW p \in Runs, Read(p) PROVE ReportOf(p)'
  <2>1. run[p].base = 0
    BY <1>9 DEF Read, At, LocalInv
  <2> QED BY <1>9, <2>1, ReadEffect DEF Became, ReportOf
<1>10. ASSUME NEW p \in Runs, ReadSource(p) \/ ReadDestination(p) \/ Confirm(p) \/ Report(p) \/ Kill(p) \/ Promote(p)
       PROVE  ReportOf(p)'
  <2>1. ReadSource(p) \/ ReadDestination(p) => run'[p].at # "report"
    BY ReadSourceEffect, ReadDestinationEffect DEF Became
  <2>2. Confirm(p) \/ Promote(p) => run'[p].at # "report"
    BY ConfirmEffect, PromoteEffect DEF Became
  <2>3. Report(p) \/ Kill(p) => run'[p].at # "report"
    BY IdleEffect DEF Became, Report, Kill
  <2> QED BY <1>7, <1>10, <2>1, <2>2, <2>3
<1>11. ASSUME NEW p \in Runs, Recheck(p) PROVE ReportOf(p)'
  <2>1. run[p].op = "sync"
    BY <1>11 DEF Recheck, At, LocalInv
  <2> QED BY <1>11, <2>1, RecheckEffect DEF Became, ReportOf
<1>12. ASSUME NEW p \in Runs, Put(p) PROVE ReportOf(p)'
  <2>1. run[p].token = 0
    BY <1>12 DEF Put, At, LocalInv
  <2> QED BY <1>12, <2>1, PutEffect DEF Became, ReportOf
<1>13. ASSUME NEW p \in Runs, Unlabel(p) PROVE ReportOf(p)'
  <2>1. /\ IF run[p].outcome = "ok" THEN run[p].token # 0 ELSE run[p].token < version[Target(run[p].op)]
        /\ version' = version
    BY <1>13 DEF Unlabel, At, LocalInv
  <2>2. run[p].op # "sync" => Target(run[p].op) = "app"
    BY DEF Target
  <2> QED BY <1>13, <2>1, <2>2, UnlabelEffect DEF Became, ReportOf
<1>14. ASSUME NEW p \in Runs, CallFails(p) PROVE ReportOf(p)'
  <2>1. run[p].at \in {"read", "read_destination", "recheck", "put"} =>
          run[p].base = 0 \/ run[p].op = "sync" \/ run[p].token = 0
    BY DEF LocalInv
  <2>2. run[p].at = "confirm" /\ run[p].token # 0 => faults' >= 2
    BY <1>2, <1>14 DEF CallFails, Fault, LocalInv, At
  <2> QED BY <1>14, <2>1, <2>2, CallFailsEffect DEF Became, ReportOf
<1>15. ASSUME NEW p \in Runs, Step(p) PROVE \A q \in Runs : ReportOf(q)'
  <2>1. ReportOf(p)'
    BY <1>8, <1>9, <1>10, <1>11, <1>12, <1>13, <1>14, <1>15 DEF Step
  <2> QED BY <1>6, <1>15, <2>1, OthersKept
<1>16. CASE Edit
  BY <1>5, <1>6, <1>16 DEF Edit
<1> QED BY <1>5, <1>15, <1>16 DEF Next

-----------------------------------------------------------------------------
LEMMA InitInv == Init => IInv
<1> SUFFICES ASSUME Init PROVE IInv
  OBVIOUS
<1>1. run = [p \in Runs |-> Idle] /\ Idle \in Locals
  BY InitialKeys DEF Init, Idle, Locals, Places, Ops
<1>2. \A p \in Runs : run[p] = Idle
  BY <1>1
<1>3. /\ Idle.at = "idle" /\ Idle.op = "stage" /\ Idle.data = Initial /\ Idle.base = 0 /\ Idle.token = 0
      /\ Idle.outcome = "ok"
  BY DEF Idle
<1>4. TypeOK
  BY <1>1, InitialKeys, SizeAssumption DEF Init, TypeOK, Locals, Places
<1>5. \A s \in Secrets : version[s] = 1 /\ labels[s] = 0 /\ data[s] = Initial
  BY DEF Init
<1>6. "app" \in Secrets /\ "waf" \in Secrets /\ Target("stage") = "app"
  BY DEF Secrets, Target
<1>7. Initial.key = 0 /\ Initial.prev = 0 /\ Initial.code = 0
  BY DEF Initial
<1>8. CountInv
  <2>1. Asking = {} /\ Labelled = {} /\ \A s \in Secrets : Staging(s) = {}
    BY <1>2, <1>3 DEF Asking, Labelled, Staging, HasLabel, At
  <2>2. Cardinality({}) = 0
    BY FS_EmptySet
  <2>3. keys = 0 /\ faults = 0
    BY DEF Init
  <2>4. LabelsRemoved
    <3>1. labels["app"] + labels["waf"] <= faults + Cardinality(Labelled)
      BY <1>5, <1>6, <2>1, <2>2, <2>3
    <3> QED BY <3>1 DEF LabelsRemoved, Labelled, HasLabel
  <2>5. \A s \in Secrets : Cardinality(Staging(s)) <= labels[s]
    BY <1>5, <2>1, <2>2
  <2>6. keys + Cardinality(Asking) <= MaxKeys
    BY <2>1, <2>2, <2>3, SizeAssumption
  <2>7. data["app"].key <= keys /\ \A p \in Runs : run[p].data.key <= keys
    BY <1>2, <1>3, <1>5, <1>6, <1>7, <2>3
  <2> QED BY <2>4, <2>5, <2>6, <2>7 DEF CountInv
<1>9. LocalInv
  BY <1>2, <1>3, <1>5, <1>6 DEF LocalInv, At
<1>10. HeldInv
  BY <1>2, <1>3, <1>5, <1>6, <1>7 DEF HeldInv
<1>11. CopyInv
  BY <1>2, <1>3 DEF CopyInv, At
<1>12. EditsKept
  BY <1>5, <1>6, <1>7 DEF Init, EditsKept
<1>13. ReportsAreTrue
  BY <1>2, <1>3 DEF ReportsAreTrue, At
<1> QED BY <1>4, <1>5, <1>8, <1>9, <1>10, <1>11, <1>12, <1>13 DEF IInv

LEMMA StutterInv == IInv /\ UNCHANGED vars => IInv'
BY DEF IInv, vars, aws, TypeOK, CountInv, LabelsRemoved, Staging, Asking, LocalInv, HeldInv, CopyInv, EditsKept,
       ReportsAreTrue, At

LEMMA StepInv == IInv /\ Next => IInv'
<1> SUFFICES ASSUME IInv, Next PROVE IInv'
  OBVIOUS
<1>1. TypeOK /\ Numbered /\ CountInv /\ LocalInv /\ HeldInv /\ CopyInv /\ EditsKept /\ ReportsAreTrue
  BY DEF IInv, Numbered
<1>2. TypeOK' /\ Numbered'
  BY <1>1, TypeStep
<1>3. CountInv'
  BY <1>1, LabelStep, KeyStep DEF CountInv, LabelInv, KeyInv
<1>4. LocalInv' /\ HeldInv' /\ CopyInv' /\ EditsKept' /\ ReportsAreTrue'
  BY <1>1, LocalStep, HeldStep, CopyStep, EditsStep, ReportStep
<1> QED BY <1>2, <1>3, <1>4 DEF IInv, Numbered

\* The strengthening holds in every reachable state.
THEOREM Invariance == Spec => []IInv
<1>1. IInv /\ [Next]_vars => IInv'
  BY StepInv, StutterInv
<1> QED BY InitInv, <1>1, PTL DEF Spec

\* For any number of runs: every state is of its type, and labels that stay are the traces
\* of failed calls and kills (promote_secret of aws_secret_tools.py).
THEOREM RotationIsSafe == Spec => []Safety
<1>1. IInv => Safety
  BY DEF IInv, CountInv, Safety
<1> QED BY Invariance, <1>1, PTL

\* No run of the tools ever overwrites a change of the access code by somebody else,
\* however runs, edits, lost answers and kills interleave.
THEOREM EditsAreKept == Spec => []EditsKept
<1>1. IInv => EditsKept
  BY DEF IInv
<1> QED BY Invariance, <1>1, PTL

\* A run that reports a promotion made it, and one that reports a failure did not,
\* or was passed by others, or lost both the answer and the look.
THEOREM ReportsTold == Spec => []ReportsAreTrue
<1>1. IInv => ReportsAreTrue
  BY DEF IInv
<1> QED BY Invariance, <1>1, PTL

\* The next two are about the steps that make the code of the application's secret
\* or its keys, and the last look of the copy.
LEMMA KeysStep ==
  ASSUME IInv, [Next]_vars, NEW k \in Verifies(data["app"]) \ Verifies(data'["app"])
  PROVE  k # data["app"].key /\ \E p \in Runs : run[p].op = "retire-previous" /\ Promote(p)
<1>1. TypeOK /\ HeldInv
  BY DEF IInv
<1>2. /\ "app" \in Secrets /\ data \in [Secrets -> Keys] /\ data["app"] \in Keys
      /\ \A q \in Runs : run[q].op \in Ops
  BY <1>1, RunType DEF TypeOK, Secrets, Locals
<1>3. data'["app"] # data["app"]
  OBVIOUS
<1>4. ~ Edit
  <2>1. SUFFICES ASSUME Edit PROVE FALSE
    OBVIOUS
  <2>2. data' = [data EXCEPT !["app"] = [data["app"] EXCEPT !.code = edits + 1]]
    BY <2>1 DEF Edit
  <2>3. data'["app"].key = data["app"].key /\ data'["app"].prev = data["app"].prev
    BY <1>2, <2>2 DEF Keys
  <2> QED BY <2>3 DEF Verifies
<1>5. PICK p \in Runs : Step(p)
  BY <1>3, <1>4 DEF Next, vars, aws
<1>6. Promote(p)
  <2>1. ASSUME NEW op \in Ops, Invoke(p, op) PROVE FALSE
    BY <1>3, <2>1 DEF Invoke, aws
  <2>2. ~ (Read(p) \/ ReadSource(p) \/ ReadDestination(p) \/ Recheck(p))
    BY <1>3 DEF Read, ReadSource, ReadDestination, Recheck, aws
  <2>3. ~ (Put(p) \/ Confirm(p) \/ Unlabel(p) \/ Report(p) \/ CallFails(p) \/ Kill(p))
    BY <1>3 DEF Put, Confirm, Unlabel, Report, CallFails, Kill, aws
  <2> QED BY <1>5, <2>1, <2>2, <2>3 DEF Step
<1>7. run[p].op # "sync" /\ run[p].base = version["app"] /\ data'["app"] = run[p].data /\ run[p].at = "promote"
  <2>1. Target(run[p].op) = "app" <=> run[p].op # "sync"
    BY <1>2, TargetType
  <2>2. run[p].at = "promote"
    BY <1>6 DEF Promote, At
  <2> QED BY <1>1, <1>2, <1>3, <1>6, <2>1, <2>2, PromoteEffect
<1>8. k # data["app"].key /\ run[p].op = "retire-previous"
  BY <1>1, <1>7 DEF HeldInv
<1> QED BY <1>6, <1>8

\* A key that signs or verifies tokens stops being served only by a retirement of the
\* previous key, and the key that signs never does: for every interleaving of runs.
THEOREM KeysAreKept == Spec => KeysKeptUntilRetired
<1> DEFINE Kept == \A k \in Verifies(data["app"]) \ Verifies(data'["app"]) :
                     k # data["app"].key /\ \E p \in Runs : run[p].op = "retire-previous" /\ Promote(p)
<1>1. IInv /\ [Next]_vars => [Kept]_vars
  BY KeysStep
<1> QED BY Invariance, <1>1, PTL DEF Spec, KeysKeptUntilRetired

LEMMA SyncStep ==
  ASSUME IInv, [Next]_vars, NEW p \in Runs, At(p, "recheck"), run'[p].at = "report", run'[p].outcome = "ok"
  PROVE  data["waf"].code = data["app"].code
<1>1. TypeOK /\ CountInv /\ LocalInv /\ CopyInv
  BY DEF IInv
<1>2. run[p].at = "recheck" /\ run'[p] # run[p] /\ run[p].op = "sync"
  BY <1>1 DEF At, LocalInv
<1>3. PICK q \in Runs : Step(q)
  BY <1>2 DEF Next, vars, Edit
<1>4. q = p
  BY <1>1, <1>2, <1>3, OthersKept
<1>5. Recheck(p)
  <2>1. CallFails(p) => run'[p].outcome = "failed"
    BY <1>1, <1>2, CallFailsEffect DEF Became, At
  <2>2. Kill(p) => run'[p].at = "idle"
    BY <1>1, IdleEffect DEF Became, Kill
  <2>3. ~ Promote(p) /\ ~ Put(p) /\ ~ Unlabel(p)
    BY <1>2 DEF Promote, Put, Unlabel, At
  <2>4. \A op \in Ops : ~ Invoke(p, op)
    BY <1>2 DEF Invoke, At
  <2>5. ~ (Read(p) \/ ReadSource(p) \/ ReadDestination(p) \/ Confirm(p) \/ Report(p))
    BY <1>2 DEF Read, ReadSource, ReadDestination, Confirm, Report, At
  <2> QED BY <1>3, <1>4, <2>1, <2>2, <2>3, <2>4, <2>5 DEF Step
<1>6. version["app"] = run[p].source
  BY <1>1, <1>5, RecheckEffect DEF Became
<1> QED BY <1>1, <1>2, <1>6 DEF CopyInv, At

\* A copy that is about to report success left the WAF's secret with the code that the
\* application has at that moment (the last look of aws_waf_access_code.py).
THEOREM CopiesAreSynced == Spec => SyncedWhenReported
<1> DEFINE Synced == \A p \in Runs : At(p, "recheck") /\ run'[p].at = "report" /\ run'[p].outcome = "ok"
                                       => data["waf"].code = data["app"].code
<1>1. IInv /\ [Next]_vars => [Synced]_vars
  BY SyncStep
<1> QED BY Invariance, <1>1, PTL DEF Spec, SyncedWhenReported
=============================================================================
