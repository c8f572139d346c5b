---------------------------- MODULE SecretRotation ----------------------------
(***************************************************************************)
(* Changes of secrets in AWS Secrets Manager (scripts/aws_secret_tools.py) *)
(* by the JWT key tool (aws_jwt_keys.py) and the copy of the access code   *)
(* for the WAF (aws_waf_access_code.py): read a version, put a new one     *)
(* made from it under a label of its own, then move AWSCURRENT only if it  *)
(* is still on the version that was read.                                  *)
(*                                                                         *)
(* Runs of the tools interleave with each other and with other writers of  *)
(* the application's secret.  A call may fail before or after it took      *)
(* effect and a run may be killed.                                         *)
(***************************************************************************)
EXTENDS Naturals, FiniteSets

CONSTANTS
  Runs,      \* runs of the tools that may be under way at a time
  MaxKeys,   \* bound on the key pairs made
  MaxEdits,  \* bound on the changes of the access code by others
  MaxFaults  \* bound on failed calls and kills

ASSUME SizeAssumption == MaxKeys \in Nat /\ MaxEdits \in Nat /\ MaxFaults \in Nat
ASSUME RunsAssumption == IsFiniteSet(Runs)

VARIABLES
  data,    \* of each secret, the version with the label AWSCURRENT ...
  version, \* ... and which one it is, counting the versions that had the label
  labels,  \* number of versions that have the label they were staged with
  run,     \* the local state of each run
  keys,    \* key pairs made so far
  edits,   \* changes of the access code so far; the code is their number
  faults   \* faults so far

aws  == <<data, version, labels>>
vars == <<aws, run, keys, edits, faults>>

-----------------------------------------------------------------------------
Secrets == {"app", "waf"}
Ops == {"stage", "rotate", "retire-hmac", "retire-previous", "sync"}
Target(op) == IF op = "sync" THEN "waf" ELSE "app"
\* Key pair 0 stands for no key.  Of the WAF's secret only the code exists.
Initial == [key |-> 0, prev |-> 0, hmac |-> TRUE, code |-> 0]
\* The token of a staged version is 0 until it becomes current.
Idle == [at |-> "idle", op |-> "stage", data |-> Initial, base |-> 0, token |-> 0, source |-> 0,
         outcome |-> "ok"]

Init ==
  /\ data = [s \in Secrets |-> Initial] /\ version = [s \in Secrets |-> 1]
  /\ labels = [s \in Secrets |-> 0]
  /\ run = [p \in Runs |-> Idle]
  /\ keys = 0 /\ edits = 0 /\ faults = 0

At(p, place) == run[p].at = place
Goto(p, place) == run' = [run EXCEPT ![p].at = place]
\* What the run is about to print, in "report".  The data it read are gone.
Tell(p, outcome) ==
  run' = [run EXCEPT ![p] = [@ EXCEPT !.at = "report", !.data = Initial, !.source = 0, !.outcome = outcome]]
Fault == faults < MaxFaults /\ faults' = faults + 1

\* Operators copy the code once at a time.
Invoke(p, op) ==
  LET makers == {q \in Runs : At(q, "read") /\ run[q].op \in {"stage", "rotate"}} IN
  /\ At(p, "idle")
  /\ op = "sync" => \A q \in Runs : At(q, "idle") \/ run[q].op # "sync"
  /\ op \in {"stage", "rotate"} => keys + Cardinality(makers) < MaxKeys
  /\ run' = [run EXCEPT ![p] = [Idle EXCEPT !.at = "read", !.op = op]]
  /\ UNCHANGED <<aws, keys, edits, faults>>

Report(p) ==
  /\ At(p, "report")
  /\ run' = [run EXCEPT ![p] = Idle]
  /\ UNCHANGED <<aws, keys, edits, faults>>

-----------------------------------------------------------------------------
(* aws_jwt_keys: what a run makes of what it read.                         *)
Rsa(d) == d.key # 0

\* Mutant: a rotation does not ask for the previous key to be retired.
AllowedMutant(op, d) == op \in {"retire-hmac", "retire-previous"} => Rsa(d)

Allowed(op, d) ==
  CASE op = "rotate" -> d.prev = 0
    [] op \in {"retire-hmac", "retire-previous"} -> Rsa(d)
    [] OTHER -> TRUE

Changed(op, d, pair) ==
  CASE op = "retire-hmac" -> [d EXCEPT !.hmac = FALSE]
    [] op = "retire-previous" -> [d EXCEPT !.prev = 0]
    [] OTHER -> IF op = "stage" /\ Rsa(d) THEN d ELSE [d EXCEPT !.prev = d.key, !.key = pair]

\* A run makes a key pair when it is to store it.
Read(p) ==
  LET op == run[p].op
      new == Changed(op, data["app"], keys + 1)
  IN
  /\ At(p, "read") /\ op # "sync"
  /\ IF ~ Allowed(op, data["app"]) THEN Tell(p, "failed")
     ELSE IF new = data["app"] THEN Tell(p, "ok")
     ELSE run' = [run EXCEPT ![p].at = "put", ![p].data = new, ![p].base = version["app"]]
  /\ keys' = IF run'[p].data.key = keys + 1 THEN keys + 1 ELSE keys
  /\ UNCHANGED <<aws, edits, faults>>

(* aws_waf_access_code: the source, then the destination.                  *)
ReadSource(p) ==
  /\ At(p, "read") /\ run[p].op = "sync"
  /\ run' = [run EXCEPT ![p].at = "read_destination", ![p].source = version["app"],
                        ![p].data = [Initial EXCEPT !.code = data["app"].code]]
  /\ UNCHANGED <<aws, keys, edits, faults>>

ReadDestination(p) ==
  /\ At(p, "read_destination")
  /\ IF data["waf"] = run[p].data
     THEN Goto(p, "recheck")
     ELSE run' = [run EXCEPT ![p].at = "put", ![p].base = version["waf"]]
  /\ UNCHANGED <<aws, keys, edits, faults>>

\* Mutant: the source is not read again.
RecheckMutant(p) ==
  /\ At(p, "recheck")
  /\ Tell(p, "ok")
  /\ UNCHANGED <<aws, keys, edits, faults>>

Recheck(p) ==
  /\ At(p, "recheck")
  /\ Tell(p, IF version["app"] = run[p].source THEN "ok" ELSE "failed")
  /\ UNCHANGED <<aws, keys, edits, faults>>

-----------------------------------------------------------------------------
(* promote_secret.                                                         *)

\* When the answer is lost the run fails and the staged version stays.
Put(p) ==
  /\ At(p, "put")
  /\ labels' = [labels EXCEPT ![Target(run[p].op)] = @ + 1]
  /\ \/ Goto(p, "promote") /\ UNCHANGED faults
     \/ Tell(p, "failed") /\ Fault
  /\ UNCHANGED <<data, version, keys, edits>>

\* Secrets Manager moves AWSCURRENT to the staged version.
Move(p, s, place) ==
  /\ data' = [data EXCEPT ![s] = run[p].data] /\ version' = [version EXCEPT ![s] = @ + 1]
  /\ run' = [run EXCEPT ![p].at = place, ![p].token = version[s] + 1]

\* Mutant: AWSCURRENT is moved from wherever it is.
PromoteMutant(p) ==
  /\ At(p, "promote")
  /\ Move(p, Target(run[p].op), "unlabel")
  /\ UNCHANGED <<labels, keys, edits, faults>>

\* It refuses if AWSCURRENT is elsewhere, and its answer may be lost.
Promote(p) ==
  LET s == Target(run[p].op) IN
  /\ At(p, "promote")
  /\ IF version[s] = run[p].base
     THEN \/ Move(p, s, "unlabel") /\ UNCHANGED faults
          \/ Move(p, s, "confirm") /\ Fault
     ELSE Goto(p, "confirm") /\ UNCHANGED <<data, version, faults>>
  /\ UNCHANGED <<labels, keys, edits>>

\* Mutant: a failed call is taken for a lost answer.
ConfirmTrustMutant(p) ==
  /\ At(p, "confirm")
  /\ Goto(p, "unlabel")
  /\ UNCHANGED <<aws, keys, edits, faults>>

\* "A response can be lost after AWS committed the update": look.
Confirm(p) ==
  /\ At(p, "confirm")
  /\ run' = [run EXCEPT ![p].at = "unlabel",
                        ![p].outcome = IF version[Target(run[p].op)] = run[p].token THEN "ok" ELSE "failed"]
  /\ UNCHANGED <<aws, keys, edits, faults>>

\* Mutant: only a promotion that succeeded is cleaned up.
UnlabelMutant(p) ==
  /\ At(p, "unlabel")
  /\ labels' = [labels EXCEPT ![Target(run[p].op)] = IF run[p].outcome = "ok" THEN @ - 1 ELSE @]
  /\ IF run[p].op = "sync" /\ run[p].outcome = "ok" THEN Goto(p, "recheck") ELSE Goto(p, "report")
  /\ UNCHANGED <<data, version, keys, edits, faults>>

\* A failure to remove the label is a warning.
Unlabel(p) ==
  /\ At(p, "unlabel")
  /\ \/ labels' = [labels EXCEPT ![Target(run[p].op)] = @ - 1] /\ UNCHANGED faults
     \/ UNCHANGED labels /\ Fault
  /\ IF run[p].op = "sync" /\ run[p].outcome = "ok" THEN Goto(p, "recheck") ELSE Goto(p, "report")
  /\ UNCHANGED <<data, version, keys, edits>>

\* A call fails without effect.  That of the promotion is looked into.
CallFails(p) ==
  /\ run[p].at \in {"read", "read_destination", "recheck", "put", "promote", "confirm"} /\ Fault
  /\ IF At(p, "promote") THEN Goto(p, "confirm") ELSE Tell(p, "failed")
  /\ UNCHANGED <<aws, keys, edits>>

Kill(p) ==
  /\ ~ At(p, "idle") /\ Fault
  /\ run' = [run EXCEPT ![p] = Idle]
  /\ UNCHANGED <<aws, keys, edits>>

-----------------------------------------------------------------------------
\* Somebody else changes the access code, in one step.
Edit ==
  /\ edits < MaxEdits /\ edits' = edits + 1
  /\ data' = [data EXCEPT !["app"].code = edits + 1] /\ version' = [version EXCEPT !["app"] = @ + 1]
  /\ UNCHANGED <<labels, run, keys, faults>>

Step(p) ==
  \/ \E op \in Ops : Invoke(p, op)
  \/ Read(p) \/ ReadSource(p) \/ ReadDestination(p) \/ Recheck(p)
  \/ Put(p) \/ Promote(p) \/ Confirm(p) \/ Unlabel(p) \/ Report(p) \/ CallFails(p) \/ Kill(p)

Next == (\E p \in Runs : Step(p)) \/ Edit

Spec == Init /\ [][Next]_vars

-----------------------------------------------------------------------------
Keys == [key : 0 .. MaxKeys, prev : 0 .. MaxKeys, hmac : BOOLEAN, code : 0 .. MaxEdits]

TypeOK ==
  /\ data \in [Secrets -> Keys] /\ version \in [Secrets -> Nat] /\ labels \in [Secrets -> Nat]
  /\ run \in [Runs -> [at : {"idle", "read", "read_destination", "put", "promote", "confirm",
                             "unlabel", "recheck", "report"},
                       op : Ops, data : Keys, base : Nat, token : Nat,
                       source : Nat, outcome : {"ok", "failed"}]]
  /\ keys \in 0 .. MaxKeys /\ edits \in 0 .. MaxEdits /\ faults \in 0 .. MaxFaults

\* "Do not overwrite a concurrent operator's AWSCURRENT version": whatever the
\* tools do, the current secret keeps the last change made to it by others.
EditsKept == data["app"].code = edits

\* What signs or verifies tokens goes on verifying them until somebody retires
\* the previous key, also when rotations race, lose their answers or are run
\* again: from one rotation to the next the predecessor is kept.
Verifies(d) == {d.key, d.prev} \ {0}
KeysKeptUntilRetired ==
  [][\A k \in Verifies(data["app"]) \ Verifies(data'["app"]) :
       k # data["app"].key /\ \E p \in Runs : run[p].op = "retire-previous" /\ Promote(p)]_vars

\* A run that reports a change made it.  One that reports a failure although it
\* made it lost the answer and the look, or others went on from its version.
ReportsAreTrue ==
  \A p \in Runs : At(p, "report") /\ run[p].op # "sync" /\ run[p].base # 0 =>
    IF run[p].outcome = "ok" THEN run[p].token # 0
    ELSE run[p].token \in {0} \union 1 .. version["app"] - 1 \/ faults >= 2

\* "Run before Terraform plans WAF": a copy that reports success left the WAF
\* with the code that the application has, although others change it meanwhile.
SyncedWhenReported ==
  [][\A p \in Runs : At(p, "recheck") /\ run'[p].at = "report" /\ run'[p].outcome = "ok"
       => data["waf"].code = data["app"].code]_vars

\* A label that outlives its run is the trace of a call that failed or of a kill.
LabelsRemoved ==
  LET staging == {p \in Runs : run[p].at \in {"promote", "confirm", "unlabel"}} IN
  labels["app"] + labels["waf"] <= faults + Cardinality(staging)

\* States are of their types and labels that stay are accounted for.
Safety == TypeOK /\ LabelsRemoved

-----------------------------------------------------------------------------
(* The strengthening under which the safety properties are inductive.      *)

Asking == {p \in Runs : At(p, "read") /\ run[p].op \in {"stage", "rotate"}}
Staging(s) ==
  {p \in Runs : run[p].at \in {"promote", "confirm", "unlabel"} /\ Target(run[p].op) = s}

\* A label is there for each run that has yet to remove it.  A key pair may be made
\* by each run that was let in to make one, and the next one is not in use.
CountInv ==
  /\ LabelsRemoved
  /\ \A s \in Secrets : Cardinality(Staging(s)) <= labels[s]
  /\ keys + Cardinality(Asking) <= MaxKeys
  /\ data["app"].key <= keys /\ \A p \in Runs : run[p].data.key <= keys

\* What the locals of a run say where it is.
LocalInv ==
  \A p \in Runs :
    /\ run[p].at \in {"read_destination", "recheck"} => run[p].op = "sync"
    /\ run[p].at \in {"idle", "read", "read_destination"} => run[p].base = 0
    /\ run[p].at \in {"idle", "read", "read_destination", "put", "promote"} => run[p].token = 0
    /\ run[p].at \notin {"unlabel", "recheck", "report"} => run[p].outcome = "ok"
    /\ run[p].token <= version[Target(run[p].op)]
    /\ At(p, "confirm") /\ run[p].token # 0 => faults >= 1
    /\ At(p, "unlabel") =>
         IF run[p].outcome = "ok" THEN run[p].token # 0
         ELSE run[p].token < version[Target(run[p].op)]

\* What a run is about to promote was made from what is current, as long as the
\* version it read is: the code is the same, and keys are only dropped on purpose.
HeldInv ==
  LET d == data["app"] IN
  /\ d.key = 0 => d.prev = 0
  /\ \A p \in Runs : run[p].at \in {"put", "promote"} /\ run[p].op # "sync" =>
       /\ run[p].base <= version["app"]
       /\ run[p].base = version["app"] =>
            /\ run[p].data.code = d.code /\ run[p].data.key # 0
            /\ \A k \in Verifies(d) \ Verifies(run[p].data) :
                 k # d.key /\ run[p].op = "retire-previous"

\* The copy for the WAF: there is one, it has the code of the version it read, and
\* it gets to the last look only with that code in the WAF's secret.
CopyInv ==
  /\ \A p, q \in Runs :
       ~ At(p, "idle") /\ ~ At(q, "idle") /\ run[p].op = "sync" /\ run[q].op = "sync" => p = q
  /\ \A p \in Runs : run[p].op = "sync" /\ run[p].at \notin {"idle", "read", "report"} =>
       /\ run[p].source <= version["app"]
       /\ run[p].source = version["app"] => run[p].data.code = data["app"].code
       /\ At(p, "recheck") \/ (At(p, "confirm") /\ run[p].token # 0)
            \/ (At(p, "unlabel") /\ run[p].outcome = "ok") => data["waf"] = run[p].data

IInv ==
  /\ TypeOK /\ (\A s \in Secrets : version[s] >= 1)
  /\ CountInv /\ LocalInv /\ HeldInv /\ CopyInv /\ EditsKept /\ ReportsAreTrue
=============================================================================
