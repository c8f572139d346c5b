----------------------------- MODULE SmokeDocument -----------------------------
(***************************************************************************)
(* The checks of a deployed release with a verification account: the       *)
(* document smoke inside the deployment (scripts/aws_release_safety.py)    *)
(* and, after it, the PDF probe of the workflow (scripts/aws_pdf_smoke.py).*)
(* Both create documents in the verification workspace, wait for the       *)
(* conversion and the AI, and delete what they created under an optimistic *)
(* lock, whatever happened before.                                         *)
(*                                                                         *)
(* The document service is external and may be the broken release the      *)
(* checks are there to find: it may answer a replay with a second document,*)
(* split a small document, never finish, or reject the tokens of the       *)
(* access service.  A call may fail before or after it took effect.        *)
(***************************************************************************)
EXTENDS Naturals, FiniteSets, Sequences

CONSTANTS
  PartCount, \* parts of the upload
  MaxPolls,  \* reads of the status until the deadline
  MaxFaults  \* bound on failed calls, lost answers and expired tokens

ASSUME SizeAssumption == PartCount \in Nat /\ PartCount >= 2 /\ MaxPolls \in Nat /\ MaxFaults \in Nat

VARIABLES
  docs,    \* what became of each document
  version, \* its current_version
  upload,  \* the multipart upload
  accepts, \* does the document service accept the tokens of the access service?
  probe,   \* the local state of the check that runs
  faults   \* faults so far

service == <<docs, version, upload, accepts>>
vars    == <<service, probe, faults>>

-----------------------------------------------------------------------------
\* The document of a user, that of the smoke, the uploaded PDF, a second one a
\* replay made, what the PDF is converted to, and a part split off from that.
Docs == {"users", "note", "original", "second", "parent", "part"}
Live(d) == docs[d] \notin {"none", "deleted"}

Uploading == {"part_url", "part_put", "complete", "replay"}
\* Of "login" and "part_put" the document service sees no token, of "range" only storage.
Calls == (Uploading \ {"part_put"}) \union
           {"create", "view", "start", "abort", "preview", "convert", "poll", "ingest", "get", "delete"}
Places == Calls \union {"login", "part_put", "range", "done"}

Fresh(phase) ==
  [phase |-> phase, at |-> "login", token |-> "none", renew |-> "may", parts |-> 0, created |-> <<>>,
   left |-> 0, base |-> 0, asked |-> FALSE, polls |-> 0,
   report |-> [status |-> "failed", stage |-> "none", failures |-> 0]]

Init ==
  /\ docs = [d \in Docs |-> IF d = "users" THEN "stored" ELSE "none"]
  /\ version = [d \in Docs |-> IF d = "users" THEN 1 ELSE 0]
  /\ upload = "none" /\ accepts \in BOOLEAN
  /\ probe = Fresh("release") /\ faults = 0

Fault == faults < MaxFaults /\ faults' = faults + 1

\* The cleanup goes through the remembered documents from the last to the first.
Cleanup(q) == [q EXCEPT !.at = "get", !.renew = "may", !.left = Len(q.created)]

\* Mutant: a document that cannot be read is passed over.
RaisedMutant(q) ==
  CASE q.at \in {"get", "delete"} ->
         [q EXCEPT !.at = "get", !.renew = "may", !.left = @ - 1,
                   !.report.failures = IF q.at = "get" THEN @ ELSE @ + 1]
    [] q.at \in Uploading -> [q EXCEPT !.at = "abort", !.renew = "may", !.report.stage = q.at]
    [] q.at = "abort" -> Cleanup(q)
    [] OTHER -> Cleanup([q EXCEPT !.report.stage = q.at])

\* An exception: it is counted in the cleanup and swallowed in the abort; in the
\* upload it leads to the abort, elsewhere to the cleanup.
Raised(q) ==
  CASE q.at \in {"get", "delete"} ->
         [q EXCEPT !.at = "get", !.renew = "may", !.left = @ - 1, !.report.failures = @ + 1]
    [] q.at \in Uploading -> [q EXCEPT !.at = "abort", !.renew = "may", !.report.stage = q.at]
    [] q.at = "abort" -> Cleanup(q)
    [] OTHER -> Cleanup([q EXCEPT !.report.stage = q.at])

Remember(q, d) == IF \E i \in DOMAIN q.created : q.created[i] = d THEN q ELSE [q EXCEPT !.created = Append(@, d)]
To(q, place) == [q EXCEPT !.at = place, !.renew = "may"]

\* The call took effect; its answer, after which the probe is q, may be lost.
Answered(q) == (probe' = q /\ UNCHANGED faults) \/ (probe' = Raised(probe) /\ Fault)

Authorized == accepts /\ probe.token = "valid"
\* The probe is in front of a call, or in front of the end of the cleanup.
Working == probe.at # "done" /\ (probe.at = "get" => probe.left > 0)
At(place) == Working /\ probe.at = place /\ probe.renew # "login" /\ (place \in Calls => Authorized)
\* A document is stored, or replaced by a new version of it.
Store(d, state) == docs' = [docs EXCEPT ![d] = state] /\ version' = [version EXCEPT ![d] = @ + 1]
Unchanged == UNCHANGED service

-----------------------------------------------------------------------------
(* Probe.api: the token.                                                   *)

Login ==
  /\ probe.at = "login" \/ probe.renew = "login"
  /\ LET q == [probe EXCEPT !.token = "valid"] IN
     Answered(IF q.renew = "login" THEN [q EXCEPT !.renew = "done"]
              ELSE To(q, IF q.phase = "release" THEN "create" ELSE "start"))
  /\ Unchanged

\* Mutant: the repeated call may log in again.
UnauthorizedMutant ==
  /\ Working /\ probe.at \in Calls /\ probe.renew # "login" /\ ~ Authorized
  /\ probe' = IF probe.phase = "pdf" /\ probe.token # "none"
              THEN [probe EXCEPT !.token = "none", !.renew = "login"] ELSE Raised(probe)
  /\ UNCHANGED <<service, faults>>

\* Only the PDF probe logs in again, once in a call, if it still has a token.
Unauthorized ==
  /\ Working /\ probe.at \in Calls /\ probe.renew # "login" /\ ~ Authorized
  /\ probe' = IF probe.phase = "pdf" /\ probe.renew = "may" /\ probe.token # "none"
              THEN [probe EXCEPT !.token = "none", !.renew = "login"] ELSE Raised(probe)
  /\ UNCHANGED <<service, faults>>

Expire ==
  /\ probe.token = "valid" /\ probe.at # "done" /\ Fault
  /\ probe' = [probe EXCEPT !.token = "expired"]
  /\ Unchanged

\* A call fails without effect.
CallFails ==
  /\ Working /\ Fault
  /\ probe' = Raised(probe)
  /\ Unchanged

-----------------------------------------------------------------------------
(* authenticated_smoke: create, look, have it ingested.                    *)

Create ==
  /\ At("create") /\ Store("note", "stored")
  /\ Answered(To(Remember(probe, "note"), "view"))
  /\ UNCHANGED <<upload, accepts>>

View == At("view") /\ Answered(To(probe, "ingest")) /\ Unchanged

(* Probe.run: the upload.                                                  *)
Start ==
  /\ At("start") /\ upload' = "open"
  /\ Answered(To(probe, "part_url"))
  /\ UNCHANGED <<docs, version, accepts>>

PartUrl == At("part_url") /\ Answered(To(probe, "part_put")) /\ Unchanged

PartPut ==
  /\ At("part_put")
  /\ Answered([To(probe, IF probe.parts + 1 < PartCount THEN "part_url" ELSE "complete") EXCEPT !.parts = @ + 1])
  /\ Unchanged

Complete ==
  /\ At("complete") /\ upload' = "completed" /\ Store("original", "stored")
  /\ Answered(To(Remember(probe, "original"), "replay"))
  /\ UNCHANGED accepts

\* Mutant: the answer is not compared with the first one.
ReplayMutant ==
  /\ At("replay")
  /\ Unchanged \/ (Store("second", "stored") /\ UNCHANGED <<upload, accepts>>)
  /\ Answered(To(probe, "preview"))

\* The same completion again.  A broken service makes another document of it.
Replay ==
  /\ At("replay")
  /\ \/ Unchanged /\ Answered(To(probe, "preview"))
     \/ /\ Store("second", "stored") /\ UNCHANGED <<upload, accepts, faults>>
        /\ probe' = Raised(probe)

Abort ==
  /\ At("abort") /\ upload' = IF upload = "open" THEN "aborted" ELSE upload
  /\ Answered(Cleanup(probe))
  /\ UNCHANGED <<docs, version, accepts>>

(* The address of the original, then the policy of the page and a range.   *)
Preview   == At("preview") /\ Answered(To(probe, "range")) /\ Unchanged
ByteRange == At("range") /\ Answered(To(probe, "convert")) /\ Unchanged

\* Mutant: the document of the conversion is not remembered.
ConvertMutant ==
  /\ At("convert") /\ Store("parent", "converting")
  /\ Answered(To(probe, "poll"))
  /\ UNCHANGED <<upload, accepts>>

Convert ==
  /\ At("convert") /\ Store("parent", "converting")
  /\ Answered(To(Remember(probe, "parent"), "poll"))
  /\ UNCHANGED <<upload, accepts>>

Ingest ==
  LET d == IF probe.phase = "release" THEN "note" ELSE "parent" IN
  /\ At("ingest")
  /\ docs' = [docs EXCEPT ![d] = IF @ \in {"stored", "converted"} THEN "ingesting" ELSE @]
  /\ Answered([To(probe, "poll") EXCEPT !.asked = TRUE])
  /\ UNCHANGED <<version, upload, accepts>>

Passed(q) == Cleanup([q EXCEPT !.report.status = "passed"])

\* What a read of the documents leads to.
Judged(q) ==
  LET completed == docs[IF q.phase = "release" THEN "note" ELSE "parent"] = "completed" IN
  CASE q.phase = "release" /\ docs["note"] = "failed" -> Raised(q)
    [] q.phase = "pdf" /\ Live("part") -> Raised(Remember(q, "part"))
    [] completed /\ ~ Live("part") -> Passed(q)
    [] q.phase = "pdf" /\ docs["parent"] = "converted" /\ ~ q.asked /\ ~ Live("part") -> To(q, "ingest")
    [] OTHER -> To(q, "poll")

Poll ==
  /\ At("poll") /\ probe.polls < MaxPolls
  /\ LET q == [probe EXCEPT !.polls = @ + 1] IN Answered(Judged(q))
  /\ Unchanged

TimeOut ==
  /\ probe.at = "poll" /\ probe.polls = MaxPolls
  /\ probe' = Raised(probe)
  /\ UNCHANGED <<service, faults>>

-----------------------------------------------------------------------------
(* The cleanup.                                                            *)

Get ==
  /\ At("get")
  /\ Answered([To(probe, "delete") EXCEPT !.base = version[probe.created[probe.left]]])
  /\ Unchanged

Delete ==
  LET d == probe.created[probe.left] IN
  /\ At("delete")
  /\ IF version[d] = probe.base
     THEN docs' = [docs EXCEPT ![d] = "deleted"] /\ Answered([To(probe, "get") EXCEPT !.left = @ - 1])
     ELSE probe' = Raised(probe) /\ UNCHANGED <<docs, faults>>
  /\ UNCHANGED <<version, upload, accepts>>

\* After the smoke of a deployment or a recovery the workflow runs the PDF probe.
Finish ==
  LET passed == probe.report.status = "passed" /\ probe.report.failures = 0 IN
  /\ probe.at = "get" /\ probe.left = 0
  /\ \/ passed /\ probe.phase = "release" /\ probe' = Fresh("pdf")
     \/ probe' = [probe EXCEPT !.at = "done", !.report.status = IF passed THEN @ ELSE "failed"]
  /\ UNCHANGED <<service, faults>>

-----------------------------------------------------------------------------
\* The service goes on with the documents by itself.
Converted  == docs["parent"] = "converting" /\ Store("parent", "converted")
Split      == docs["parent"] = "converting" /\ docs["part"] = "none" /\ Store("part", "stored")
AutoIngest == docs["parent"] = "converted" /\ docs' = [docs EXCEPT !["parent"] = "ingesting"]
              /\ UNCHANGED version
Ingested(d) == docs[d] = "ingesting" /\ \E s \in {"completed", "failed"} : Store(d, s)

\* The signing and the verifying service get different keys, in a rotation of
\* aws_jwt_keys.py for one: no new token is accepted either.
Reject == accepts /\ accepts' = FALSE /\ UNCHANGED <<docs, version, upload, probe, faults>>

Works == (Converted \/ Split \/ AutoIngest \/ Ingested("note") \/ Ingested("parent"))
         /\ UNCHANGED <<upload, accepts, probe, faults>>

Progress ==
  \/ Login \/ Unauthorized \/ CallFails \/ Create \/ View \/ Start \/ PartUrl \/ PartPut \/ Complete
  \/ Replay \/ Abort \/ Preview \/ ByteRange \/ Convert \/ Ingest \/ Poll \/ TimeOut \/ Get \/ Delete \/ Finish

Next == Progress \/ Expire \/ Works \/ Reject

Spec == Init /\ [][Next]_vars

\* Every call has a time limit, so the checks go on; the service may not.
FairSpec == Spec /\ WF_vars(Progress)

-----------------------------------------------------------------------------
Own == Docs \ {"users"}

TypeOK ==
  /\ docs \in [Docs -> {"none", "stored", "converting", "converted", "ingesting", "failed", "completed", "deleted"}]
  /\ version \in [Docs -> 0 .. 3] /\ upload \in {"none", "open", "completed", "aborted"} /\ accepts \in BOOLEAN
  /\ probe \in [phase : {"release", "pdf"}, at : Places, token : {"none", "valid", "expired"},
                renew : {"may", "login", "done"}, parts : 0 .. PartCount, created : Seq(Docs),
                left : 0 .. Len(probe.created), base : 0 .. 3, asked : BOOLEAN, polls : 0 .. MaxPolls,
                report : [status : {"passed", "failed"}, stage : Places \union {"none"},
                          failures : 0 .. Len(probe.created)]]
  /\ faults \in 0 .. MaxFaults

\* A release whose checks passed has left nothing in the workspace: neither a
\* document of the smoke or the probe, nor one a defect of the service made of
\* theirs, nor an upload that was not finished.
CleanAfterPass ==
  probe.at = "done" /\ probe.report.status = "passed" =>
    (\A d \in Own : ~ Live(d)) /\ upload # "open"

\* "Only our newly created document is deleted. Never touch pre-existing user data."
UsersDocumentsKept == docs["users"] = "stored"

\* The report counts every document the probe knows it left behind, although it
\* may count one whose deletion took effect.
LeftoversCounted ==
  probe.at = "done" =>
    Cardinality({d \in Own : Live(d) /\ \E i \in DOMAIN probe.created : probe.created[i] = d})
      <= probe.report.failures

\* States are of their types, what users stored is there, and no document that is
\* left behind and known goes uncounted, after any failures of the cleanup.
Safety == TypeOK /\ UsersDocumentsKept /\ LeftoversCounted

\* What the probe leaves without counting it was made by the call at which its
\* report says it failed, or split off after its last look.
LeftoversTold ==
  probe.at = "done" /\ probe.phase = "pdf" =>
    \A d \in Own : Live(d) /\ (\A i \in DOMAIN probe.created : probe.created[i] # d) =>
      probe.report.stage \in {"complete", "replay", "convert", "poll"}

\* Whatever the service answers and however long it takes, the checks end with a
\* report: tokens that are always rejected, too, lead to one login per call.
ReportWritten == <>(probe.at = "done")

-----------------------------------------------------------------------------
(* The strengthening under which the safety properties are inductive.  The *)
(* parts say of a local state q, of what became of the documents, ds, and  *)
(* of the upload, up, how they agree.                                      *)
Alive == {"stored", "converting", "converted", "ingesting", "failed", "completed"}
Known(q, d) == \E i \in DOMAIN q.created : q.created[i] = d
Cleaning == {"get", "delete", "done"}

\* Where the check is, or where it failed.
Stage(q) == IF q.at \in Cleaning \union {"abort"} THEN q.report.stage ELSE q.at

Starting == {"login", "start", "part_url", "part_put", "complete"}
PlacesOf(phase) ==
  Cleaning \union
    IF phase = "release" THEN {"login", "create", "view", "ingest", "poll"}
    ELSE Starting \union {"replay", "abort", "preview", "range", "convert", "ingest", "poll"}

LocalInv(q) ==
  /\ q.at \in PlacesOf(q.phase)
  /\ q.at \in {"login", "start"} => q.parts = 0
  /\ q.at \in {"part_url", "part_put"} => q.parts < PartCount
  /\ q.renew = "login" => q.at # "login" /\ q.at # "done" /\ (q.at = "get" => q.left > 0)
  /\ q.at \notin Cleaning => q.left = 0 /\ q.report.failures = 0 /\ q.report.status = "failed"
  /\ q.at \notin Cleaning \union {"abort"} => q.report.stage = "none"
  /\ (q.at = "delete" => q.left > 0) /\ (q.at = "done" => q.left = 0)
  /\ q.left + q.report.failures <= Len(q.created)
  /\ q.report.status = "passed" => q.report.stage = "none" /\ (q.at = "done" => q.report.failures = 0)

\* What the cleanup went through and is still there was counted.
CountInv(q, ds) ==
  /\ \A i \in DOMAIN q.created : q.created[i] # "users" /\ ds[q.created[i]] # "none"
  /\ q.at \in Cleaning =>
       Cardinality({i \in q.left + 1 .. Len(q.created) : ds[q.created[i]] \in Alive}) <= q.report.failures

\* What is there and not known was made where the check is or failed.
ToldInv(q, ds) ==
  q.phase = "pdf" =>
    /\ ds["original"] \in Alive => Known(q, "original") \/ Stage(q) = "complete"
    /\ ds["second"] \in Alive => Stage(q) = "replay"
    /\ ds["parent"] \in Alive => Known(q, "parent") \/ Stage(q) = "convert"
    /\ ds["parent"] = "converting" => Stage(q) \in {"convert", "poll"}
    /\ ds["part"] \in Alive => Stage(q) \in {"convert", "poll"}

\* What the check has not made, and what it made and knows.
DueInv(q, ds, up) ==
  LET passed == q.report.status = "passed" IN
  /\ q.phase = "release" =>
       /\ up = "none" /\ \A d \in Docs \ {"users", "note"} : ds[d] = "none"
       /\ q.at \in {"login", "create"} => ds["note"] = "none"
       /\ q.at \in {"view", "ingest", "poll"} \/ passed => Known(q, "note")
  /\ q.phase = "pdf" =>
       /\ ds["note"] = "deleted"
       /\ q.at \in Starting => ds["original"] = "none"
       /\ q.at \in Starting \union {"replay"} => ds["second"] = "none"
       /\ q.at \in Starting \union {"replay", "preview", "range", "convert"} => ds["parent"] = "none"
       /\ q.at \in {"replay", "preview", "range", "convert", "ingest", "poll"} \/ passed =>
            Known(q, "original") /\ up = "completed"
       /\ q.at \in {"ingest", "poll"} \/ passed => Known(q, "parent")

\* How often a document was stored, at most.
Versions(state) ==
  CASE state = "none" -> 0
    [] state \in {"stored", "converting"} -> 1
    [] state \in {"converted", "ingesting"} -> 2
    [] OTHER -> 3

IInv ==
  /\ TypeOK /\ UsersDocumentsKept /\ \A d \in Docs : version[d] <= Versions(docs[d])
  /\ LocalInv(probe) /\ CountInv(probe, docs) /\ ToldInv(probe, docs) /\ DueInv(probe, docs, upload)
=============================================================================
